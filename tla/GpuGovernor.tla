---------------------------- MODULE GpuGovernor -----------------------------
(***************************************************************************)
(* The userspace GPU governors of governor/: once per iteration of the     *)
(* sampling loop the selected policy reads the utilizations of GPU and     *)
(* memory controller and the frequency it wrote last, decides on a level   *)
(* of the board's table and writes it to sysfs.                            *)
(*                                                                         *)
(* Frequencies are in MHz, utilizations in the units of sysfs (0.1 % for   *)
(* the GPU, 0.0001 % for the EMC), and the thresholds are the code's.      *)
(* What a policy prints about itself is left out.                          *)
(***************************************************************************)
EXTENDS Integers, FiniteSetsExt

CONSTANTS
    available_gpufreq,  \* the board's table, by level
    Limits,             \* what sysfs may give as min_freq and max_freq
    Policies,           \* the names given with -g
    Loads,              \* pairs of utilizations the sensors may show
    EPOCH_WRAP,         \* 1e6 in scale_10.c and scale_100.c
    Garbage             \* what the heap holds before scale_down_table

\* The policies' arrays and level numbers are written for 13 levels.
Levels == 0 .. 12
Frequencies == {available_gpufreq[l] : l \in Levels}

ASSUME GovernorAssumption ==
    /\ available_gpufreq \in [Levels -> Nat \ {0}]
    /\ \A l \in Levels \ {0} : available_gpufreq[l - 1] < available_gpufreq[l]
    /\ Limits \subseteq [min : Frequencies, max : Frequencies]
    /\ Loads \subseteq [gpu : Nat, emc : Nat]
    /\ EPOCH_WRAP \in Nat \ {0} /\ EPOCH_WRAP % 100 = 0
    /\ Garbage \subseteq Nat

\* On the board 9 % of the maximum do not span two steps of the table
\* (cnngov_dyn_th.c:30-42): only cnngov_dyn_th2_th3 relies on it.
ASSUME StepAssumption ==
    \A l \in 0 .. 10 :
        9 * available_gpufreq[12] < 100 * (available_gpufreq[l + 2] - available_gpufreq[l])

VARIABLES
    policy,        \* curr_gpugov
    limits,        \* gpugov_info.min_gpufreq and max_gpufreq
    set_freq,      \* the board: content of userspace/set_freq
    load,          \* what the sensors show
    sampling_down_counter, sampling_up_counter,
    sampling_counter, epoch_count, max_flag,
    direction,     \* history: how the policy last moved under this load
    held           \* history: calls since a Counting policy's last move, up to
                   \* 100; -1 before the first

settings == <<policy, limits>>
counters == <<sampling_down_counter, sampling_up_counter, sampling_counter,
              epoch_count, max_flag>>
vars == <<settings, set_freq, load, counters, direction, held>>

gpuutil == load.gpu
emcutil == load.emc
freq == set_freq
min_gpufreq == limits.min
max_gpufreq == limits.max

-----------------------------------------------------------------------------
(* Frequencies and levels. *)

GpufreqHzToLevel(f) ==
    IF f \in Frequencies THEN CHOOSE l \in Levels : available_gpufreq[l] = f
                         ELSE -1

\* Mutant: the target lies above.
ScaleDownWrongSign(f, n) ==
    LET Enough == {l \in Levels :
                     100 * available_gpufreq[l] >= 100 * f + n * max_gpufreq}
    IN  IF Enough = {} THEN -1 ELSE available_gpufreq[Min(Enough)]

\* The lowest level that is not below f less n % of the maximum.
ScaleDownByNOfMax(f, n) ==
    LET Enough == {l \in Levels :
                     100 * available_gpufreq[l] >= 100 * f - n * max_gpufreq}
    IN  IF Enough = {} THEN -1 ELSE available_gpufreq[Min(Enough)]

\* Mutant: n % of f itself, as in scale_up_by_n().
ScaleUpByN(f, n) ==
    LET Enough == {l \in Levels : 100 * available_gpufreq[l] <= (100 + n) * f}
    IN  IF Enough = {} THEN -1 ELSE available_gpufreq[Max(Enough)]

\* The highest level that is not above f and n % of the maximum.
ScaleUpByNOfMax(f, n) ==
    LET Enough == {l \in Levels :
                     100 * available_gpufreq[l] <= 100 * f + n * max_gpufreq}
    IN  IF Enough = {} THEN -1 ELSE available_gpufreq[Max(Enough)]

Down(n) == ScaleDownByNOfMax(freq, n)
Up(n) == ScaleUpByNOfMax(freq, n)

AtLeast(f, bound) == IF f < bound THEN bound ELSE f
AtMost(f, bound) == IF f > bound THEN bound ELSE f

\* The conversion to int16_t.
Int16(n) == ((n + 32768) % 65536) - 32768

-----------------------------------------------------------------------------
(* The policies that only look at the present: the frequency each decides on. *)

cnngov_a ==
    CASE gpuutil < 700 -> Down(9)
      [] gpuutil > 800 /\ emcutil > 600000 -> Down(9)
      [] gpuutil > 800 /\ emcutil < 200000 -> Up(9)
      [] OTHER -> freq

cnngov_b ==
    CASE gpuutil < 700 -> Down(9)
      [] gpuutil > 800 /\ emcutil > 600000 -> Down(9)
      [] gpuutil > 800 /\ emcutil < 200000 -> max_gpufreq
      [] OTHER -> freq

\* Up to the threshold the same code in cnngov_c.c, _c_30.c and _c_40.c.
CnngovC(emc_up_threshold) ==
    CASE gpuutil < 700 -> Down(9)
      [] gpuutil > 800 /\ emcutil < emc_up_threshold -> Up(9)
      [] OTHER -> freq

cnngov_c == CnngovC(200000)
cnngov_c_30 == CnngovC(300000)
cnngov_c_40 == CnngovC(400000)

cnngov_d ==
    CASE gpuutil < 700 -> Down(9)
      [] gpuutil > 800 /\ emcutil < 200000 -> max_gpufreq
      [] OTHER -> freq

cnngov_e ==
    CASE gpuutil > 800 /\ emcutil < 200000 -> Up(9)
      [] gpuutil < 700 -> AtLeast(Down(9), available_gpufreq[4])
      [] OTHER -> freq

cnngov_20190919 ==
    CASE gpuutil < 800 /\ emcutil > 250000 -> Down(9)
      [] gpuutil < 800 /\ emcutil < 200000 -> Up(9)
      [] gpuutil >= 800 /\ emcutil > 350000 -> Down(9)
      [] gpuutil >= 800 /\ emcutil < 300000 -> Up(9)
      [] OTHER -> freq

cnngov_20190920 ==
    CASE gpuutil < 800 /\ emcutil > 300000 -> Down(9)
      [] gpuutil >= 800 /\ emcutil > 400000 -> Down(9)
      [] gpuutil >= 800 /\ emcutil < 250000 -> Up(9)
      [] OTHER -> freq

maxmin_cap_b ==
    CASE gpuutil > 800 ->
           AtMost(Up(9), available_gpufreq[IF emcutil > 200000 THEN 10 ELSE 12])
      [] gpuutil < 700 ->
           AtLeast(Down(9), available_gpufreq[IF emcutil < 200000 THEN 2 ELSE 0])
      [] OTHER -> freq

hilo == available_gpufreq[IF gpuutil < 800 THEN 4 ELSE 10]

policy_0_or_not == available_gpufreq[IF gpuutil = 0 THEN 10 ELSE 4]

\* get_emcutil()'s answer is kept in 16 bits.
emc_conservative ==
    CASE Int16(emcutil) > 500000 -> Down(9)
      [] Int16(emcutil) < 300000 -> Up(9)
      [] OTHER -> freq

AtOnce == {"cnngov_a", "cnngov_b", "cnngov_c", "cnngov_c_30", "cnngov_c_40",
           "cnngov_d", "cnngov_e", "cnngov_20190919", "cnngov_20190920",
           "maxmin_cap_b", "hilo", "policy_0_or_not", "emc_conservative"}

AtOnceTarget ==
    CASE policy = "cnngov_a" -> cnngov_a
      [] policy = "cnngov_b" -> cnngov_b
      [] policy = "cnngov_c" -> cnngov_c
      [] policy = "cnngov_c_30" -> cnngov_c_30
      [] policy = "cnngov_c_40" -> cnngov_c_40
      [] policy = "cnngov_d" -> cnngov_d
      [] policy = "cnngov_e" -> cnngov_e
      [] policy = "cnngov_20190919" -> cnngov_20190919
      [] policy = "cnngov_20190920" -> cnngov_20190920
      [] policy = "maxmin_cap_b" -> maxmin_cap_b
      [] policy = "hilo" -> hilo
      [] policy = "policy_0_or_not" -> policy_0_or_not
      [] policy = "emc_conservative" -> emc_conservative

-----------------------------------------------------------------------------
(* The policies that decide at every n-th call only.  The counters in these  *)
(* operators are those of the current call, already incremented.             *)

\* slow_scale.c and the two feas_test*.c differ in thresholds and factors.
ByThresholds(th1, th2, th3, th4, n, down, up) ==
    CASE gpuutil < th1 /\ down /\ emcutil > th4 -> Down(n)
      [] gpuutil >= th1 /\ down /\ emcutil > th3 -> Down(n)
      [] gpuutil >= th1 /\ up /\ emcutil < th2 -> Up(9)
      [] OTHER -> freq

slow_scale(down, up) == ByThresholds(962, 495000, 540000, 800000, 9, down, up)

FeasTest(n, down, up) ==
    AtLeast(AtMost(ByThresholds(962, 650000, 750000, 400000, n, down, up),
                   available_gpufreq[10]),
            available_gpufreq[8])

feas_test(down, up) == FeasTest(9, down, up)
feas_test_2stepdown(down, up) == FeasTest(18, down, up)

cnngov_20191211(down, up) ==
    AtLeast(AtMost(CASE gpuutil >= 996 /\ up -> available_gpufreq[10]
                     [] gpuutil < 996 /\ down -> Down(9)
                     [] OTHER -> freq,
                   available_gpufreq[10]),
            available_gpufreq[6])

Sampled == {"slow_scale", "feas_test", "feas_test_2stepdown", "cnngov_20191211"}

\* SAMPLING_DOWN_FACTOR and SAMPLING_UP_FACTOR, equal in every policy.
SamplingFactor ==
    CASE policy = "slow_scale" -> 5
      [] policy = "cnngov_20191211" -> 3
      [] OTHER -> 7

SampledTarget(down, up) ==
    CASE policy = "slow_scale" -> slow_scale(down, up)
      [] policy = "feas_test" -> feas_test(down, up)
      [] policy = "feas_test_2stepdown" -> feas_test_2stepdown(down, up)
      [] policy = "cnngov_20191211" -> cnngov_20191211(down, up)

\* The thresholds for the EMC by the level of the present frequency.
TH3Dyn(l) == <<464000, 464000, 464000, 464000, 464000, 464000, 464000,
               450000, 437000, 423000, 410000, 396000, 383000>>[l + 1]
TH2Dyn2(l) == <<500000, 500000, 500000, 500000, 500000, 500000, 500000,
                474000, 448000, 422000, 396000, 370000, 344000>>[l + 1]
TH3Dyn2(l) == <<539000, 539000, 539000, 539000, 539000, 539000, 539000,
                513000, 487000, 461000, 435000, 409000, 383000>>[l + 1]

cnngov_dyn_th ==
    LET TH3 == TH3Dyn(GpufreqHzToLevel(freq))
    IN  CASE gpuutil > 962 /\ emcutil > TH3 -> Down(9)
          [] gpuutil > 962 /\ 421000 < TH3 /\ emcutil < 421000 -> Up(9)
          [] gpuutil <= 962 /\ emcutil > 800000 -> Down(9)
          [] OTHER -> freq

\* Mutant: TH2 for both directions.
Dyn2OneThreshold ==
    LET level == GpufreqHzToLevel(freq)
    IN  CASE gpuutil > 962 /\ emcutil > TH2Dyn2(level) -> Down(9)
          [] gpuutil > 962 /\ emcutil < TH2Dyn2(level) -> Up(9)
          [] gpuutil <= 962 /\ emcutil > 800000 -> Down(9)
          [] OTHER -> freq

cnngov_dyn_th2_th3 ==
    LET level == GpufreqHzToLevel(freq)
    IN  CASE gpuutil > 962 /\ emcutil > TH3Dyn2(level) -> Down(9)
          [] gpuutil > 962 /\ emcutil < TH2Dyn2(level) -> Up(9)
          [] gpuutil <= 962 /\ emcutil > 800000 -> Down(9)
          [] OTHER -> freq

Dynamic == {"cnngov_dyn_th", "cnngov_dyn_th2_th3"}
SAMPLING_FACTOR == 7

-----------------------------------------------------------------------------
(* The policies that only count calls. *)

Alternating == {"scale_always", "scale_10", "scale_100"}
Counting == Alternating \cup {"pingpong"}

Period == CASE policy = "scale_always" -> 1
            [] policy = "scale_10" -> 10
            [] policy = "scale_100" -> 100

AlternatingTarget ==
    IF max_flag THEN max_gpufreq ELSE ScaleDownByNOfMax(max_gpufreq, 9)

interval == 15

\* reduce_gpufreq_by20() answers with an entry of scale_down_table, which holds
\* levels, as if it were a frequency; the entry before the first is whatever
\* precedes the table on the heap.  Where no level is low enough, the search
\* for one leaves the frequency table below and ends anywhere.
ScaleDownTable(level) ==
    LET Lower == {l \in 0 .. level - 1 :
                    10 * available_gpufreq[l] < 8 * available_gpufreq[level]}
    IN  IF level = 0 \/ available_gpufreq[level] >= min_gpufreq THEN {level}
        ELSE IF Lower = {} THEN Garbage ELSE {Max(Lower)}

ReduceGpufreqBy20 ==
    LET level == GpufreqHzToLevel(freq)
    IN  IF level = -1 THEN Garbage ELSE ScaleDownTable(level)

-----------------------------------------------------------------------------
\* The names select_gpugovernor() knows.
PolicyNames ==
    AtOnce \cup Sampled \cup Dynamic \cup Counting \cup {"ondemand8050", "do_nothing"}

ASSUME PoliciesAssumption == Policies \subseteq PolicyNames

\* select_gpugovernor() sets the minimum, and some policies' init another one.
InitialFreq(p, l) ==
    CASE p = "do_nothing" -> l.max
      [] p = "pingpong" -> available_gpufreq[4]
      [] OTHER -> l.min

Init ==
    /\ policy \in Policies
    /\ limits \in Limits
    /\ set_freq = InitialFreq(policy, limits)
    /\ load \in Loads
    /\ sampling_down_counter = 0 /\ sampling_up_counter = 0
    /\ sampling_counter = 0 /\ epoch_count = 0
    /\ max_flag = TRUE
    /\ direction = "none"
    /\ held = -1

\* set_gpufreq(f), and the history of it.
SetGpufreq(f) ==
    /\ set_freq' = f
    /\ direction' = IF f = set_freq THEN direction
                    ELSE IF f > set_freq THEN "up" ELSE "down"
    /\ held' = IF policy \notin Counting THEN held
               ELSE IF f # set_freq THEN 0
               ELSE IF held \in 0 .. 99 THEN held + 1 ELSE held

\* What runs on the board changes its behaviour.
LoadChanges ==
    /\ load' \in Loads \ {load}
    /\ direction' = "none"
    /\ UNCHANGED <<settings, set_freq, counters, held>>

GovernAtOnce ==
    /\ policy \in AtOnce
    /\ SetGpufreq(AtOnceTarget)
    /\ UNCHANGED <<settings, load, counters>>

\* Mutant: the counter for scaling up is not reset.
GovernSampledNoReset ==
    /\ policy \in Sampled
    /\ LET down == sampling_down_counter + 1 >= SamplingFactor
           up == sampling_up_counter + 1 >= SamplingFactor
       IN  /\ SetGpufreq(SampledTarget(down, up))
           /\ sampling_down_counter' = IF down THEN 0 ELSE sampling_down_counter + 1
           /\ sampling_up_counter' = sampling_up_counter + 1
    /\ UNCHANGED <<settings, load, sampling_counter, epoch_count, max_flag>>

GovernSampled ==
    /\ policy \in Sampled
    /\ LET down == sampling_down_counter + 1 >= SamplingFactor
           up == sampling_up_counter + 1 >= SamplingFactor
       IN  /\ SetGpufreq(SampledTarget(down, up))
           /\ sampling_down_counter' = IF down THEN 0 ELSE sampling_down_counter + 1
           /\ sampling_up_counter' = IF up THEN 0 ELSE sampling_up_counter + 1
    /\ UNCHANGED <<settings, load, sampling_counter, epoch_count, max_flag>>

GovernDynamic ==
    /\ policy \in Dynamic
    /\ IF sampling_counter + 1 >= SAMPLING_FACTOR
         THEN /\ sampling_counter' = 0
              /\ SetGpufreq(IF policy = "cnngov_dyn_th" THEN cnngov_dyn_th
                                                        ELSE cnngov_dyn_th2_th3)
         ELSE /\ sampling_counter' = sampling_counter + 1
              /\ SetGpufreq(freq)
    /\ UNCHANGED <<settings, load, sampling_down_counter, sampling_up_counter,
                   epoch_count, max_flag>>

\* scale_always does not count; the others' count begins anew at EPOCH_WRAP.
GovernAlternating ==
    /\ policy \in Alternating
    /\ IF epoch_count % Period = 0
         THEN /\ SetGpufreq(AlternatingTarget)
              /\ max_flag' = ~max_flag
         ELSE /\ SetGpufreq(freq)
              /\ UNCHANGED max_flag
    /\ epoch_count' = IF policy = "scale_always" THEN epoch_count
                      ELSE IF epoch_count + 1 >= EPOCH_WRAP
                        THEN epoch_count + 1 - EPOCH_WRAP
                        ELSE epoch_count + 1
    /\ UNCHANGED <<settings, load, sampling_down_counter, sampling_up_counter,
                   sampling_counter>>

\* Mutant: the count goes on from the first epoch of the low phase.
GovernPingpongKeepsCounting ==
    /\ policy = "pingpong"
    /\ IF epoch_count + 1 > 2 * interval
         THEN epoch_count' = 0 /\ SetGpufreq(available_gpufreq[4])
         ELSE /\ epoch_count' = epoch_count + 1
              /\ SetGpufreq(IF epoch_count + 1 >= interval
                            THEN available_gpufreq[10] ELSE freq)
    /\ UNCHANGED <<settings, load, sampling_down_counter, sampling_up_counter,
                   sampling_counter, max_flag>>

GovernPingpong ==
    /\ policy = "pingpong"
    /\ IF epoch_count + 1 >= 2 * interval
         THEN epoch_count' = 0 /\ SetGpufreq(available_gpufreq[4])
         ELSE /\ epoch_count' = epoch_count + 1
              /\ SetGpufreq(IF epoch_count + 1 >= interval
                            THEN available_gpufreq[10] ELSE freq)
    /\ UNCHANGED <<settings, load, sampling_down_counter, sampling_up_counter,
                   sampling_counter, max_flag>>

GovernOndemand8050 ==
    /\ policy = "ondemand8050"
    /\ \E reduced \in ReduceGpufreqBy20 :
         SetGpufreq(CASE gpuutil > 800 -> max_gpufreq
                      [] gpuutil < 500 -> reduced
                      [] OTHER -> freq)
    /\ UNCHANGED <<settings, load, counters>>

\* curr_gpugov->get_target_freq() in the sampling loop; do_nothing does nothing.
GetTargetFreq ==
    \/ GovernAtOnce \/ GovernSampled \/ GovernDynamic
    \/ GovernAlternating \/ GovernPingpong \/ GovernOndemand8050

Next == GetTargetFreq \/ LoadChanges

Spec == Init /\ [][Next]_vars

\* The sampling loop calls the policy again and again while the program runs.
FairSpec == Spec /\ WF_vars(GetTargetFreq)

-----------------------------------------------------------------------------
(* Properties. *)

\* Every variable has its type; no counter runs away.
TypeOK ==
    /\ policy \in PolicyNames
    /\ limits \in Limits
    /\ set_freq \in Int
    /\ load \in Loads
    /\ {sampling_down_counter, sampling_up_counter, sampling_counter} \subseteq 0 .. 6
    /\ epoch_count \in 0 .. AtLeast(EPOCH_WRAP, 2 * interval) - 1
    /\ max_flag \in BOOLEAN
    /\ direction \in {"none", "up", "down"}
    /\ held \in -1 .. 100

\* Whatever the board shows and for how long, the policies but for ondemand8050
\* write nothing but frequencies of the board's table: a scaling helper never
\* answers -1 (governor.c:513, 549), and a threshold array is never read
\* outside its bounds (cnngov_dyn_th.c:116).
FrequencyIsAvailable == policy # "ondemand8050" => set_freq \in Frequencies

\* Under a load that does not change no policy with thresholds turns around: a
\* frequency that it left upwards for the load it does not leave downwards.
\* Left out are the policies that alternate by themselves, and cnngov_dyn_th,
\* whose fixed TH2 lies between the TH3 of two neighbouring levels: for an EMC
\* utilization of 41.5 % it goes from 1032 to 1134 MHz and back forever.
Hysteretic == PolicyNames \ (Counting \cup {"ondemand8050", "cnngov_dyn_th"})

TurnsAround == \/ direction = "up" /\ set_freq' < set_freq
               \/ direction = "down" /\ set_freq' > set_freq

NoOscillation ==
    [][(policy \in Hysteretic /\ UNCHANGED load) => ~TurnsAround]_vars

\* The policies that measure with two frequencies in turn hold each of them for
\* the same number of calls, also where a counter begins anew.
PhasesAreEqual ==
    [][(policy \in Counting /\ held >= 0 /\ set_freq' # set_freq)
         => held + 1 = (IF policy = "pingpong" THEN interval ELSE Period)]_vars

\* 9 % of the maximum span every step of the table: otherwise a policy that
\* scales by 9 % is stuck in front of the gap.
Steppable ==
    {f \in Frequencies : \A l \in Levels \ {0} :
        100 * (available_gpufreq[l] - available_gpufreq[l - 1]) <= 9 * f}

Ceiling ==
    IF policy \in {"feas_test", "feas_test_2stepdown", "cnngov_20191211",
                   "cnngov_dyn_th", "hilo"}
      THEN AtMost(max_gpufreq, available_gpufreq[10])
      ELSE max_gpufreq

Rising == (AtOnce \cup Sampled \cup Dynamic) \ {"policy_0_or_not"}

\* A GPU that stays busy while the memory is not is not left behind: every
\* policy gets it to the maximum and keeps it there, or at the level at which
\* the policy stops by its own decision (for cnngov_dyn_th level 10, where TH3
\* drops below TH2).
BusyReachesCeiling ==
    <>[](/\ policy \in Rising
         /\ limits.max \in Steppable
         /\ gpuutil = 1000 /\ emcutil = 150000)
      => <>[](set_freq >= Ceiling)

\* governor.h:35 calls get_target_freq the "function which decides gpu
\* frequency": what ondemand8050 decides on is a frequency too.
DecidesFrequency == set_freq \in Frequencies

\* emc_conservative.c:24 sets the threshold for scaling down to 50 % of the EMC:
\* above it the policy does not scale up.
EmcDownThreshold ==
    [][(policy = "emc_conservative" /\ emcutil > 500000 /\ UNCHANGED load)
         => set_freq' <= set_freq]_vars
=============================================================================
