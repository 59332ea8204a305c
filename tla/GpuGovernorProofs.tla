------------------------- MODULE GpuGovernorProofs --------------------------
(***************************************************************************)
(* Whatever the board's table of 13 frequencies, its limits and the loads  *)
(* are, every policy but ondemand8050 writes frequencies of the table, the *)
(* policies that alternate do so evenly, those with thresholds never turn  *)
(* around under one load, and those that can climb the table do climb it   *)
(* while the GPU is busy.                                                  *)
(*                                                                         *)
(* No policy keeps a frequency, each decides from the one on the board, so *)
(* that being in the table is preserved once the scaling helpers never     *)
(* answer -1; and what a policy may do next for a load, whatever its       *)
(* counters say, is told by where its last move under that load led.       *)
(***************************************************************************)
EXTENDS GpuGovernor, WellFoundedInduction, TLAPS

-----------------------------------------------------------------------------
(* Extremes of sets of levels. *)

\* A set of naturals has a lowest member: the order is well-founded.
LEMMA LowestExists ==
  ASSUME NEW S, S \subseteq Nat, S # {}
  PROVE  \E x \in S : \A y \in S : x <= y
<1> DEFINE R == OpToRel(<, Nat)
<1>1. IsWellFoundedOn(R, Nat)
  BY NatLessThanWellFounded
<1>2. \A x, y \in Nat : <<y, x>> \in R <=> y < x
  BY DEF OpToRel
<1> HIDE DEF R
<1>3. PICK x \in S : \A y \in S : <<y, x>> \notin R
  BY <1>1, WFMin
<1>4. ASSUME NEW y \in S PROVE x <= y
  <2>1. <<y, x>> \notin R  BY <1>3
  <2>2. ~(y < x)  BY <1>2, <2>1
  <2> QED  BY <2>2
<1> QED
  BY <1>4

\* The two operators of FiniteSetsExt answer with the extreme members of the set.
LEMMA MinOfLevels ==
  ASSUME NEW S, S \subseteq Levels, S # {}
  PROVE  Min(S) \in S /\ \A y \in S : Min(S) <= y
<1>1. S \subseteq Nat
  BY DEF Levels
<1>2. \E x \in S : \A y \in S : x <= y
  BY <1>1, LowestExists
<1> QED
  BY <1>2, Zenon DEF Min

LEMMA MaxOfLevels ==
  ASSUME NEW S, S \subseteq Levels, S # {}
  PROVE  Max(S) \in S /\ \A y \in S : y <= Max(S)
<1> DEFINE T == {12 - x : x \in S}
<1>1. T \subseteq Nat /\ T # {}
  <2>1. \A x \in S : 12 - x \in Nat
    BY DEF Levels
  <2> QED
    BY <2>1
<1>2. PICK t \in T : \A u \in T : t <= u
  BY <1>1, LowestExists
<1>3. PICK x \in S : t = 12 - x
  OBVIOUS
<1>4. \A y \in S : 12 - x <= 12 - y
  BY <1>2, <1>3
<1>5. \A y \in S : x >= y
  BY <1>4 DEF Levels
<1> QED
  BY <1>5, Zenon DEF Max

-----------------------------------------------------------------------------
(* The scaling helpers. *)

\* Frequencies are positive numbers, and each has its level.
LEMMA FrequencyType ==
  /\ Frequencies \subseteq Nat \ {0}
  /\ \A l \in Levels : available_gpufreq[l] \in Frequencies
BY GovernorAssumption DEF Frequencies

LEMMA LimitsType ==
  ASSUME limits \in Limits
  PROVE  min_gpufreq \in Frequencies /\ max_gpufreq \in Frequencies
BY GovernorAssumption DEF min_gpufreq, max_gpufreq

\* Scaled down, a frequency of the table is one of the table: it qualifies itself.
LEMMA ScaleDownAvailable ==
  ASSUME limits \in Limits, NEW f \in Frequencies, NEW n \in Nat
  PROVE  ScaleDownByNOfMax(f, n) \in Frequencies
<1> DEFINE Enough == {l \in Levels :
                        100 * available_gpufreq[l] >= 100 * f - n * max_gpufreq}
<1>1. PICK l \in Levels : f = available_gpufreq[l]
  BY DEF Frequencies
<1>2. 100 * f >= 100 * f - n * max_gpufreq
  <2>1. f \in Nat /\ max_gpufreq \in Nat  BY FrequencyType, LimitsType
  <2>2. n * max_gpufreq \in Nat  BY <2>1
  <2> HIDE DEF max_gpufreq
  <2> QED  BY <2>1, <2>2
<1>3. Enough # {}
  BY <1>1, <1>2
<1>4. Min(Enough) \in Levels
  BY <1>3, MinOfLevels
<1> QED
  BY <1>3, <1>4, FrequencyType DEF ScaleDownByNOfMax

\* Likewise upwards.
LEMMA ScaleUpAvailable ==
  ASSUME limits \in Limits, NEW f \in Frequencies, NEW n \in Nat
  PROVE  ScaleUpByNOfMax(f, n) \in Frequencies
<1> DEFINE Enough == {l \in Levels :
                        100 * available_gpufreq[l] <= 100 * f + n * max_gpufreq}
<1>1. PICK l \in Levels : f = available_gpufreq[l]
  BY DEF Frequencies
<1>2. 100 * f <= 100 * f + n * max_gpufreq
  <2>1. f \in Nat /\ max_gpufreq \in Nat  BY FrequencyType, LimitsType
  <2>2. n * max_gpufreq \in Nat  BY <2>1
  <2> HIDE DEF max_gpufreq
  <2> QED  BY <2>1, <2>2
<1>3. Enough # {}
  BY <1>1, <1>2
<1>4. Max(Enough) \in Levels
  BY <1>3, MaxOfLevels
<1> QED
  BY <1>3, <1>4, FrequencyType DEF ScaleUpByNOfMax

-----------------------------------------------------------------------------
(* The policies' decisions. *)

LEMMA CapsAvailable ==
  ASSUME NEW f \in Frequencies, NEW bound \in Frequencies
  PROVE  AtLeast(f, bound) \in Frequencies /\ AtMost(f, bound) \in Frequencies
BY DEF AtLeast, AtMost

\* What the policies choose from.
LEMMA ChoicesAvailable ==
  ASSUME limits \in Limits, set_freq \in Frequencies
  PROVE  /\ freq \in Frequencies /\ max_gpufreq \in Frequencies
         /\ Down(9) \in Frequencies /\ Down(18) \in Frequencies
         /\ Up(9) \in Frequencies
         /\ \A l \in Levels : available_gpufreq[l] \in Frequencies
BY LimitsType, FrequencyType, ScaleDownAvailable, ScaleUpAvailable DEF Down, Up, freq

LEMMA AtOnceAvailable ==
  ASSUME limits \in Limits, set_freq \in Frequencies, policy \in AtOnce
  PROVE  AtOnceTarget \in Frequencies
<1>0. /\ freq \in Frequencies /\ max_gpufreq \in Frequencies
      /\ Down(9) \in Frequencies /\ Up(9) \in Frequencies
      /\ \A l \in {0, 2, 4, 10, 12} : available_gpufreq[l] \in Frequencies
  BY ChoicesAvailable DEF Levels
<1>1. cnngov_a \in Frequencies  BY <1>0, SMT DEF cnngov_a
<1>2. cnngov_b \in Frequencies  BY <1>0, SMT DEF cnngov_b
<1>3. \A th : CnngovC(th) \in Frequencies  BY <1>0, SMT DEF CnngovC
<1>4. cnngov_d \in Frequencies  BY <1>0, SMT DEF cnngov_d
<1>5. cnngov_e \in Frequencies
  <2>1. AtLeast(Down(9), available_gpufreq[4]) \in Frequencies
    BY <1>0, CapsAvailable
  <2> QED  BY <1>0, <2>1, SMT DEF cnngov_e
<1>6. cnngov_20190919 \in Frequencies  BY <1>0, SMT DEF cnngov_20190919
<1>7. cnngov_20190920 \in Frequencies  BY <1>0, SMT DEF cnngov_20190920
<1>8. maxmin_cap_b \in Frequencies
  <2>1. \A l \in {10, 12} : AtMost(Up(9), available_gpufreq[l]) \in Frequencies
    BY <1>0, CapsAvailable
  <2>2. \A l \in {0, 2} : AtLeast(Down(9), available_gpufreq[l]) \in Frequencies
    BY <1>0, CapsAvailable
  <2> QED  BY <1>0, <2>1, <2>2, SMT DEF maxmin_cap_b
<1>9. hilo \in Frequencies  BY <1>0, SMT DEF hilo
<1>10. policy_0_or_not \in Frequencies  BY <1>0, SMT DEF policy_0_or_not
<1>11. emc_conservative \in Frequencies  BY <1>0, SMT DEF emc_conservative
<1> QED
  BY <1>1, <1>2, <1>3, <1>4, <1>5, <1>6, <1>7, <1>8, <1>9, <1>10, <1>11, SMT
     DEF AtOnce, AtOnceTarget, cnngov_c, cnngov_c_30, cnngov_c_40

LEMMA SampledAvailable ==
  ASSUME limits \in Limits, set_freq \in Frequencies, policy \in Sampled,
         NEW down, NEW up
  PROVE  SampledTarget(down, up) \in Frequencies
<1>0. /\ freq \in Frequencies
      /\ Down(9) \in Frequencies /\ Down(18) \in Frequencies /\ Up(9) \in Frequencies
      /\ \A l \in {6, 8, 10} : available_gpufreq[l] \in Frequencies
  BY ChoicesAvailable DEF Levels
<1>1. \A th1, th2, th3, th4 : \A n \in {9, 18} :
         ByThresholds(th1, th2, th3, th4, n, down, up) \in Frequencies
  BY <1>0, SMT DEF ByThresholds
<1>2. slow_scale(down, up) \in Frequencies
  BY <1>1, SMT DEF slow_scale
<1>3. \A n \in {9, 18} : FeasTest(n, down, up) \in Frequencies
  BY <1>0, <1>1, CapsAvailable, SMT DEF FeasTest
<1>4. cnngov_20191211(down, up) \in Frequencies
  <2> DEFINE target == CASE gpuutil >= 996 /\ up -> available_gpufreq[10]
                         [] gpuutil < 996 /\ down -> Down(9)
                         [] OTHER -> freq
  <2>1. target \in Frequencies
    BY <1>0, SMT
  <2> HIDE DEF target
  <2>2. AtLeast(AtMost(target, available_gpufreq[10]), available_gpufreq[6])
          \in Frequencies
    BY <1>0, <2>1, CapsAvailable
  <2> QED
    BY <2>2, SMT DEF cnngov_20191211, target
<1> QED
  BY <1>2, <1>3, <1>4, SMT
     DEF Sampled, SampledTarget, feas_test, feas_test_2stepdown

LEMMA DynamicAvailable ==
  ASSUME limits \in Limits, set_freq \in Frequencies
  PROVE  cnngov_dyn_th \in Frequencies /\ cnngov_dyn_th2_th3 \in Frequencies
<1>0. freq \in Frequencies /\ Down(9) \in Frequencies /\ Up(9) \in Frequencies
  BY ChoicesAvailable
<1>1. cnngov_dyn_th \in Frequencies  BY <1>0, SMT DEF cnngov_dyn_th
<1>2. cnngov_dyn_th2_th3 \in Frequencies  BY <1>0, SMT DEF cnngov_dyn_th2_th3
<1> QED
  BY <1>1, <1>2

\* What ondemand8050 writes is a number at least.
LEMMA ReducedIsNumber ==
  ASSUME NEW r \in ReduceGpufreqBy20
  PROVE  r \in Nat
<1> DEFINE level == GpufreqHzToLevel(freq)
<1>1. level \in Levels \cup {-1}
  BY DEF GpufreqHzToLevel, Frequencies
<1>2. Garbage \subseteq Nat
  BY GovernorAssumption
<1>3. ASSUME level \in Levels PROVE ScaleDownTable(level) \subseteq Nat
  <2> HIDE DEF level
  <2> DEFINE Lower == {l \in 0 .. level - 1 :
                  10 * available_gpufreq[l] < 8 * available_gpufreq[level]}
  <2>1. Lower \subseteq Levels /\ level \in Nat
    BY <1>3 DEF Levels
  <2>2. Lower # {} => Max(Lower) \in Nat
    BY <2>1, MaxOfLevels DEF Levels
  <2> QED
    BY <1>2, <2>1, <2>2 DEF ScaleDownTable
<1>4. CASE level = -1
  BY <1>2, <1>4 DEF ReduceGpufreqBy20
<1>5. CASE level \in Levels
  <2>1. level # -1
    BY <1>5 DEF Levels
  <2> QED
    BY <1>3, <1>5, <2>1 DEF ReduceGpufreqBy20
<1> QED
  BY <1>1, <1>4, <1>5

-----------------------------------------------------------------------------
(* The invariant: the type, and that the board holds a frequency of its table. *)
(* Without the latter a policy's next step could be anything, as the helpers   *)
(* answer only for frequencies that they can scale.                            *)

IInv == TypeOK /\ FrequencyIsAvailable

\* The history of a written frequency has its type whatever was written.
LEMMA HistoryTyped ==
  ASSUME TypeOK, NEW f \in Int, SetGpufreq(f)
  PROVE  /\ set_freq' \in Int /\ set_freq' = f
         /\ direction' \in {"none", "up", "down"}
         /\ held' \in -1 .. 100
<1>1. /\ set_freq' = f
      /\ direction' = IF f = set_freq THEN direction
                      ELSE IF f > set_freq THEN "up" ELSE "down"
      /\ held' = IF policy \notin Counting THEN held
                 ELSE IF f # set_freq THEN 0
                 ELSE IF held \in 0 .. 99 THEN held + 1 ELSE held
  BY DEF SetGpufreq
<1>2. direction \in {"none", "up", "down"} /\ held \in -1 .. 100
  BY DEF TypeOK
<1> QED
  BY <1>1, <1>2

LEMMA InitInv == ASSUME Init PROVE IInv
<1>1. set_freq \in Frequencies
  <2>1. min_gpufreq \in Frequencies /\ max_gpufreq \in Frequencies
        /\ available_gpufreq[4] \in Frequencies
    BY LimitsType, FrequencyType DEF Init, Levels
  <2> QED
    BY <2>1, SMT DEF Init, InitialFreq, min_gpufreq, max_gpufreq
<1>2. TypeOK
  <2>1. EPOCH_WRAP \in Nat \ {0}
    BY GovernorAssumption
  <2>2. 0 \in 0 .. AtLeast(EPOCH_WRAP, 2 * interval) - 1
    BY <2>1 DEF AtLeast, interval
  <2>3. set_freq \in Int
    BY <1>1, FrequencyType
  <2>4. max_flag \in BOOLEAN
    BY Zenon DEF Init
  <2> QED
    BY <2>2, <2>3, <2>4, PoliciesAssumption DEF Init, TypeOK
<1> QED
  BY <1>1, <1>2 DEF IInv, FrequencyIsAvailable

\* What is left to show of a policy's step: its frequency and its counters.
LEMMA StepInv ==
  ASSUME IInv, NEW f \in Int, SetGpufreq(f), UNCHANGED <<settings, load>>,
         policy # "ondemand8050" => f \in Frequencies,
         {sampling_down_counter', sampling_up_counter', sampling_counter'} \subseteq 0 .. 6,
         epoch_count' \in 0 .. AtLeast(EPOCH_WRAP, 2 * interval) - 1,
         max_flag' \in BOOLEAN
  PROVE  IInv'
<1>1. /\ set_freq' \in Int /\ set_freq' = f
      /\ direction' \in {"none", "up", "down"} /\ held' \in -1 .. 100
  BY HistoryTyped DEF IInv
<1>2. policy' = policy /\ limits' = limits /\ load' = load
  BY DEF settings
<1>3. policy \in PolicyNames /\ limits \in Limits /\ load \in Loads
  BY DEF IInv, TypeOK
<1>4. FrequencyIsAvailable'
  BY <1>1, <1>2 DEF FrequencyIsAvailable, Frequencies
<1>5. (policy \in PolicyNames /\ limits \in Limits /\ load \in Loads)'
  BY <1>2, <1>3
<1>6. TypeOK'
  BY <1>1, <1>5, Zenon DEF TypeOK, AtLeast, interval
<1> QED
  BY <1>4, <1>6 DEF IInv

\* No policy but ondemand8050 is called with a frequency outside the table.
LEMMA OnTable ==
  ASSUME IInv, policy # "ondemand8050"
  PROVE  set_freq \in Frequencies /\ limits \in Limits
BY DEF IInv, TypeOK, FrequencyIsAvailable

LEMMA NextInv == IInv /\ [Next]_vars => IInv'
<1> SUFFICES ASSUME IInv, [Next]_vars PROVE IInv'
  OBVIOUS
<1>0. /\ {sampling_down_counter, sampling_up_counter, sampling_counter} \subseteq 0 .. 6
      /\ epoch_count \in 0 .. AtLeast(EPOCH_WRAP, 2 * interval) - 1
      /\ max_flag \in BOOLEAN
  BY Zenon DEF IInv, TypeOK
<1>01. Frequencies \subseteq Int
  BY FrequencyType
<1>1. CASE GovernAtOnce
  <2>1. policy # "ondemand8050" /\ policy \in AtOnce
    BY <1>1 DEF GovernAtOnce, AtOnce
  <2>2. AtOnceTarget \in Frequencies
    BY <2>1, OnTable, AtOnceAvailable
  <2>3. /\ SetGpufreq(AtOnceTarget) /\ UNCHANGED <<settings, load>>
        /\ UNCHANGED counters
    BY <1>1 DEF GovernAtOnce
  <2>4. /\ {sampling_down_counter', sampling_up_counter', sampling_counter'} \subseteq 0 .. 6
        /\ epoch_count' \in 0 .. AtLeast(EPOCH_WRAP, 2 * interval) - 1
    BY <2>3, <1>0 DEF counters
  <2>5. max_flag' \in BOOLEAN
    BY <2>3, <1>0, Zenon DEF counters
  <2> QED
    BY <1>01, <2>2, <2>3, <2>4, <2>5, StepInv
<1>2. CASE GovernSampled
  <2> DEFINE down == sampling_down_counter + 1 >= SamplingFactor
             up == sampling_up_counter + 1 >= SamplingFactor
  <2>1. policy # "ondemand8050" /\ policy \in Sampled
    BY <1>2 DEF GovernSampled, Sampled
  <2>2. /\ SetGpufreq(SampledTarget(down, up)) /\ UNCHANGED <<settings, load>>
        /\ sampling_down_counter' = IF down THEN 0 ELSE sampling_down_counter + 1
        /\ sampling_up_counter' = IF up THEN 0 ELSE sampling_up_counter + 1
        /\ UNCHANGED <<sampling_counter, epoch_count>>
    BY <1>2 DEF GovernSampled
  <2>3. SampledTarget(down, up) \in Frequencies
    BY <2>1, OnTable, SampledAvailable
  <2>4. SamplingFactor \in 3 .. 7
    BY <2>1, SMT DEF SamplingFactor
  <2>5. sampling_down_counter' \in 0 .. 6 /\ sampling_up_counter' \in 0 .. 6
    <3>1. \A c \in 0 .. 6 : (IF c + 1 >= SamplingFactor THEN 0 ELSE c + 1) \in 0 .. 6
      BY <2>4
    <3> QED  BY <1>0, <2>2, <3>1
  <2>6. max_flag' \in BOOLEAN
    BY <1>2, <1>0, Zenon DEF GovernSampled
  <2> HIDE DEF down, up
  <2> QED
    BY <1>0, <1>01, <2>2, <2>3, <2>5, <2>6, StepInv
<1>3. CASE GovernDynamic
  <2>1. policy # "ondemand8050"
    BY <1>3 DEF GovernDynamic, Dynamic
  <2>2. PICK f \in Frequencies : SetGpufreq(f)
    <3>1. cnngov_dyn_th \in Frequencies /\ cnngov_dyn_th2_th3 \in Frequencies
          /\ freq \in Frequencies
      BY <2>1, OnTable, DynamicAvailable DEF freq
    <3> QED  BY <1>3, <3>1 DEF GovernDynamic
  <2>3. /\ UNCHANGED <<settings, load, sampling_down_counter, sampling_up_counter>>
        /\ epoch_count' = epoch_count
        /\ sampling_counter' = 0 \/ (/\ sampling_counter' = sampling_counter + 1
                                     /\ ~(sampling_counter + 1 >= SAMPLING_FACTOR))
    BY <1>3 DEF GovernDynamic
  <2>4. sampling_counter' \in 0 .. 6
    BY <1>0, <2>3 DEF SAMPLING_FACTOR
  <2>5. max_flag' \in BOOLEAN
    BY <1>3, <1>0, Zenon DEF GovernDynamic
  <2> QED
    BY <1>0, <1>01, <2>2, <2>3, <2>4, <2>5, StepInv
<1>4. CASE GovernAlternating
  <2>1. policy # "ondemand8050"
    BY <1>4 DEF GovernAlternating, Alternating
  <2>2. PICK f \in Frequencies : SetGpufreq(f)
    <3>1. AlternatingTarget \in Frequencies /\ freq \in Frequencies
      BY <2>1, OnTable, LimitsType, ScaleDownAvailable DEF AlternatingTarget, freq
    <3> QED  BY <1>4, <3>1 DEF GovernAlternating
  <2>3. /\ UNCHANGED <<settings, load, sampling_down_counter, sampling_up_counter>>
        /\ UNCHANGED sampling_counter
    BY <1>4 DEF GovernAlternating
  <2>4. epoch_count' \in 0 .. AtLeast(EPOCH_WRAP, 2 * interval) - 1
    <3>1. epoch_count' = epoch_count
          \/ (/\ epoch_count + 1 >= EPOCH_WRAP
              /\ epoch_count' = epoch_count + 1 - EPOCH_WRAP)
          \/ (/\ ~(epoch_count + 1 >= EPOCH_WRAP)
              /\ epoch_count' = epoch_count + 1)
      BY <1>4, SMT DEF GovernAlternating
    <3>2. EPOCH_WRAP \in Nat \ {0}
      BY GovernorAssumption
    <3> QED  BY <1>0, <3>1, <3>2 DEF AtLeast, interval
  <2>5. max_flag' \in BOOLEAN
    <3>1. max_flag' = ~max_flag \/ max_flag' = max_flag
      BY <1>4, Zenon DEF GovernAlternating
    <3> QED  BY <1>0, <3>1, Zenon
  <2> QED
    BY <1>0, <1>01, <2>2, <2>3, <2>4, <2>5, StepInv
<1>5. CASE GovernPingpong
  <2>1. policy # "ondemand8050"
    BY <1>5 DEF GovernPingpong
  <2>2. PICK f \in Frequencies : SetGpufreq(f)
    <3>1. /\ available_gpufreq[4] \in Frequencies /\ available_gpufreq[10] \in Frequencies
          /\ freq \in Frequencies
      BY <2>1, OnTable, FrequencyType DEF freq, Levels
    <3> QED  BY <1>5, <3>1 DEF GovernPingpong
  <2>3. UNCHANGED <<settings, load, sampling_down_counter, sampling_up_counter,
                    sampling_counter>>
    BY <1>5 DEF GovernPingpong
  <2>4. epoch_count' \in 0 .. AtLeast(EPOCH_WRAP, 2 * interval) - 1
    <3>1. epoch_count' = 0 \/ (/\ ~(epoch_count + 1 >= 2 * interval)
                               /\ epoch_count' = epoch_count + 1)
      BY <1>5 DEF GovernPingpong
    <3>2. EPOCH_WRAP \in Nat \ {0}
      BY GovernorAssumption
    <3> QED  BY <1>0, <3>1, <3>2 DEF AtLeast, interval
  <2>5. max_flag' \in BOOLEAN
    BY <1>5, <1>0, Zenon DEF GovernPingpong
  <2> QED
    BY <1>0, <1>01, <2>2, <2>3, <2>4, <2>5, StepInv
<1>6. CASE GovernOndemand8050
  <2>1. policy = "ondemand8050" /\ UNCHANGED <<settings, load>> /\ UNCHANGED counters
    BY <1>6 DEF GovernOndemand8050
  <2>2. PICK f \in Int : SetGpufreq(f)
    <3>1. max_gpufreq \in Int /\ freq \in Int
      BY <1>01, LimitsType DEF IInv, TypeOK, freq
    <3>2. PICK reduced \in ReduceGpufreqBy20 :
            SetGpufreq(CASE gpuutil > 800 -> max_gpufreq
                         [] gpuutil < 500 -> reduced
                         [] OTHER -> freq)
      BY <1>6 DEF GovernOndemand8050
    <3>3. reduced \in Int
      BY ReducedIsNumber
    <3>4. (CASE gpuutil > 800 -> max_gpufreq
             [] gpuutil < 500 -> reduced
             [] OTHER -> freq) \in Int
      BY <3>1, <3>3, SMT
    <3> QED  BY <3>2, <3>4
  <2>3. /\ {sampling_down_counter', sampling_up_counter', sampling_counter'} \subseteq 0 .. 6
        /\ epoch_count' \in 0 .. AtLeast(EPOCH_WRAP, 2 * interval) - 1
    BY <2>1, <1>0 DEF counters
  <2>4. max_flag' \in BOOLEAN
    BY <2>1, <1>0, Zenon DEF counters
  <2> QED
    BY <2>1, <2>2, <2>3, <2>4, StepInv
<1>7. CASE LoadChanges
  <2>1. /\ load' \in Loads /\ direction' \in {"none", "up", "down"}
        /\ UNCHANGED <<settings, set_freq, counters, held>>
    BY <1>7 DEF LoadChanges
  <2>2. TypeOK'
    BY <2>1, Zenon DEF IInv, TypeOK, settings, counters, AtLeast, interval
  <2>3. FrequencyIsAvailable'
    BY <2>1 DEF IInv, FrequencyIsAvailable, settings, Frequencies
  <2> QED
    BY <2>2, <2>3 DEF IInv
<1>8. CASE UNCHANGED vars
  <2>1. TypeOK'
    BY <1>8, Zenon DEF IInv, TypeOK, vars, settings, counters, AtLeast, interval
  <2>2. FrequencyIsAvailable'
    BY <1>8 DEF IInv, FrequencyIsAvailable, vars, settings, Frequencies
  <2> QED
    BY <2>1, <2>2 DEF IInv
<1> QED
  BY <1>1, <1>2, <1>3, <1>4, <1>5, <1>6, <1>7, <1>8 DEF Next, GetTargetFreq

LEMMA Invariance == Spec => []IInv
<1>1. Init => IInv
  BY InitInv
<1> QED
  BY <1>1, NextInv, PTL DEF Spec

\* The state of every policy is well typed for every table, every pair of
\* limits and every load; no counter exceeds its sampling factor or period.
THEOREM TypeCorrect == Spec => []TypeOK
<1>1. IInv => TypeOK
  BY DEF IInv
<1> QED
  BY <1>1, Invariance, PTL

\* For every table of 13 frequencies no policy but ondemand8050 ever writes
\* anything to userspace/set_freq that the table does not hold.
THEOREM OnlyAvailable == Spec => []FrequencyIsAvailable
<1>1. IInv => FrequencyIsAvailable
  BY DEF IInv
<1> QED
  BY <1>1, Invariance, PTL

-----------------------------------------------------------------------------
(* The policies that count calls hold each frequency equally long: the count  *)
(* of the calls since the last move and the epoch count keep the same phase.  *)

\* The two frequencies that an Alternating policy writes in turn.
LowPhase == ScaleDownByNOfMax(max_gpufreq, 9)

AlternatingInPhase ==
  policy \in Alternating /\ held >= 0 =>
    /\ set_freq = IF max_flag THEN LowPhase ELSE max_gpufreq
    /\ LowPhase # max_gpufreq =>
         held < Period /\ (held + 1) % Period = epoch_count % Period

PingpongInPhase ==
  policy = "pingpong" =>
    /\ epoch_count < 2 * interval
    /\ set_freq = available_gpufreq[IF epoch_count < interval THEN 4 ELSE 10]
    /\ IF held = -1 THEN epoch_count < interval
                    ELSE held = IF epoch_count < interval
                                  THEN epoch_count ELSE epoch_count - interval

PhaseInv == AlternatingInPhase /\ PingpongInPhase

LEMMA PeriodType ==
  ASSUME policy \in Alternating
  PROVE  Period \in {1, 10, 100}
BY SMT DEF Alternating, Period

\* The count begins anew at a multiple of every period.
LEMMA NextEpoch ==
  ASSUME IInv, GovernAlternating
  PROVE  /\ epoch_count \in Nat /\ epoch_count' \in Nat
         /\ epoch_count' % Period = (epoch_count + 1) % Period
<1>1. policy \in Alternating /\ Period \in {1, 10, 100}
  BY PeriodType DEF GovernAlternating
<1>2. EPOCH_WRAP \in Nat \ {0} /\ EPOCH_WRAP % 100 = 0
  BY GovernorAssumption
<1>3. epoch_count \in Nat /\ epoch_count < AtLeast(EPOCH_WRAP, 2 * interval)
  BY <1>2 DEF IInv, TypeOK, AtLeast, interval
<1>4. AtLeast(EPOCH_WRAP, 2 * interval) = EPOCH_WRAP
  BY <1>2 DEF AtLeast, interval
<1>5. CASE policy = "scale_always"
  <2>1. Period = 1
    BY <1>5, SMT DEF Period
  <2>2. epoch_count' = epoch_count
    BY <1>5, SMT DEF GovernAlternating
  <2> QED BY <1>3, <2>1, <2>2
<1>6. CASE policy # "scale_always"
  <2>1. epoch_count' = IF epoch_count + 1 >= EPOCH_WRAP
                         THEN epoch_count + 1 - EPOCH_WRAP ELSE epoch_count + 1
    BY <1>6, SMT DEF GovernAlternating
  <2>2. Period \in {10, 100}
    BY <1>1, <1>6, SMT DEF Alternating, Period
  <2>3. CASE epoch_count + 1 >= EPOCH_WRAP
    <3>1. epoch_count' = 0 /\ epoch_count + 1 = EPOCH_WRAP
      BY <1>2, <1>3, <1>4, <2>1, <2>3
    <3>2. EPOCH_WRAP % 10 = 0
      BY <1>2
    <3> QED BY <1>2, <1>3, <2>2, <3>1, <3>2
  <2>4. CASE ~(epoch_count + 1 >= EPOCH_WRAP)
    BY <1>3, <2>1, <2>4
  <2> QED BY <2>3, <2>4
<1> QED BY <1>5, <1>6

LEMMA PhaseInit == Init => PhaseInv
<1> SUFFICES ASSUME Init PROVE PhaseInv
  OBVIOUS
<1>1. held = -1 /\ epoch_count = 0
  BY DEF Init
<1>2. policy = "pingpong" => set_freq = available_gpufreq[4]
  BY SMT DEF Init, InitialFreq
<1> QED BY <1>1, <1>2 DEF PhaseInv, AlternatingInPhase, PingpongInPhase, interval

\* How a move and the calls since then are recorded.
LEMMA HeldNext ==
  ASSUME IInv, policy \in Counting, NEW f, SetGpufreq(f)
  PROVE  /\ set_freq' = f /\ held \in -1 .. 100
         /\ f # set_freq => held' = 0
         /\ f = set_freq /\ held \in 0 .. 99 => held' = held + 1
         /\ f = set_freq /\ ~(held \in 0 .. 99) => held' = held
BY DEF SetGpufreq, IInv, TypeOK

PhaseEnds ==
  (policy \in Counting /\ held >= 0 /\ set_freq' # set_freq)
    => held + 1 = (IF policy = "pingpong" THEN interval ELSE Period)

LEMMA AlternatingPhase ==
  ASSUME IInv, PhaseInv, GovernAlternating
  PROVE  PhaseInv' /\ PhaseEnds
<1>1. /\ policy \in Alternating /\ policy \in Counting /\ policy # "pingpong"
      /\ policy' = policy /\ limits' = limits
      /\ Period \in {1, 10, 100}
  BY PeriodType DEF GovernAlternating, Alternating, Counting, settings
<1>2. Period' = Period /\ max_gpufreq' = max_gpufreq /\ LowPhase' = LowPhase
  BY <1>1 DEF Period, max_gpufreq, LowPhase, ScaleDownByNOfMax
<1>3. /\ epoch_count \in Nat /\ epoch_count' \in Nat
      /\ epoch_count' % Period = (epoch_count + 1) % Period
  BY NextEpoch
<1>4. held >= 0 =>
        /\ set_freq = IF max_flag THEN LowPhase ELSE max_gpufreq
        /\ LowPhase # max_gpufreq =>
             held < Period /\ (held + 1) % Period = epoch_count % Period
  BY <1>1 DEF PhaseInv, AlternatingInPhase
<1>5. held \in -1 .. 100
  BY DEF IInv, TypeOK
<1> HIDE DEF LowPhase, max_gpufreq
<1>6. CASE epoch_count % Period # 0
  <2>1. SetGpufreq(freq) /\ max_flag' = max_flag
    BY <1>6 DEF GovernAlternating
  <2>2. /\ set_freq' = set_freq
        /\ held \in 0 .. 99 => held' = held + 1
        /\ ~(held \in 0 .. 99) => held' = held
    BY <1>1, <2>1, HeldNext DEF freq
  <2>3. ASSUME held' >= 0
        PROVE  /\ held >= 0
               /\ set_freq' = IF max_flag THEN LowPhase ELSE max_gpufreq
    BY <1>4, <1>5, <2>2, <2>3
  <2>4. ASSUME held >= 0, LowPhase # max_gpufreq
        PROVE  held' < Period /\ (held' + 1) % Period = epoch_count' % Period
    <3>1. held < Period /\ (held + 1) % Period = epoch_count % Period
      BY <1>4, <2>4
    <3>2. held' = held + 1 /\ held + 1 < Period
      BY <1>1, <1>3, <1>5, <1>6, <2>2, <2>4, <3>1
    <3> QED BY <1>1, <1>3, <1>5, <2>4, <3>1, <3>2
  <2>5. AlternatingInPhase'
    BY <1>2, <2>1, <2>3, <2>4 DEF AlternatingInPhase
  <2> QED BY <1>1, <2>2, <2>5 DEF PhaseInv, PingpongInPhase, PhaseEnds
<1>7. CASE epoch_count % Period = 0
  <2> DEFINE f == IF max_flag THEN max_gpufreq ELSE LowPhase
  <2>1. SetGpufreq(f) /\ max_flag' = ~max_flag
    BY <1>7 DEF GovernAlternating, AlternatingTarget, LowPhase
  <2>2. f = IF max_flag' THEN LowPhase ELSE max_gpufreq
    <3>1. max_flag \in BOOLEAN
      BY Zenon DEF IInv, TypeOK
    <3> QED BY <2>1, <3>1
  <2>3. /\ set_freq' = f
        /\ f # set_freq => held' = 0
        /\ f = set_freq /\ held \in 0 .. 99 => held' = held + 1
        /\ f = set_freq /\ ~(held \in 0 .. 99) => held' = held
    BY <1>1, <2>1, HeldNext
  <2>4. held >= 0 /\ LowPhase # max_gpufreq => f # set_freq /\ held + 1 = Period
    <3>1. held >= 0 /\ LowPhase # max_gpufreq => f # set_freq
      BY <1>4
    <3>2. held >= 0 /\ LowPhase # max_gpufreq => held + 1 = Period
      BY <1>1, <1>4, <1>5, <1>7
    <3> QED BY <3>1, <3>2
  <2>5. LowPhase = max_gpufreq /\ held >= 0 => f = set_freq
    BY <1>4
  <2> HIDE DEF f
  <2>6. ASSUME held' >= 0, LowPhase # max_gpufreq
        PROVE  held' < Period /\ (held' + 1) % Period = epoch_count' % Period
    <3>1. held' = 0
      BY <1>5, <2>3, <2>4, <2>6
    <3> QED BY <1>1, <1>3, <1>7, <3>1
  <2>7. AlternatingInPhase'
    BY <1>2, <2>2, <2>3, <2>6 DEF AlternatingInPhase
  <2> QED BY <1>1, <2>3, <2>4, <2>5, <2>7 DEF PhaseInv, PingpongInPhase, PhaseEnds
<1> QED BY <1>6, <1>7

LEMMA PingpongPhase ==
  ASSUME IInv, PhaseInv, GovernPingpong
  PROVE  PhaseInv' /\ PhaseEnds
<1>1. /\ policy = "pingpong" /\ policy' = policy
      /\ policy \in Counting /\ policy \notin Alternating
  BY DEF GovernPingpong, Alternating, Counting, settings
<1>2. /\ epoch_count < 30
      /\ set_freq = available_gpufreq[IF epoch_count < 15 THEN 4 ELSE 10]
      /\ IF held = -1 THEN epoch_count < 15
                      ELSE held = IF epoch_count < 15 THEN epoch_count ELSE epoch_count - 15
  BY <1>1 DEF PhaseInv, PingpongInPhase, interval
<1>3. epoch_count \in Nat /\ held \in -1 .. 100
  BY GovernorAssumption DEF IInv, TypeOK, AtLeast, interval
<1>4. /\ available_gpufreq[4] # available_gpufreq[10]
      /\ available_gpufreq[4] \in Nat /\ available_gpufreq[10] \in Nat
  <2>1. \A l \in 5 .. 10 : available_gpufreq[l - 1] < available_gpufreq[l]
    BY GovernorAssumption DEF Levels
  <2>2. \A l \in 4 .. 10 : available_gpufreq[l] \in Nat
    BY GovernorAssumption DEF Levels
  <2>3. /\ available_gpufreq[4] < available_gpufreq[5]
        /\ available_gpufreq[5] < available_gpufreq[6]
        /\ available_gpufreq[6] < available_gpufreq[7]
        /\ available_gpufreq[7] < available_gpufreq[8]
        /\ available_gpufreq[8] < available_gpufreq[9]
        /\ available_gpufreq[9] < available_gpufreq[10]
    BY <2>1
  <2> QED BY <2>2, <2>3
<1>5. /\ epoch_count' = IF epoch_count + 1 >= 30 THEN 0 ELSE epoch_count + 1
      /\ SetGpufreq(IF epoch_count + 1 >= 30 THEN available_gpufreq[4]
                    ELSE IF epoch_count + 1 >= 15 THEN available_gpufreq[10]
                    ELSE set_freq)
  BY DEF GovernPingpong, interval, freq
<1>6. /\ set_freq' = available_gpufreq[IF epoch_count' < 15 THEN 4 ELSE 10]
      /\ epoch_count' \in Nat /\ epoch_count' < 30
      /\ set_freq' # set_freq => held' = 0
      /\ set_freq' = set_freq => held' = IF held \in 0 .. 99 THEN held + 1 ELSE held
  <2>1. /\ set_freq' = IF epoch_count + 1 >= 30 THEN available_gpufreq[4]
                       ELSE IF epoch_count + 1 >= 15 THEN available_gpufreq[10]
                       ELSE set_freq
        /\ set_freq' # set_freq => held' = 0
        /\ set_freq' = set_freq => held' = IF held \in 0 .. 99 THEN held + 1 ELSE held
    BY <1>1, <1>5 DEF SetGpufreq
  <2> QED BY <1>2, <1>3, <1>5, <2>1
<1>7. set_freq' # set_freq <=> epoch_count \in {14, 29}
  BY <1>2, <1>3, <1>4, <1>5, <1>6
<1>8. PingpongInPhase'
  <2>1. IF held' = -1 THEN epoch_count' < 15
          ELSE held' = IF epoch_count' < 15 THEN epoch_count' ELSE epoch_count' - 15
    BY <1>2, <1>3, <1>5, <1>6, <1>7
  <2> QED BY <1>6, <2>1 DEF PingpongInPhase, interval
<1>9. PhaseEnds
  BY <1>1, <1>2, <1>3, <1>7 DEF PhaseEnds, interval
<1> QED BY <1>1, <1>8, <1>9 DEF PhaseInv, AlternatingInPhase

LEMMA PhaseStep ==
  ASSUME IInv, PhaseInv, [Next]_vars
  PROVE  PhaseInv' /\ PhaseEnds
<1>1. CASE GovernAtOnce \/ GovernSampled \/ GovernDynamic \/ GovernOndemand8050
  <2>1. policy \notin Counting /\ policy' = policy
    BY <1>1 DEF GovernAtOnce, GovernSampled, GovernDynamic, GovernOndemand8050,
       AtOnce, Sampled, Dynamic, Counting, Alternating, settings
  <2> QED BY <2>1 DEF PhaseInv, AlternatingInPhase, PingpongInPhase, PhaseEnds, Counting
<1>2. CASE LoadChanges \/ UNCHANGED vars
  <2>1. UNCHANGED <<policy, limits, set_freq, max_flag, epoch_count, held>>
    BY <1>2 DEF LoadChanges, vars, settings, counters
  <2>2. Period' = Period /\ max_gpufreq' = max_gpufreq /\ LowPhase' = LowPhase
    BY <2>1 DEF Period, max_gpufreq, LowPhase, ScaleDownByNOfMax
  <2>3. AlternatingInPhase'
    BY <2>1, <2>2 DEF PhaseInv, AlternatingInPhase
  <2>4. PingpongInPhase'
    BY <2>1 DEF PhaseInv, PingpongInPhase
  <2> QED BY <2>1, <2>3, <2>4 DEF PhaseInv, PhaseEnds
<1> QED BY <1>1, <1>2, AlternatingPhase, PingpongPhase DEF Next, GetTargetFreq

\* The policies that measure with two frequencies in turn hold both equally long
\* (scale_10.c, scale_100.c, pingpong.c), also where their count begins anew.
THEOREM PhasesEqual == Spec => PhasesAreEqual
BY PhaseInit, PhaseStep, Invariance, PTL DEF Spec, PhasesAreEqual, PhaseEnds

-----------------------------------------------------------------------------
(* No policy turns around.  What it did last for a load, and what any of its  *)
(* next calls may do for the same load whatever its counters say, have the    *)
(* same sign.                                                                 *)

\* The table is in order.
LEMMA TableOrder ==
  ASSUME NEW l \in Levels, NEW m \in Levels
  PROVE  /\ l < m <=> available_gpufreq[l] < available_gpufreq[m]
         /\ l = m <=> available_gpufreq[l] = available_gpufreq[m]
<1>1. \A a, b \in Levels : a < b => available_gpufreq[a] < available_gpufreq[b]
  <2> SUFFICES ASSUME NEW a \in Levels,
                      {b \in Levels : a < b /\ ~(available_gpufreq[a] < available_gpufreq[b])} # {}
               PROVE  FALSE
    OBVIOUS
  <2> DEFINE bad == {b \in Levels : a < b /\ ~(available_gpufreq[a] < available_gpufreq[b])}
  <2>1. bad \subseteq Nat
    BY DEF Levels
  <2>2. PICK b \in bad : \A y \in bad : b <= y
    BY <2>1, LowestExists
  <2>3. b \in Levels \ {0} /\ b - 1 \in Levels /\ a <= b - 1
    BY DEF Levels
  <2>4. b - 1 \notin bad
    BY <2>2, <2>3 DEF Levels
  <2>5. available_gpufreq[b - 1] < available_gpufreq[b]
    BY <2>3, GovernorAssumption
  <2>6. a = b - 1 \/ available_gpufreq[a] < available_gpufreq[b - 1]
    <3>1. a = b - 1 \/ a < b - 1
      BY <2>3 DEF Levels
    <3> QED BY <2>3, <2>4, <3>1
  <2>7. /\ available_gpufreq[a] \in Nat /\ available_gpufreq[b] \in Nat
        /\ available_gpufreq[b - 1] \in Nat
    BY <2>3, GovernorAssumption
  <2> QED BY <2>5, <2>6, <2>7
<1>2. available_gpufreq[l] \in Nat /\ available_gpufreq[m] \in Nat
      /\ l \in Nat /\ m \in Nat
  BY GovernorAssumption DEF Levels
<1>3. l < m \/ l = m \/ m < l
  BY <1>2
<1>4. /\ l < m => available_gpufreq[l] < available_gpufreq[m]
      /\ m < l => available_gpufreq[m] < available_gpufreq[l]
  BY <1>1
<1> QED BY <1>2, <1>3, <1>4

LEMMA LevelOf ==
  ASSUME NEW l \in Levels
  PROVE  GpufreqHzToLevel(available_gpufreq[l]) = l
BY TableOrder, FrequencyType DEF GpufreqHzToLevel

\* Scaling down does not scale up, and scaling up does not scale down.
LEMMA ScaleDownBelow ==
  ASSUME limits \in Limits, NEW f \in Frequencies, NEW n \in Nat
  PROVE  ScaleDownByNOfMax(f, n) <= f
<1> DEFINE Enough == {l \in Levels :
                        100 * available_gpufreq[l] >= 100 * f - n * max_gpufreq}
<1>1. PICK l \in Levels : f = available_gpufreq[l]
  BY DEF Frequencies
<1>2. 100 * f >= 100 * f - n * max_gpufreq
  <2>1. f \in Nat /\ max_gpufreq \in Nat  BY FrequencyType, LimitsType
  <2>2. n * max_gpufreq \in Nat  BY <2>1
  <2> HIDE DEF max_gpufreq
  <2> QED  BY <2>1, <2>2
<1>3. l \in Enough /\ Enough \subseteq Levels
  BY <1>1, <1>2
<1>4. Min(Enough) \in Levels /\ Min(Enough) <= l
  BY <1>3, MinOfLevels
<1>5. ScaleDownByNOfMax(f, n) = available_gpufreq[Min(Enough)]
  BY <1>3 DEF ScaleDownByNOfMax
<1> HIDE DEF Enough
<1>6. Min(Enough) < l \/ Min(Enough) = l
  BY <1>4 DEF Levels
<1>7. available_gpufreq[Min(Enough)] \in Nat /\ available_gpufreq[l] \in Nat
  BY <1>4, GovernorAssumption
<1> QED BY <1>1, <1>4, <1>5, <1>6, <1>7, TableOrder

LEMMA ScaleUpAbove ==
  ASSUME limits \in Limits, NEW f \in Frequencies, NEW n \in Nat
  PROVE  ScaleUpByNOfMax(f, n) >= f
<1> DEFINE Enough == {l \in Levels :
                        100 * available_gpufreq[l] <= 100 * f + n * max_gpufreq}
<1>1. PICK l \in Levels : f = available_gpufreq[l]
  BY DEF Frequencies
<1>2. 100 * f <= 100 * f + n * max_gpufreq
  <2>1. f \in Nat /\ max_gpufreq \in Nat  BY FrequencyType, LimitsType
  <2>2. n * max_gpufreq \in Nat  BY <2>1
  <2> HIDE DEF max_gpufreq
  <2> QED  BY <2>1, <2>2
<1>3. l \in Enough /\ Enough \subseteq Levels
  BY <1>1, <1>2
<1>4. Max(Enough) \in Levels /\ l <= Max(Enough)
  BY <1>3, MaxOfLevels
<1>5. ScaleUpByNOfMax(f, n) = available_gpufreq[Max(Enough)]
  BY <1>3 DEF ScaleUpByNOfMax
<1> HIDE DEF Enough
<1>6. l < Max(Enough) \/ Max(Enough) = l
  BY <1>4 DEF Levels
<1>7. available_gpufreq[Max(Enough)] \in Nat /\ available_gpufreq[l] \in Nat
  BY <1>4, GovernorAssumption
<1> QED BY <1>1, <1>4, <1>5, <1>6, <1>7, TableOrder

\* A frequency that a call goes to, and one that a later call goes on to.
Straight(f, now, next) ==
  /\ now > f => next >= now
  /\ now < f => next <= now

\* What the targets of a call and of the one after it depend on.
LEMMA TwoCalls ==
  ASSUME IInv, IInv', UNCHANGED <<settings, load>>, policy # "ondemand8050"
  PROVE  /\ gpuutil' = gpuutil /\ emcutil' = emcutil
         /\ gpuutil \in Nat /\ emcutil \in Nat
         /\ max_gpufreq' = max_gpufreq /\ max_gpufreq \in Nat
         /\ freq = set_freq /\ freq' = set_freq'
         /\ set_freq \in Nat /\ set_freq' \in Nat
         /\ \A n \in {9, 18} :
              /\ Down(n) \in Nat /\ Down(n) <= set_freq
              /\ Down(n)' \in Nat /\ Down(n)' <= set_freq'
         /\ Up(9) \in Nat /\ Up(9) >= set_freq
         /\ Up(9)' \in Nat /\ Up(9)' >= set_freq'
<1>1. policy' = policy /\ limits' = limits /\ load' = load
  BY DEF settings
<1>2. set_freq \in Frequencies /\ set_freq' \in Frequencies /\ limits \in Limits
      /\ load \in Loads
  BY <1>1 DEF IInv, TypeOK, FrequencyIsAvailable, Frequencies
<1>3. gpuutil \in Nat /\ emcutil \in Nat
  BY <1>2, GovernorAssumption DEF gpuutil, emcutil
<1>4. gpuutil' = gpuutil /\ emcutil' = emcutil /\ max_gpufreq' = max_gpufreq
      /\ freq = set_freq /\ freq' = set_freq'
  BY <1>1 DEF gpuutil, emcutil, max_gpufreq, freq
<1>5. /\ \A n : Down(n) = ScaleDownByNOfMax(set_freq, n)
      /\ \A n : Down(n)' = ScaleDownByNOfMax(set_freq', n)
      /\ Up(9) = ScaleUpByNOfMax(set_freq, 9)
      /\ Up(9)' = ScaleUpByNOfMax(set_freq', 9)
  BY <1>4 DEF Down, Up, ScaleDownByNOfMax, ScaleUpByNOfMax
<1>6. \A f \in Frequencies : \A n \in {9, 18} :
        /\ ScaleDownByNOfMax(f, n) \in Nat /\ ScaleDownByNOfMax(f, n) <= f
        /\ ScaleUpByNOfMax(f, n) \in Nat /\ ScaleUpByNOfMax(f, n) >= f
  <2> SUFFICES ASSUME NEW f \in Frequencies, NEW n \in {9, 18}
               PROVE  /\ ScaleDownByNOfMax(f, n) \in Nat /\ ScaleDownByNOfMax(f, n) <= f
                      /\ ScaleUpByNOfMax(f, n) \in Nat /\ ScaleUpByNOfMax(f, n) >= f
    OBVIOUS
  <2>1. n \in Nat
    OBVIOUS
  <2> QED BY <1>2, <2>1, FrequencyType, ScaleDownAvailable, ScaleUpAvailable,
             ScaleDownBelow, ScaleUpAbove
<1>7. set_freq \in Nat /\ set_freq' \in Nat /\ max_gpufreq \in Nat
  BY <1>2, FrequencyType, LimitsType
<1>8. \A n \in {9, 18} :
        /\ Down(n) \in Nat /\ Down(n) <= set_freq
        /\ Down(n)' \in Nat /\ Down(n)' <= set_freq'
  BY <1>2, <1>5, <1>6
<1>9. /\ Up(9) \in Nat /\ Up(9) >= set_freq
      /\ Up(9)' \in Nat /\ Up(9)' >= set_freq'
  BY <1>2, <1>5, <1>6
<1> QED BY <1>3, <1>4, <1>7, <1>8, <1>9

\* A call's target is where the next calls start: from there the branch that led
\* upwards leads upwards, or to where it led, or is bounded by where it led.
LEMMA AtOnceStraight ==
  ASSUME IInv, IInv', UNCHANGED <<settings, load>>, policy \in AtOnce,
         set_freq' = AtOnceTarget
  PROVE  Straight(set_freq, AtOnceTarget, AtOnceTarget')
<1>0. /\ gpuutil' = gpuutil /\ emcutil' = emcutil
      /\ gpuutil \in Nat /\ emcutil \in Nat
      /\ max_gpufreq' = max_gpufreq /\ max_gpufreq \in Nat
      /\ freq = set_freq /\ freq' = set_freq'
      /\ set_freq \in Nat /\ set_freq' \in Nat
      /\ Down(9) \in Nat /\ Down(9) <= set_freq
      /\ Down(9)' \in Nat /\ Down(9)' <= set_freq'
      /\ Up(9) \in Nat /\ Up(9) >= set_freq
      /\ Up(9)' \in Nat /\ Up(9)' >= set_freq'
  <2>1. policy # "ondemand8050"
    BY DEF AtOnce
  <2> QED BY <2>1, TwoCalls
<1>01. \A l \in {0, 2, 4, 10, 12} : available_gpufreq[l] \in Nat
  BY GovernorAssumption DEF Levels
<1>02. policy' = policy
  BY DEF settings
<1>1. set_freq' = cnngov_a => Straight(set_freq, cnngov_a, cnngov_a')
  BY <1>0, SMT DEF cnngov_a, Straight
<1>2. set_freq' = cnngov_b => Straight(set_freq, cnngov_b, cnngov_b')
  BY <1>0, SMT DEF cnngov_b, Straight
<1>3. \A th \in {200000, 300000, 400000} :
        set_freq' = CnngovC(th) => Straight(set_freq, CnngovC(th), CnngovC(th)')
  BY <1>0, SMT DEF CnngovC, Straight
<1>4. set_freq' = cnngov_d => Straight(set_freq, cnngov_d, cnngov_d')
  BY <1>0, SMT DEF cnngov_d, Straight
<1>5. set_freq' = cnngov_e => Straight(set_freq, cnngov_e, cnngov_e')
  BY <1>0, <1>01, SMT DEF cnngov_e, Straight, AtLeast
<1>6. set_freq' = cnngov_20190919
        => Straight(set_freq, cnngov_20190919, cnngov_20190919')
  BY <1>0, SMT DEF cnngov_20190919, Straight
<1>7. set_freq' = cnngov_20190920
        => Straight(set_freq, cnngov_20190920, cnngov_20190920')
  BY <1>0, SMT DEF cnngov_20190920, Straight
<1>8. set_freq' = maxmin_cap_b => Straight(set_freq, maxmin_cap_b, maxmin_cap_b')
  BY <1>0, <1>01, SMT DEF maxmin_cap_b, Straight, AtLeast, AtMost
<1>9. set_freq' = hilo => Straight(set_freq, hilo, hilo')
  BY <1>0, <1>01, SMT DEF hilo, Straight
<1>10. set_freq' = policy_0_or_not
         => Straight(set_freq, policy_0_or_not, policy_0_or_not')
  BY <1>0, <1>01, SMT DEF policy_0_or_not, Straight
<1>11. set_freq' = emc_conservative
         => Straight(set_freq, emc_conservative, emc_conservative')
  <2>1. Int16(emcutil) \in Int /\ Int16(emcutil)' = Int16(emcutil)
    BY <1>0 DEF Int16
  <2> QED BY <1>0, <2>1, SMT DEF emc_conservative, Straight
<1> QED
  BY <1>02, <1>1, <1>2, <1>3, <1>4, <1>5, <1>6, <1>7, <1>8, <1>9, <1>10, <1>11, SMT
     DEF AtOnce, AtOnceTarget, cnngov_c, cnngov_c_30, cnngov_c_40

LEMMA SampledStraight ==
  ASSUME IInv, IInv', UNCHANGED <<settings, load>>, policy \in Sampled,
         NEW down \in BOOLEAN, NEW up \in BOOLEAN,
         NEW down2 \in BOOLEAN, NEW up2 \in BOOLEAN,
         set_freq' = SampledTarget(down, up)
  PROVE  Straight(set_freq, SampledTarget(down, up), SampledTarget(down2, up2)')
<1>0. /\ gpuutil' = gpuutil /\ emcutil' = emcutil
      /\ gpuutil \in Nat /\ emcutil \in Nat
      /\ freq = set_freq /\ freq' = set_freq'
      /\ set_freq \in Nat /\ set_freq' \in Nat
      /\ \A n \in {9, 18} :
           /\ Down(n) \in Nat /\ Down(n) <= set_freq
           /\ Down(n)' \in Nat /\ Down(n)' <= set_freq'
      /\ Up(9) \in Nat /\ Up(9) >= set_freq
      /\ Up(9)' \in Nat /\ Up(9)' >= set_freq'
  <2>1. policy # "ondemand8050"
    BY DEF Sampled
  <2> QED BY <2>1, TwoCalls
<1>01. /\ available_gpufreq[6] \in Nat /\ available_gpufreq[8] \in Nat
       /\ available_gpufreq[10] \in Nat
       /\ available_gpufreq[6] < available_gpufreq[10]
       /\ available_gpufreq[8] < available_gpufreq[10]
  BY GovernorAssumption, TableOrder DEF Levels
<1>02. policy' = policy
  BY DEF settings
<1>1. set_freq' = slow_scale(down, up)
        => Straight(set_freq, slow_scale(down, up), slow_scale(down2, up2)')
  BY <1>0, SMT DEF slow_scale, ByThresholds, Straight
<1>2. \A n \in {9, 18} : set_freq' = FeasTest(n, down, up)
        => Straight(set_freq, FeasTest(n, down, up), FeasTest(n, down2, up2)')
  BY <1>0, <1>01, SMT DEF FeasTest, ByThresholds, Straight, AtLeast, AtMost
<1>3. set_freq' = cnngov_20191211(down, up)
        => Straight(set_freq, cnngov_20191211(down, up), cnngov_20191211(down2, up2)')
  BY <1>0, <1>01, SMT DEF cnngov_20191211, Straight, AtLeast, AtMost
<1> QED
  BY <1>02, <1>1, <1>2, <1>3, SMT
     DEF Sampled, SampledTarget, feas_test, feas_test_2stepdown

\* The thresholds of cnngov_dyn_th2_th3 depend on the level: those of two levels
\* next to each other leave no load that leads up at one and down at the other.
LEMMA Dyn2Thresholds ==
  /\ \A l \in Levels : /\ TH2Dyn2(l) \in Nat /\ TH3Dyn2(l) \in Nat
                       /\ TH2Dyn2(l) < TH3Dyn2(l)
  /\ \A l \in 0 .. 11 : TH2Dyn2(l) <= TH3Dyn2(l + 1)
<1>1. \A l \in Levels :
        /\ TH2Dyn2(l) = IF l <= 6 THEN 500000 ELSE IF l = 7 THEN 474000
             ELSE IF l = 8 THEN 448000 ELSE IF l = 9 THEN 422000
             ELSE IF l = 10 THEN 396000 ELSE IF l = 11 THEN 370000 ELSE 344000
        /\ TH3Dyn2(l) = IF l <= 6 THEN 539000 ELSE IF l = 7 THEN 513000
             ELSE IF l = 8 THEN 487000 ELSE IF l = 9 THEN 461000
             ELSE IF l = 10 THEN 435000 ELSE IF l = 11 THEN 409000 ELSE 383000
  <2> SUFFICES ASSUME NEW l \in Levels
               PROVE  /\ TH2Dyn2(l) = IF l <= 6 THEN 500000 ELSE IF l = 7 THEN 474000
                           ELSE IF l = 8 THEN 448000 ELSE IF l = 9 THEN 422000
                           ELSE IF l = 10 THEN 396000 ELSE IF l = 11 THEN 370000 ELSE 344000
                      /\ TH3Dyn2(l) = IF l <= 6 THEN 539000 ELSE IF l = 7 THEN 513000
                           ELSE IF l = 8 THEN 487000 ELSE IF l = 9 THEN 461000
                           ELSE IF l = 10 THEN 435000 ELSE IF l = 11 THEN 409000 ELSE 383000
    OBVIOUS
  <2>1. l \in {0, 1, 2, 3, 4, 5, 6, 7, 8, 9, 10, 11, 12}
    BY DEF Levels
  <2> QED BY <2>1, SMTT(30) DEF TH2Dyn2, TH3Dyn2
<1>2. \A l \in 0 .. 11 : l \in Levels /\ l + 1 \in Levels /\ l \in Int
  BY DEF Levels
<1>3. \A l \in Levels : l \in Int
  BY DEF Levels
<1> QED BY <1>1, <1>2, <1>3, SMTT(30)

\* Whatever the maximum is set to, 9 % of it lead at most to the next level.
LEMMA OneLevel ==
  ASSUME limits \in Limits, NEW l \in Levels
  PROVE  /\ \E m \in {l, l + 1} \cap Levels :
              ScaleUpByNOfMax(available_gpufreq[l], 9) = available_gpufreq[m]
         /\ \E m \in {l, l - 1} \cap Levels :
              ScaleDownByNOfMax(available_gpufreq[l], 9) = available_gpufreq[m]
<1>1. /\ max_gpufreq \in Nat /\ max_gpufreq <= available_gpufreq[12]
      /\ \A k \in Levels : available_gpufreq[k] \in Nat
  <2>1. PICK k \in Levels : max_gpufreq = available_gpufreq[k]
    BY LimitsType DEF Frequencies
  <2>2. 12 \in Levels /\ (k < 12 \/ k = 12)
    BY DEF Levels
  <2>3. \A j \in Levels : available_gpufreq[j] \in Nat
    BY GovernorAssumption
  <2> QED BY <2>1, <2>2, <2>3, TableOrder
<1> HIDE DEF max_gpufreq
<1>2. \E m \in {l, l + 1} \cap Levels :
        ScaleUpByNOfMax(available_gpufreq[l], 9) = available_gpufreq[m]
  <2> DEFINE Enough == {k \in Levels : 100 * available_gpufreq[k]
                                         <= 100 * available_gpufreq[l] + 9 * max_gpufreq}
             m == Max(Enough)
  <2>1. l \in Enough /\ Enough \subseteq Levels
    BY <1>1
  <2>2. m \in Enough /\ l <= m
    BY <2>1, MaxOfLevels
  <2>3. ScaleUpByNOfMax(available_gpufreq[l], 9) = available_gpufreq[m]
    BY <2>1 DEF ScaleUpByNOfMax
  <2>4. /\ m \in Levels
        /\ 100 * available_gpufreq[m] <= 100 * available_gpufreq[l] + 9 * max_gpufreq
    BY <2>2
  <2> HIDE DEF m
  <2>5. ~(m >= l + 2)
    <3> SUFFICES ASSUME m >= l + 2 PROVE FALSE
      OBVIOUS
    <3>1. l \in 0 .. 10 /\ l + 2 \in Levels /\ (l + 2 < m \/ l + 2 = m)
      BY <2>4 DEF Levels
    <3>2. available_gpufreq[l + 2] <= available_gpufreq[m]
      BY <1>1, <2>4, <3>1, TableOrder
    <3>3. 9 * available_gpufreq[12]
            < 100 * (available_gpufreq[l + 2] - available_gpufreq[l])
      BY <3>1, StepAssumption
    <3>4. /\ available_gpufreq[l + 2] \in Nat /\ available_gpufreq[l] \in Nat
          /\ available_gpufreq[m] \in Nat /\ available_gpufreq[12] \in Nat
      <4>1. 12 \in Levels
        BY DEF Levels
      <4> QED BY <1>1, <2>4, <3>1, <4>1
    <3> QED BY <1>1, <2>4, <3>2, <3>3, <3>4
  <2>50. m \in Int /\ l \in Int
    BY <2>4 DEF Levels
  <2>51. m = l \/ m = l + 1
    BY <2>2, <2>5, <2>50
  <2>6. m \in {l, l + 1} \cap Levels
    BY <2>4, <2>51
  <2> QED BY <2>3, <2>6
<1>3. \E m \in {l, l - 1} \cap Levels :
        ScaleDownByNOfMax(available_gpufreq[l], 9) = available_gpufreq[m]
  <2> DEFINE Enough == {k \in Levels : 100 * available_gpufreq[k]
                                         >= 100 * available_gpufreq[l] - 9 * max_gpufreq}
             m == Min(Enough)
  <2>1. l \in Enough /\ Enough \subseteq Levels
    BY <1>1
  <2>2. m \in Enough /\ m <= l
    BY <2>1, MinOfLevels
  <2>3. ScaleDownByNOfMax(available_gpufreq[l], 9) = available_gpufreq[m]
    BY <2>1 DEF ScaleDownByNOfMax
  <2>4. /\ m \in Levels
        /\ 100 * available_gpufreq[m] >= 100 * available_gpufreq[l] - 9 * max_gpufreq
    BY <2>2
  <2> HIDE DEF m
  <2>5. ~(m <= l - 2)
    <3> SUFFICES ASSUME m <= l - 2 PROVE FALSE
      OBVIOUS
    <3>1. l - 2 \in 0 .. 10 /\ l - 2 \in Levels /\ (m < l - 2 \/ m = l - 2)
          /\ l - 2 + 2 = l
      BY <2>4 DEF Levels
    <3>2. available_gpufreq[m] <= available_gpufreq[l - 2]
      BY <1>1, <2>4, <3>1, TableOrder
    <3>3. 9 * available_gpufreq[12]
            < 100 * (available_gpufreq[l] - available_gpufreq[l - 2])
      BY <3>1, StepAssumption
    <3>4. /\ available_gpufreq[l - 2] \in Nat /\ available_gpufreq[l] \in Nat
          /\ available_gpufreq[m] \in Nat /\ available_gpufreq[12] \in Nat
      <4>1. 12 \in Levels
        BY DEF Levels
      <4> QED BY <1>1, <2>4, <3>1, <4>1
    <3> QED BY <1>1, <2>4, <3>2, <3>3, <3>4
  <2>50. m \in Int /\ l \in Int
    BY <2>4 DEF Levels
  <2>51. m = l \/ m = l - 1
    BY <2>2, <2>5, <2>50
  <2>6. m \in {l, l - 1} \cap Levels
    BY <2>4, <2>51
  <2> QED BY <2>3, <2>6
<1> QED BY <1>2, <1>3

LEMMA DynamicStraight ==
  ASSUME IInv, IInv', UNCHANGED <<settings, load>>, policy = "cnngov_dyn_th2_th3",
         set_freq' = cnngov_dyn_th2_th3
  PROVE  Straight(set_freq, cnngov_dyn_th2_th3, cnngov_dyn_th2_th3')
<1>0. /\ gpuutil' = gpuutil /\ emcutil' = emcutil
      /\ gpuutil \in Nat /\ emcutil \in Nat
      /\ freq = set_freq /\ freq' = set_freq'
      /\ set_freq \in Nat /\ set_freq' \in Nat
      /\ Down(9) \in Nat /\ Down(9) <= set_freq
      /\ Down(9)' \in Nat /\ Down(9)' <= set_freq'
      /\ Up(9) \in Nat /\ Up(9) >= set_freq
      /\ Up(9)' \in Nat /\ Up(9)' >= set_freq'
  BY TwoCalls
<1>1. set_freq \in Frequencies /\ limits \in Limits
  BY OnTable
<1>2. PICK l \in Levels : set_freq = available_gpufreq[l]
  BY <1>1 DEF Frequencies
<1>3. GpufreqHzToLevel(freq) = l
  BY <1>0, <1>2, LevelOf
<1>4. PICK u \in {l, l + 1} \cap Levels : Up(9) = available_gpufreq[u]
  BY <1>0, <1>1, <1>2, OneLevel DEF Up
<1>5. PICK d \in {l, l - 1} \cap Levels : Down(9) = available_gpufreq[d]
  BY <1>0, <1>1, <1>2, OneLevel DEF Down
<1>6. cnngov_dyn_th2_th3 =
        CASE gpuutil > 962 /\ emcutil > TH3Dyn2(l) -> Down(9)
          [] gpuutil > 962 /\ emcutil < TH2Dyn2(l) -> Up(9)
          [] gpuutil <= 962 /\ emcutil > 800000 -> Down(9)
          [] OTHER -> freq
  BY <1>3 DEF cnngov_dyn_th2_th3
<1>7. /\ TH2Dyn2(l) \in Nat /\ TH3Dyn2(l) \in Nat /\ TH2Dyn2(l) < TH3Dyn2(l)
  BY Dyn2Thresholds
<1>8. CASE set_freq' = set_freq
  BY <1>0, <1>8, SMT DEF Straight
<1>9. CASE set_freq' > set_freq
  <2>1. gpuutil > 962 /\ emcutil < TH2Dyn2(l) /\ set_freq' = Up(9)
    BY <1>0, <1>6, <1>7, <1>9, SMT
  <2>2. u = l + 1 /\ l \in 0 .. 11 /\ l + 1 \in Levels
    BY <1>0, <1>2, <1>4, <1>9, <2>1 DEF Levels
  <2>3. GpufreqHzToLevel(freq') = l + 1
    BY <1>0, <1>4, <2>1, <2>2, LevelOf
  <2>4. emcutil < TH3Dyn2(l + 1) /\ TH3Dyn2(l + 1) \in Nat /\ TH2Dyn2(l + 1) \in Nat
    BY <1>0, <1>7, <2>1, <2>2, Dyn2Thresholds
  <2>5. cnngov_dyn_th2_th3' =
          CASE gpuutil > 962 /\ emcutil > TH3Dyn2(l + 1) -> Down(9)'
            [] gpuutil > 962 /\ emcutil < TH2Dyn2(l + 1) -> Up(9)'
            [] gpuutil <= 962 /\ emcutil > 800000 -> Down(9)'
            [] OTHER -> freq'
    BY <1>0, <2>3 DEF cnngov_dyn_th2_th3, GpufreqHzToLevel
  <2>6. cnngov_dyn_th2_th3' \in {Up(9)', freq'}
    <3>1. ~(gpuutil > 962 /\ emcutil > TH3Dyn2(l + 1))
      BY <1>0, <2>4
    <3>2. ~(gpuutil <= 962 /\ emcutil > 800000)
      BY <1>0, <2>1
    <3> QED BY <2>5, <3>1, <3>2, SMT
  <2>7. cnngov_dyn_th2_th3' >= set_freq'
    BY <1>0, <2>6
  <2> QED BY <1>0, <1>9, <2>7, SMT DEF Straight
<1>10. CASE set_freq' < set_freq
  <2>1. /\ set_freq' = Down(9)
        /\ \/ gpuutil > 962 /\ emcutil > TH3Dyn2(l)
           \/ gpuutil <= 962
    BY <1>0, <1>6, <1>7, <1>10, SMT
  <2>2. d = l - 1 /\ l - 1 \in 0 .. 11 /\ l - 1 \in Levels /\ l - 1 + 1 = l
    BY <1>0, <1>2, <1>5, <1>10, <2>1 DEF Levels
  <2>3. GpufreqHzToLevel(freq') = l - 1
    BY <1>0, <1>5, <2>1, <2>2, LevelOf
  <2>4. TH2Dyn2(l - 1) <= TH3Dyn2(l) /\ TH3Dyn2(l - 1) \in Nat /\ TH2Dyn2(l - 1) \in Nat
    BY <2>2, Dyn2Thresholds
  <2>5. cnngov_dyn_th2_th3' =
          CASE gpuutil > 962 /\ emcutil > TH3Dyn2(l - 1) -> Down(9)'
            [] gpuutil > 962 /\ emcutil < TH2Dyn2(l - 1) -> Up(9)'
            [] gpuutil <= 962 /\ emcutil > 800000 -> Down(9)'
            [] OTHER -> freq'
    BY <1>0, <2>3 DEF cnngov_dyn_th2_th3, GpufreqHzToLevel
  <2>6. cnngov_dyn_th2_th3' \in {Down(9)', freq'}
    <3>1. ~(gpuutil > 962 /\ emcutil < TH2Dyn2(l - 1))
      BY <1>0, <1>7, <2>1, <2>4
    <3> QED BY <2>5, <3>1, SMT
  <2>7. cnngov_dyn_th2_th3' <= set_freq'
    BY <1>0, <2>6
  <2> QED BY <1>0, <1>10, <2>7, SMT DEF Straight
<1> QED BY <1>0, <1>8, <1>9, <1>10

\* What the next call may write for the load at hand, whatever the counters say.
MayChoose(f) ==
  \/ policy \in AtOnce /\ f = AtOnceTarget
  \/ policy \in Sampled /\ \E down, up \in BOOLEAN : f = SampledTarget(down, up)
  \/ policy = "cnngov_dyn_th2_th3" /\ f \in {freq, cnngov_dyn_th2_th3}

GoesOn ==
  policy \in Hysteretic =>
    \A f \in Int : MayChoose(f) => /\ direction = "up" => f >= set_freq
                                   /\ direction = "down" => f <= set_freq

LEMMA ChoicesStay ==
  ASSUME UNCHANGED <<settings, load, set_freq>>, NEW f
  PROVE  MayChoose(f)' <=> MayChoose(f)
<1>1. /\ policy' = policy /\ limits' = limits /\ load' = load /\ set_freq' = set_freq
  BY DEF settings
<1>2. /\ gpuutil' = gpuutil /\ emcutil' = emcutil /\ max_gpufreq' = max_gpufreq
      /\ freq' = freq
  BY <1>1 DEF gpuutil, emcutil, max_gpufreq, freq
<1>3. Up(9)' = Up(9) /\ Down(9)' = Down(9) /\ Down(18)' = Down(18)
  BY <1>2 DEF Up, Down, ScaleUpByNOfMax, ScaleDownByNOfMax
<1>4. AtOnceTarget' = AtOnceTarget
  <2>1. cnngov_a' = cnngov_a /\ cnngov_b' = cnngov_b
    BY <1>2, <1>3, SMT DEF cnngov_a, cnngov_b
  <2>2. \A th : CnngovC(th)' = CnngovC(th)
    BY <1>2, <1>3, SMT DEF CnngovC
  <2>3. cnngov_d' = cnngov_d /\ cnngov_e' = cnngov_e
    BY <1>2, <1>3, SMT DEF cnngov_d, cnngov_e, AtLeast
  <2>4. cnngov_20190919' = cnngov_20190919 /\ cnngov_20190920' = cnngov_20190920
    BY <1>2, <1>3, SMT DEF cnngov_20190919, cnngov_20190920
  <2>5. maxmin_cap_b' = maxmin_cap_b
    BY <1>2, <1>3, SMT DEF maxmin_cap_b, AtLeast, AtMost
  <2>6. hilo' = hilo /\ policy_0_or_not' = policy_0_or_not
    BY <1>2, SMT DEF hilo, policy_0_or_not
  <2>7. emc_conservative' = emc_conservative
    BY <1>2, <1>3, SMT DEF emc_conservative, Int16
  <2>8. cnngov_c' = cnngov_c /\ cnngov_c_30' = cnngov_c_30 /\ cnngov_c_40' = cnngov_c_40
    BY <2>2 DEF cnngov_c, cnngov_c_30, cnngov_c_40
  <2> QED BY <1>1, <2>1, <2>3, <2>4, <2>5, <2>6, <2>7, <2>8, SMT DEF AtOnceTarget
<1>5. \A down, up \in BOOLEAN : SampledTarget(down, up)' = SampledTarget(down, up)
  <2> SUFFICES ASSUME NEW down \in BOOLEAN, NEW up \in BOOLEAN
               PROVE  SampledTarget(down, up)' = SampledTarget(down, up)
    OBVIOUS
  <2>1. slow_scale(down, up)' = slow_scale(down, up)
    BY <1>2, <1>3, SMT DEF slow_scale, ByThresholds
  <2>2. \A n \in {9, 18} : FeasTest(n, down, up)' = FeasTest(n, down, up)
    BY <1>2, <1>3, SMT DEF FeasTest, ByThresholds, AtLeast, AtMost
  <2>3. cnngov_20191211(down, up)' = cnngov_20191211(down, up)
    BY <1>2, <1>3, SMT DEF cnngov_20191211, AtLeast, AtMost
  <2> QED BY <1>1, <2>1, <2>2, <2>3, SMT
          DEF SampledTarget, feas_test, feas_test_2stepdown
<1>6. cnngov_dyn_th2_th3' = cnngov_dyn_th2_th3
  BY <1>2, <1>3, SMT DEF cnngov_dyn_th2_th3, GpufreqHzToLevel
<1> QED BY <1>1, <1>2, <1>4, <1>5, <1>6 DEF MayChoose

LEMMA ChoicesStraight ==
  ASSUME IInv, IInv', UNCHANGED <<settings, load>>, policy \in Hysteretic,
         MayChoose(set_freq'), NEW f, MayChoose(f)'
  PROVE  Straight(set_freq, set_freq', f)
<1>1. policy' = policy /\ freq = set_freq /\ freq' = set_freq'
  BY DEF settings, freq
<1>2. CASE policy \in AtOnce
  <2>1. policy \notin Sampled /\ policy # "cnngov_dyn_th2_th3"
    BY <1>2 DEF AtOnce, Sampled
  <2>2. set_freq' = AtOnceTarget /\ f = AtOnceTarget'
    BY <1>1, <2>1 DEF MayChoose
  <2> QED BY <1>2, <2>2, AtOnceStraight
<1>3. CASE policy \in Sampled
  <2>1. policy \notin AtOnce /\ policy # "cnngov_dyn_th2_th3"
    BY <1>3 DEF AtOnce, Sampled
  <2>2. PICK down \in BOOLEAN, up \in BOOLEAN : set_freq' = SampledTarget(down, up)
    BY <2>1 DEF MayChoose
  <2>3. PICK down2 \in BOOLEAN, up2 \in BOOLEAN : f = SampledTarget(down2, up2)'
    BY <1>1, <2>1 DEF MayChoose
  <2> QED BY <1>3, <2>2, <2>3, SampledStraight
<1>4. CASE policy = "cnngov_dyn_th2_th3"
  <2>1. policy \notin AtOnce /\ policy \notin Sampled
    BY <1>4 DEF AtOnce, Sampled
  <2>2. set_freq' \in {freq, cnngov_dyn_th2_th3} /\ f \in {freq', cnngov_dyn_th2_th3'}
    BY <1>1, <2>1 DEF MayChoose
  <2>3. set_freq \in Nat /\ set_freq' \in Nat
    BY <1>4, TwoCalls
  <2>4. CASE set_freq' = set_freq
    BY <2>3, <2>4, SMT DEF Straight
  <2>5. CASE f = set_freq'
    BY <2>3, <2>5, SMT DEF Straight
  <2>6. CASE set_freq' = cnngov_dyn_th2_th3 /\ f = cnngov_dyn_th2_th3'
    BY <1>4, <2>6, DynamicStraight
  <2> QED BY <1>1, <2>2, <2>4, <2>5, <2>6
<1> QED BY <1>2, <1>3, <1>4 DEF MayChoose

LEMMA CallsChoose ==
  ASSUME IInv, GetTargetFreq, policy \in Hysteretic, policy # "do_nothing"
  PROVE  /\ UNCHANGED <<settings, load>>
         /\ MayChoose(set_freq')
         /\ direction' = IF set_freq' = set_freq THEN direction
                         ELSE IF set_freq' > set_freq THEN "up" ELSE "down"
<1>1. policy \in AtOnce \/ policy \in Sampled \/ policy = "cnngov_dyn_th2_th3"
  BY DEF IInv, TypeOK, Hysteretic, PolicyNames, Dynamic
<1>2. CASE policy \in AtOnce
  <2>1. GovernAtOnce
    BY <1>2 DEF GetTargetFreq, GovernAtOnce, GovernSampled, GovernDynamic,
       GovernAlternating, GovernPingpong, GovernOndemand8050, AtOnce, Sampled,
       Dynamic, Alternating
  <2> QED BY <1>2, <2>1 DEF GovernAtOnce, SetGpufreq, MayChoose
<1>3. CASE policy \in Sampled
  <2>1. GovernSampled
    BY <1>3 DEF GetTargetFreq, GovernAtOnce, GovernSampled, GovernDynamic,
       GovernAlternating, GovernPingpong, GovernOndemand8050, AtOnce, Sampled,
       Dynamic, Alternating
  <2> DEFINE down == sampling_down_counter + 1 >= SamplingFactor
             up == sampling_up_counter + 1 >= SamplingFactor
  <2>2. SetGpufreq(SampledTarget(down, up)) /\ UNCHANGED <<settings, load>>
    BY <2>1 DEF GovernSampled
  <2>3. down \in BOOLEAN /\ up \in BOOLEAN
    BY <1>3, SMT DEF IInv, TypeOK, SamplingFactor
  <2> HIDE DEF down, up
  <2> QED BY <1>3, <2>2, <2>3 DEF SetGpufreq, MayChoose
<1>4. CASE policy = "cnngov_dyn_th2_th3"
  <2>1. GovernDynamic
    BY <1>4 DEF GetTargetFreq, GovernAtOnce, GovernSampled, GovernDynamic,
       GovernAlternating, GovernPingpong, GovernOndemand8050, AtOnce, Sampled,
       Dynamic, Alternating
  <2>2. /\ UNCHANGED <<settings, load>>
        /\ SetGpufreq(freq) \/ SetGpufreq(cnngov_dyn_th2_th3)
    BY <1>4, <2>1 DEF GovernDynamic
  <2> QED BY <1>4, <2>2 DEF SetGpufreq, MayChoose
<1> QED BY <1>1, <1>2, <1>3, <1>4

TurnsNever == policy \in Hysteretic /\ UNCHANGED load => ~TurnsAround

LEMMA GoesOnInit == Init => GoesOn
BY DEF Init, GoesOn

LEMMA GoesOnStep ==
  ASSUME IInv, IInv', GoesOn, [Next]_vars
  PROVE  GoesOn' /\ TurnsNever
<1>1. CASE LoadChanges
  BY <1>1 DEF LoadChanges, GoesOn, TurnsNever, TurnsAround
<1>2. CASE UNCHANGED vars
  <2>1. UNCHANGED <<settings, load, set_freq, policy, direction>>
    BY <1>2 DEF vars, settings
  <2>2. set_freq \in Int
    BY DEF IInv, TypeOK
  <2> QED BY <2>1, <2>2, ChoicesStay DEF GoesOn, TurnsNever, TurnsAround
<1>3. CASE GetTargetFreq /\ policy \notin Hysteretic
  <2>1. policy' = policy
    BY <1>3 DEF GetTargetFreq, GovernAtOnce, GovernSampled, GovernDynamic,
       GovernAlternating, GovernPingpong, GovernOndemand8050, settings
  <2> QED BY <1>3, <2>1 DEF GoesOn, TurnsNever
<1>4. CASE GetTargetFreq /\ policy = "do_nothing"
  BY <1>4 DEF GetTargetFreq, GovernAtOnce, GovernSampled, GovernDynamic,
     GovernAlternating, GovernPingpong, GovernOndemand8050, AtOnce, Sampled,
     Dynamic, Alternating
<1>5. CASE GetTargetFreq /\ policy \in Hysteretic /\ policy # "do_nothing"
  <2>1. /\ UNCHANGED <<settings, load>> /\ policy' = policy
        /\ MayChoose(set_freq')
        /\ direction' = IF set_freq' = set_freq THEN direction
                        ELSE IF set_freq' > set_freq THEN "up" ELSE "down"
    BY <1>5, CallsChoose DEF settings
  <2>2. set_freq \in Int /\ set_freq' \in Int
    BY DEF IInv, TypeOK
  <2>3. TurnsNever
    BY <1>5, <2>1, <2>2 DEF GoesOn, TurnsNever, TurnsAround
  <2>4. CASE set_freq' = set_freq
    <3>1. direction' = direction
      BY <2>1, <2>4
    <3> QED BY <1>5, <2>1, <2>3, <2>4, <3>1, ChoicesStay DEF GoesOn
  <2>5. CASE set_freq' # set_freq
    <3>1. ASSUME NEW f \in Int, MayChoose(f)'
          PROVE  /\ direction' = "up" => f >= set_freq'
                 /\ direction' = "down" => f <= set_freq'
      <4>1. Straight(set_freq, set_freq', f)
        BY <1>5, <2>1, <3>1, ChoicesStraight
      <4>2. /\ direction' = "up" => set_freq' > set_freq
            /\ direction' = "down" => set_freq' < set_freq
        BY <2>1, <2>2, <2>5
      <4> QED BY <4>1, <4>2 DEF Straight
    <3> QED BY <2>3, <3>1 DEF GoesOn
  <2> QED BY <2>4, <2>5
<1> QED BY <1>1, <1>2, <1>3, <1>4, <1>5 DEF Next

\* For every table whose levels lie as far apart as the board's, no policy with
\* thresholds turns around while the load stays the same (governor/*.c).
THEOREM Hysteresis == Spec => NoOscillation
BY GoesOnInit, GoesOnStep, Invariance, PTL DEF Spec, NoOscillation, TurnsNever
-----------------------------------------------------------------------------
(* A busy GPU is not left behind: what there is in BusyReachesCeiling besides *)
(* fairness, and for all loads above every policy's threshold for the GPU and *)
(* below those for the EMC, of which the property takes one.                  *)

Busy ==
  /\ policy \in Rising /\ limits.max \in Steppable
  /\ gpuutil >= 996 /\ emcutil < 200000

\* In how many calls a policy decides, the present one included.
CallsToDecision ==
  IF policy \in Sampled THEN SamplingFactor - sampling_up_counter
  ELSE IF policy \in Dynamic THEN SAMPLING_FACTOR - sampling_counter
  ELSE 1

\* A frequency that is no less than the ceiling, or at least more than the present.
Climbs(f) == f >= Ceiling \/ f > set_freq

BusyClimbs ==
  [][Busy /\ GetTargetFreq =>
       \/ Climbs(set_freq')
       \/ /\ set_freq' = set_freq
          /\ CallsToDecision' \in 1 .. CallsToDecision - 1]_vars

\* Where the steps of the table are spanned, scaling up leads up.
LEMMA StepUp ==
  ASSUME limits \in Limits, limits.max \in Steppable,
         NEW f \in Frequencies, f < max_gpufreq
  PROVE  ScaleUpByNOfMax(f, 9) > f
<1> DEFINE Enough == {k \in Levels : 100 * available_gpufreq[k] <= 100 * f + 9 * max_gpufreq}
           m == Max(Enough)
<1>1. PICK l \in Levels : f = available_gpufreq[l]
  BY DEF Frequencies
<1>2. PICK h \in Levels : max_gpufreq = available_gpufreq[h]
  BY LimitsType DEF Frequencies
<1>3. l + 1 \in Levels \ {0} /\ (l + 1) - 1 = l /\ l < l + 1
  BY <1>1, <1>2, TableOrder DEF Levels
<1>4. 100 * (available_gpufreq[l + 1] - available_gpufreq[l]) <= 9 * max_gpufreq
  BY <1>3 DEF Steppable, max_gpufreq
<1>5. /\ available_gpufreq[l + 1] \in Nat /\ available_gpufreq[l] \in Nat
      /\ max_gpufreq \in Nat
  BY <1>2, <1>3, GovernorAssumption
<1>6. l + 1 \in Enough /\ Enough \subseteq Levels
  BY <1>1, <1>3, <1>4, <1>5
<1>7. m \in Levels /\ l + 1 <= m
  BY <1>6, MaxOfLevels
<1>8. ScaleUpByNOfMax(f, 9) = available_gpufreq[m]
  BY <1>6 DEF ScaleUpByNOfMax
<1> HIDE DEF m, Enough
<1>9. l < m
  BY <1>3, <1>7 DEF Levels
<1> QED BY <1>1, <1>7, <1>8, <1>9, TableOrder

\* What a busy policy chooses from.
LEMMA BusyChoices ==
  ASSUME IInv, Busy
  PROVE  /\ gpuutil \in Nat /\ emcutil \in Nat /\ freq = set_freq
         /\ set_freq \in Nat /\ max_gpufreq \in Nat /\ Ceiling \in Nat
         /\ Up(9) \in Nat /\ Up(9) >= set_freq /\ Up(9) <= available_gpufreq[12]
         /\ Climbs(Up(9)) /\ Climbs(max_gpufreq)
         /\ Down(9) \in Nat /\ Down(18) \in Nat
         /\ Ceiling <= max_gpufreq
         /\ \A l \in {0, 2, 4, 6, 8, 10, 12} : available_gpufreq[l] \in Nat
         /\ available_gpufreq[6] < available_gpufreq[10]
         /\ available_gpufreq[8] < available_gpufreq[10]
<1>1. policy # "ondemand8050"
  BY DEF Busy, Rising, AtOnce, Sampled, Dynamic
<1>2. set_freq \in Frequencies /\ limits \in Limits /\ load \in Loads
  BY <1>1, OnTable DEF IInv, TypeOK
<1>3. gpuutil \in Nat /\ emcutil \in Nat /\ freq = set_freq
  BY <1>2, GovernorAssumption DEF gpuutil, emcutil, freq
<1>4. /\ max_gpufreq \in Frequencies /\ Down(9) \in Frequencies /\ Down(18) \in Frequencies
      /\ Up(9) \in Frequencies
  BY <1>2, ChoicesAvailable
<1>5. /\ max_gpufreq \in Nat /\ Down(9) \in Nat /\ Down(18) \in Nat /\ Up(9) \in Nat
      /\ set_freq \in Nat
  BY <1>2, <1>4, FrequencyType
<1>6. /\ \A l \in {0, 2, 4, 6, 8, 10, 12} : available_gpufreq[l] \in Nat
      /\ available_gpufreq[6] < available_gpufreq[10]
      /\ available_gpufreq[8] < available_gpufreq[10]
  BY GovernorAssumption, TableOrder DEF Levels
<1>7. Up(9) >= set_freq
  BY <1>2, <1>3, ScaleUpAbove DEF Up
<1>8. Up(9) <= available_gpufreq[12]
  <2>1. PICK l \in Levels : Up(9) = available_gpufreq[l]
    BY <1>4 DEF Frequencies
  <2>2. 12 \in Levels /\ (l < 12 \/ l = 12)
    BY DEF Levels
  <2>3. available_gpufreq[l] \in Nat /\ available_gpufreq[12] \in Nat
    BY <2>2, GovernorAssumption
  <2> QED BY <2>1, <2>2, <2>3, TableOrder
<1>9. Ceiling \in Nat /\ Ceiling <= max_gpufreq
  BY <1>5, <1>6 DEF Ceiling, AtMost
<1>10. set_freq < max_gpufreq => Up(9) > set_freq
  BY <1>2, <1>3, StepUp DEF Busy, Up
<1> HIDE DEF max_gpufreq
<1>11. Climbs(Up(9)) /\ Climbs(max_gpufreq)
  BY <1>5, <1>7, <1>9, <1>10 DEF Climbs
<1> QED BY <1>3, <1>5, <1>6, <1>7, <1>8, <1>9, <1>11

LEMMA AtOnceClimbs ==
  ASSUME IInv, Busy, policy \in AtOnce
  PROVE  Climbs(AtOnceTarget)
<1>1. /\ gpuutil \in Nat /\ emcutil \in Nat /\ freq = set_freq
      /\ max_gpufreq \in Nat /\ Ceiling \in Nat
      /\ Up(9) \in Nat /\ Up(9) <= available_gpufreq[12]
      /\ Climbs(Up(9)) /\ Climbs(max_gpufreq)
      /\ available_gpufreq[10] \in Nat /\ available_gpufreq[12] \in Nat
  BY BusyChoices
<1>2. gpuutil >= 996 /\ emcutil < 200000 /\ policy # "policy_0_or_not"
  BY DEF Busy, Rising
<1>3. cnngov_a = Up(9) /\ cnngov_b = max_gpufreq
  BY <1>1, <1>2, SMT DEF cnngov_a, cnngov_b
<1>4. \A th \in {200000, 300000, 400000} : CnngovC(th) = Up(9)
  BY <1>1, <1>2, SMT DEF CnngovC
<1>5. cnngov_d = max_gpufreq /\ cnngov_e = Up(9)
  BY <1>1, <1>2, SMT DEF cnngov_d, cnngov_e
<1>6. cnngov_20190919 = Up(9) /\ cnngov_20190920 = Up(9)
  BY <1>1, <1>2, SMT DEF cnngov_20190919, cnngov_20190920
<1>7. maxmin_cap_b = Up(9)
  <2>1. maxmin_cap_b = AtMost(Up(9), available_gpufreq[12])
    BY <1>1, <1>2, SMT DEF maxmin_cap_b
  <2> QED BY <1>1, <2>1 DEF AtMost
<1>8. policy = "hilo" => Climbs(hilo)
  <2>1. hilo = available_gpufreq[10]
    BY <1>1, <1>2 DEF hilo
  <2>2. policy = "hilo" => Ceiling <= available_gpufreq[10]
    BY <1>1 DEF Ceiling, AtMost
  <2> QED BY <2>1, <2>2 DEF Climbs
<1>9. emc_conservative = Up(9)
  <2>1. \A n \in Nat : Int16(n) \in Int
    BY Z3 DEF Int16
  <2>2. \A n \in Nat : Int16(n) < 300000
    BY Z3 DEF Int16
  <2> HIDE DEF Int16
  <2> QED BY <1>1, <2>1, <2>2, SMT DEF emc_conservative
<1>10. /\ cnngov_c = Up(9) /\ cnngov_c_30 = Up(9) /\ cnngov_c_40 = Up(9)
  BY <1>4 DEF cnngov_c, cnngov_c_30, cnngov_c_40
<1>11. AtOnceTarget \in {Up(9), max_gpufreq} \/ (policy = "hilo" /\ AtOnceTarget = hilo)
  BY <1>2, <1>3, <1>5, <1>6, <1>7, <1>9, <1>10, SMT DEF AtOnce, AtOnceTarget
<1> QED BY <1>1, <1>8, <1>11

\* A decision climbs, and between decisions nothing is lost.
LEMMA SampledClimbs ==
  ASSUME IInv, Busy, policy \in Sampled, NEW down \in BOOLEAN, NEW up \in BOOLEAN
  PROVE  /\ up => Climbs(SampledTarget(down, up))
         /\ Climbs(SampledTarget(down, up)) \/ SampledTarget(down, up) = set_freq
<1>1. /\ gpuutil \in Nat /\ emcutil \in Nat /\ freq = set_freq
      /\ set_freq \in Nat /\ max_gpufreq \in Nat /\ Ceiling \in Nat
      /\ Up(9) \in Nat /\ Up(9) >= set_freq /\ Climbs(Up(9))
      /\ available_gpufreq[6] \in Nat /\ available_gpufreq[8] \in Nat
      /\ available_gpufreq[10] \in Nat
      /\ available_gpufreq[6] < available_gpufreq[10]
      /\ available_gpufreq[8] < available_gpufreq[10]
  BY BusyChoices
<1>2. gpuutil >= 996 /\ emcutil < 200000
  BY DEF Busy
<1>3. \A th1 \in {962}, th2 \in {495000, 650000}, th3 \in {540000, 750000},
         th4 \in {400000, 800000}, n \in {9, 18} :
        ByThresholds(th1, th2, th3, th4, n, down, up) = IF up THEN Up(9) ELSE set_freq
  BY <1>1, <1>2, SMT DEF ByThresholds
<1> DEFINE choice == IF up THEN Up(9) ELSE set_freq
<1>4. slow_scale(down, up) = choice
  BY <1>3 DEF slow_scale
<1>5. \A n \in {9, 18} : FeasTest(n, down, up)
        = AtLeast(AtMost(choice, available_gpufreq[10]), available_gpufreq[8])
  BY <1>3 DEF FeasTest
<1>6. cnngov_20191211(down, up)
        = AtLeast(AtMost(IF up THEN available_gpufreq[10] ELSE set_freq,
                         available_gpufreq[10]),
                  available_gpufreq[6])
  BY <1>1, <1>2, SMT DEF cnngov_20191211
<1>7. choice \in Nat /\ (up => Climbs(choice)) /\ (~up => choice = set_freq)
  BY <1>1
<1> HIDE DEF choice
<1>8. policy = "slow_scale" \/ Ceiling <= available_gpufreq[10]
  BY <1>1 DEF Ceiling, AtMost, Sampled
<1>9. CASE policy = "slow_scale"
  BY <1>4, <1>7, <1>9 DEF SampledTarget
<1>10. CASE policy \in {"feas_test", "feas_test_2stepdown"}
  <2>1. SampledTarget(down, up)
          = AtLeast(AtMost(choice, available_gpufreq[10]), available_gpufreq[8])
    BY <1>5, <1>10, SMT DEF SampledTarget, feas_test, feas_test_2stepdown
  <2>2. Ceiling <= available_gpufreq[10]
    BY <1>8, <1>10
  <2> QED BY <1>1, <1>7, <2>1, <2>2 DEF AtLeast, AtMost, Climbs
<1>11. CASE policy = "cnngov_20191211"
  <2>1. SampledTarget(down, up) = cnngov_20191211(down, up)
    BY <1>11, SMT DEF SampledTarget
  <2>2. Ceiling <= available_gpufreq[10]
    BY <1>8, <1>11
  <2>3. CASE up
    BY <1>1, <1>6, <2>1, <2>2, <2>3 DEF AtLeast, AtMost, Climbs
  <2>4. CASE ~up
    BY <1>1, <1>6, <2>1, <2>2, <2>4 DEF AtLeast, AtMost, Climbs
  <2> QED BY <2>3, <2>4
<1> QED BY <1>9, <1>10, <1>11 DEF Sampled

LEMMA DynamicClimbs ==
  ASSUME IInv, Busy, policy \in Dynamic
  PROVE  Climbs(IF policy = "cnngov_dyn_th" THEN cnngov_dyn_th ELSE cnngov_dyn_th2_th3)
<1>1. /\ gpuutil \in Nat /\ emcutil \in Nat /\ freq = set_freq
      /\ set_freq \in Nat /\ max_gpufreq \in Nat /\ Ceiling \in Nat
      /\ Up(9) \in Nat /\ Climbs(Up(9)) /\ available_gpufreq[10] \in Nat
  BY BusyChoices
<1>2. gpuutil >= 996 /\ emcutil < 200000
  BY DEF Busy
<1>3. PICK l \in Levels : set_freq = available_gpufreq[l]
  <2>1. policy # "ondemand8050"
    BY DEF Dynamic
  <2> QED BY <2>1, OnTable DEF Frequencies
<1>4. GpufreqHzToLevel(freq) = l
  BY <1>1, <1>3, LevelOf
<1>5. CASE policy = "cnngov_dyn_th"
  <2>1. l \in {0, 1, 2, 3, 4, 5, 6, 7, 8, 9, 10, 11, 12}
    BY DEF Levels
  <2>2. TH3Dyn(l) \in Nat /\ TH3Dyn(l) >= 383000 /\ (l <= 9 => TH3Dyn(l) >= 423000)
    BY <2>1, SMTT(30) DEF TH3Dyn
  <2>3. cnngov_dyn_th \in {Up(9), set_freq} /\ (l <= 9 => cnngov_dyn_th = Up(9))
    BY <1>1, <1>2, <1>4, <2>2, SMT DEF cnngov_dyn_th
  <2>4. l > 9 => set_freq >= Ceiling
    <3>1. Ceiling <= available_gpufreq[10]
      BY <1>1, <1>5 DEF Ceiling, AtMost
    <3>2. l > 9 => 10 \in Levels /\ (10 < l \/ 10 = l)
      BY <2>1 DEF Levels
    <3> QED BY <1>1, <1>3, <3>1, <3>2, TableOrder
  <2>5. l > 9 \/ l <= 9
    BY <2>1
  <2> QED BY <1>1, <1>5, <2>3, <2>4, <2>5 DEF Climbs
<1>6. CASE policy # "cnngov_dyn_th"
  <2>1. l \in {0, 1, 2, 3, 4, 5, 6, 7, 8, 9, 10, 11, 12}
    BY DEF Levels
  <2>2. /\ TH2Dyn2(l) \in Nat /\ TH3Dyn2(l) \in Nat
        /\ TH2Dyn2(l) >= 344000 /\ TH3Dyn2(l) >= 383000
    BY <2>1, SMTT(30) DEF TH2Dyn2, TH3Dyn2
  <2>3. cnngov_dyn_th2_th3 = Up(9)
    BY <1>1, <1>2, <1>4, <2>2, SMT DEF cnngov_dyn_th2_th3
  <2> QED BY <1>1, <1>6, <2>3
<1> QED BY <1>5, <1>6

LEMMA ClimbStep ==
  ASSUME IInv, Busy, GetTargetFreq
  PROVE  \/ Climbs(set_freq')
         \/ set_freq' = set_freq /\ CallsToDecision' \in 1 .. CallsToDecision - 1
<1>0. policy \in AtOnce \/ policy \in Sampled \/ policy \in Dynamic
  BY DEF Busy, Rising
<1>1. CASE policy \in AtOnce
  <2>1. SetGpufreq(AtOnceTarget)
    BY <1>1 DEF GetTargetFreq, GovernAtOnce, GovernSampled, GovernDynamic,
       GovernAlternating, GovernPingpong, GovernOndemand8050, AtOnce, Sampled,
       Dynamic, Alternating
  <2>2. set_freq' = AtOnceTarget
    BY <2>1 DEF SetGpufreq
  <2> QED BY <1>1, <2>2, AtOnceClimbs
<1>2. CASE policy \in Sampled
  <2>1. GovernSampled
    BY <1>2 DEF GetTargetFreq, GovernAtOnce, GovernSampled, GovernDynamic,
       GovernAlternating, GovernPingpong, GovernOndemand8050, AtOnce, Sampled,
       Dynamic, Alternating
  <2> DEFINE down == sampling_down_counter + 1 >= SamplingFactor
             up == sampling_up_counter + 1 >= SamplingFactor
  <2>2. /\ set_freq' = SampledTarget(down, up)
        /\ ~up => sampling_up_counter' = sampling_up_counter + 1
        /\ policy' = policy
    BY <2>1 DEF GovernSampled, SetGpufreq, settings
  <2>3. SamplingFactor \in Nat
    BY <1>2, SMT DEF SamplingFactor
  <2>4. sampling_up_counter \in Nat
    BY DEF IInv, TypeOK
  <2>5. SamplingFactor' = SamplingFactor
    BY <2>2, SMT DEF SamplingFactor
  <2>6. down \in BOOLEAN /\ up \in BOOLEAN
    BY <1>2, SMT DEF IInv, TypeOK, SamplingFactor
  <2>7. CallsToDecision = SamplingFactor - sampling_up_counter
    BY <1>2 DEF CallsToDecision
  <2>8. ~up => CallsToDecision' \in 1 .. CallsToDecision - 1
    <3>1. CallsToDecision' = SamplingFactor - sampling_up_counter'
      BY <1>2, <2>2, <2>5 DEF CallsToDecision
    <3> QED BY <2>2, <2>3, <2>4, <2>7, <3>1
  <2> HIDE DEF down, up
  <2>9. /\ up => Climbs(SampledTarget(down, up))
        /\ Climbs(SampledTarget(down, up)) \/ SampledTarget(down, up) = set_freq
    BY <1>2, <2>6, SampledClimbs
  <2> QED BY <2>2, <2>6, <2>8, <2>9
<1>3. CASE policy \in Dynamic
  <2>1. GovernDynamic
    BY <1>3 DEF GetTargetFreq, GovernAtOnce, GovernSampled, GovernDynamic,
       GovernAlternating, GovernPingpong, GovernOndemand8050, AtOnce, Sampled,
       Dynamic, Alternating
  <2>2. CASE sampling_counter + 1 >= SAMPLING_FACTOR
    <3>1. set_freq' = IF policy = "cnngov_dyn_th" THEN cnngov_dyn_th
                                                  ELSE cnngov_dyn_th2_th3
      BY <2>1, <2>2 DEF GovernDynamic, SetGpufreq
    <3> QED BY <1>3, <3>1, DynamicClimbs
  <2>3. CASE ~(sampling_counter + 1 >= SAMPLING_FACTOR)
    <3>1. /\ set_freq' = set_freq /\ sampling_counter' = sampling_counter + 1
          /\ policy' = policy
      BY <2>1, <2>3 DEF GovernDynamic, SetGpufreq, settings, freq
    <3>2. policy \notin Sampled /\ sampling_counter \in Nat
      BY <1>3 DEF IInv, TypeOK, Sampled, Dynamic
    <3> QED BY <1>3, <2>3, <3>1, <3>2 DEF CallsToDecision, SAMPLING_FACTOR
  <2> QED BY <2>2, <2>3
<1> QED BY <1>0, <1>1, <1>2, <1>3

\* Whatever the load above the thresholds and the table, each decision for a busy
\* GPU raises the frequency until it is the policy's ceiling, from where none
\* lowers it, and a policy that counts calls decides before the count runs over.
THEOREM BusyNeverLeftBehind == Spec => BusyClimbs
<1>1. IInv /\ [Next]_vars =>
        (Busy /\ GetTargetFreq =>
           \/ Climbs(set_freq')
           \/ set_freq' = set_freq /\ CallsToDecision' \in 1 .. CallsToDecision - 1)
  BY ClimbStep
<1> QED BY <1>1, Invariance, PTL DEF Spec, BusyClimbs
=============================================================================
