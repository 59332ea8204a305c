-------------------------------- MODULE Summary --------------------------------
(***************************************************************************)
(* The running summaries of summary.c: for the whole of Caffe, for the CNN *)
(* inference and for the current batch.  Every sample that calculate_2nd-  *)
(* stat() reads goes to update_summary(), which integrates the powers by   *)
(* the trapezoidal rule and frequency and utilizations by a sum of         *)
(* rectangles, in integers only: an energy is five digits                  *)
(*     J . mJ uJ pJ fJ                                                     *)
(* which are carried from the right after each sample, and printed one     *)
(* after the other as one decimal number.                                  *)
(*                                                                         *)
(* The radices are constants.  What ties them together is that mW * ns is  *)
(* pJ and uW * ns is fJ.                                                   *)
(***************************************************************************)
EXTENDS Integers, Sequences

CONSTANTS
    MILLI_PER_MICRO, MICRO_PER_PICO, ONE_PER_MILLI,
    Readings,      \* what one sample may read, by column
    Steps,         \* ticks from one sample to the next
    MaxSamples,    \* bound: samples
    MaxBatches     \* bound: batches that end

\* mJ = ONE_PER_NANO pJ, and pJ is to fJ what mW is to uW.
ONE_PER_NANO == MILLI_PER_MICRO * MICRO_PER_PICO
PICO_PER_FEMTO == MILLI_PER_MICRO

Rails == {"allcpu_power", "gpu_power", "mem_power", "board_power"}
Rates == {"gpu_freq", "gpu_util", "emc_util"}
Ranged == {"gpu_util", "gpu_freq", "gpu_power", "emc_util"}
Columns == Rails \cup Rates

ASSUME UnitAssumption ==
    /\ {MILLI_PER_MICRO, MICRO_PER_PICO, ONE_PER_MILLI} \subseteq Nat \ {0}
    /\ MILLI_PER_MICRO % 2 = 0
    /\ Readings \subseteq [Columns -> Nat]
    /\ Steps \subseteq Int
    /\ MaxSamples \in Nat /\ MaxBatches \in Nat

VARIABLES
    summary,     \* summary_caffe, summary_cnn and summary_batch
    phase,       \* where the events are: "before", "cnn" or "after"
    clock,       \* wall-clock time of the last sample, in ticks
    samples, ended,  \* uses of the bounds
    exact,       \* history: what each summary should add up to
    window,      \* history: the readings since each summary's init
    batchTime,   \* history: printed runtimes of batches that had samples
    staleTime,   \* history: the same of batches that had none
    backwards    \* history: whether a sample was older than the one before

historyVars == <<exact, window, batchTime, staleTime, backwards>>
vars == <<summary, phase, clock, samples, ended, historyVars>>

Names == {"caffe", "cnn", "batch"}
Energies == {"system", "gpu", "board", "mem"}
Digits == [J : Int, mJ : Int, uJ : Int, pJ : Int, fJ : Int]
Timespec == [sec : Int, nsec : Int]

-----------------------------------------------------------------------------
(* Arithmetic. *)

\* C's division truncates towards zero.
Quotient(a, b) == IF a >= 0 THEN a \div b ELSE -((-a) \div b)

\* Mutant: seconds and nanoseconds are subtracted without a borrow.
ElapsedUnborrowed(from, to) ==
    [sec |-> to.sec - from.sec, nsec |-> to.nsec - from.nsec]

\* The time between two samples, its nanoseconds never negative.
Elapsed(from, to) ==
    LET sec == to.sec - from.sec
        nsec == to.nsec - from.nsec
    IN  IF nsec < 0 THEN [sec |-> sec - 1, nsec |-> nsec + ONE_PER_NANO]
                    ELSE [sec |-> sec, nsec |-> nsec]

\* Half of a sum of mW, in mW and uW.
Average(sum) ==
    [mW |-> sum \div 2, uW |-> ((sum % 2) * MILLI_PER_MICRO) \div 2]

Accumulate(e, sum, dt) ==
    LET avg == Average(sum)
    IN  [e EXCEPT !.mJ = @ + dt.sec * avg.mW,
                  !.uJ = @ + dt.sec * avg.uW,
                  !.pJ = @ + dt.nsec * avg.mW,
                  !.fJ = @ + dt.nsec * avg.uW]

\* Mutant: a carry is rounded up.
FractionRoundedUp(digit, radix) == Quotient(digit + radix - 1, radix)

\* What a digit passes to its left: for a negative quotient, one less.
Fraction(digit, radix) ==
    LET q == Quotient(digit, radix) IN IF q < 0 THEN q - 1 ELSE q

CarryFj(e) ==
    LET f == Fraction(e.fJ, PICO_PER_FEMTO)
    IN  [e EXCEPT !.pJ = @ + f, !.fJ = @ - f * PICO_PER_FEMTO]

\* Mutant: one carry is taken from the digit with another one's radix.
CarryPjWrongUnit(e) ==
    LET f == Fraction(e.pJ, MICRO_PER_PICO)
    IN  [e EXCEPT !.uJ = @ + f, !.pJ = @ - f * MILLI_PER_MICRO]

CarryPj(e) ==
    LET f == Fraction(e.pJ, MICRO_PER_PICO)
    IN  [e EXCEPT !.uJ = @ + f, !.pJ = @ - f * MICRO_PER_PICO]

CarryUj(e) ==
    LET f == Fraction(e.uJ, MILLI_PER_MICRO)
    IN  [e EXCEPT !.mJ = @ + f, !.uJ = @ - f * MILLI_PER_MICRO]

CarryMj(e) ==
    LET f == Fraction(e.mJ, ONE_PER_MILLI)
    IN  [e EXCEPT !.J = @ + f, !.mJ = @ - f * ONE_PER_MILLI]

UpdateEnergy(e, sum, dt) ==
    CarryMj(CarryUj(CarryPj(CarryFj(Accumulate(e, sum, dt)))))

\* The average of a rate is not taken: its new value counts for the whole time.
UpdatePsum(p, rate, dt) ==
    LET sec == p.sec + rate * dt.sec
        nsec == p.nsec + rate * dt.nsec
        fraction == Quotient(nsec, ONE_PER_NANO)
    IN  IF fraction > 0
        THEN [sec |-> sec + fraction, nsec |-> nsec - fraction * ONE_PER_NANO]
        ELSE [sec |-> sec, nsec |-> nsec]

-----------------------------------------------------------------------------
(* The summaries. *)

ZeroDigits == [J |-> 0, mJ |-> 0, uJ |-> 0, pJ |-> 0, fJ |-> 0]
INIT_MAX == -1

\* No minimum yet: the largest number of the column's type, 16 bits wide but
\* for the utilization of the memory controller.
INIT_MIN(c) == IF c = "emc_util" THEN 2147483647 ELSE 32767

\* A reading fits its column's type, whose largest number the minimum starts from.
ASSUME WidthAssumption ==
    \A r \in Readings, c \in Ranged : r[c] <= INIT_MIN(c)

\* Mutants: the samples are counted from -1; the extremes go on.
InitSummaryOffByOne(s) ==
    [s EXCEPT !.num_powerlog = -1,
              !.max = [c \in Ranged |-> INIT_MAX],
              !.min = [c \in Ranged |-> INIT_MIN(c)],
              !.energy = [q \in Energies |-> ZeroDigits],
              !.psum = [c \in Rates |-> [sec |-> 0, nsec |-> 0]]]
InitSummaryKeepsExtremes(s) ==
    [s EXCEPT !.num_powerlog = 0,
              !.energy = [q \in Energies |-> ZeroDigits],
              !.psum = [c \in Rates |-> [sec |-> 0, nsec |-> 0]]]

\* init_summary() sets sums and extremes; it keeps the timestamps and the last
\* sample, which are not looked at before the next one.
InitSummary(s) ==
    [s EXCEPT !.num_powerlog = 0,
              !.max = [c \in Ranged |-> INIT_MAX],
              !.min = [c \in Ranged |-> INIT_MIN(c)],
              !.energy = [q \in Energies |-> ZeroDigits],
              !.psum = [c \in Rates |-> [sec |-> 0, nsec |-> 0]]]

SystemPower(r) == r["allcpu_power"] + r["gpu_power"] + r["mem_power"]

UpdateSystemEnergy(s, p) ==
    UpdateEnergy(s.energy["system"],
                 SystemPower(p.reading) + SystemPower(s.last),
                 Elapsed(s.finish, p.timestamp))
UpdateGpuenergy(s, p) ==
    UpdateEnergy(s.energy["gpu"], p.reading["gpu_power"] + s.last["gpu_power"],
                 Elapsed(s.finish, p.timestamp))
UpdateBoardenergy(s, p) ==
    UpdateEnergy(s.energy["board"],
                 p.reading["board_power"] + s.last["board_power"],
                 Elapsed(s.finish, p.timestamp))
UpdateMemenergy(s, p) ==
    UpdateEnergy(s.energy["mem"], p.reading["mem_power"] + s.last["mem_power"],
                 Elapsed(s.finish, p.timestamp))

\* Mutant: the start is the first summary's for good.
RebasedKeepsStart(s, p) ==
    IF s.num_powerlog = 0
    THEN [s EXCEPT !.finish = p.timestamp, !.last = p.reading]
    ELSE s

\* The first sample of a summary is its own predecessor.
Rebased(s, p) ==
    IF s.num_powerlog = 0
    THEN [s EXCEPT !.start = p.timestamp, !.finish = p.timestamp,
                   !.last = p.reading]
    ELSE s

UpdateSummary(s0, p) ==
    LET s == Rebased(s0, p)
    IN  [num_powerlog |-> s.num_powerlog + 1,
         start  |-> s.start,
         finish |-> p.timestamp,
         last   |-> p.reading,
         max    |-> [c \in Ranged |-> IF s.max[c] < p.reading[c]
                                      THEN p.reading[c] ELSE s.max[c]],
         min    |-> [c \in Ranged |-> IF s.min[c] > p.reading[c]
                                      THEN p.reading[c] ELSE s.min[c]],
         energy |-> [q \in Energies |->
                        CASE q = "system" -> UpdateSystemEnergy(s, p)
                          [] q = "gpu"    -> UpdateGpuenergy(s, p)
                          [] q = "board"  -> UpdateBoardenergy(s, p)
                          [] q = "mem"    -> UpdateMemenergy(s, p)],
         psum   |-> [c \in Rates |->
                        UpdatePsum(s.psum[c], p.reading[c],
                                   Elapsed(s.finish, p.timestamp))]]

Ticks(t) == t.sec * ONE_PER_NANO + t.nsec
ToTimespec(n) == [sec |-> n \div ONE_PER_NANO, nsec |-> n % ONE_PER_NANO]

\* summary_runtime(), in ticks.
Runtime(s) == Ticks(Elapsed(s.start, s.finish))

-----------------------------------------------------------------------------
(* calculate_2ndstat()'s use of them. *)

\* A global is zero before its first use; calculate_2ndstat() then inits it.
NewSummary ==
    InitSummary([num_powerlog |-> 0,
                 start |-> [sec |-> 0, nsec |-> 0],
                 finish |-> [sec |-> 0, nsec |-> 0],
                 last |-> [c \in Columns |-> 0],
                 max |-> [c \in Ranged |-> 0],
                 min |-> [c \in Ranged |-> 0],
                 energy |-> [q \in Energies |-> ZeroDigits],
                 psum |-> [c \in Rates |-> [sec |-> 0, nsec |-> 0]]])

Nothing == [energy |-> [q \in Energies |-> 0], psum |-> [c \in Rates |-> 0]]

Init ==
    /\ summary = [n \in Names |-> NewSummary]
    /\ phase = "before"
    /\ clock = 0
    /\ samples = 0 /\ ended = 0
    /\ exact = [n \in Names |-> Nothing]
    /\ window = [n \in Names |-> {}]
    /\ batchTime = 0 /\ staleTime = 0
    /\ backwards = FALSE

\* The summaries a sample goes to.
Open == IF phase = "cnn" THEN Names ELSE {"caffe"}

\* Power of an energy's rails in a reading.
PowerOf(q, r) ==
    CASE q = "system" -> SystemPower(r)
      [] q = "gpu"    -> r["gpu_power"]
      [] q = "board"  -> r["board_power"]
      [] q = "mem"    -> r["mem_power"]

\* What a step of d ticks adds: twice the area of the trapezoid in fJ, and the
\* area of the rectangle.
Area(s, r, d) ==
    [energy |-> [q \in Energies |->
                    (PowerOf(q, s.last) + PowerOf(q, r)) * d * PICO_PER_FEMTO],
     psum |-> [c \in Rates |-> r[c] * d]]

Plus(a, b) ==
    [energy |-> [q \in Energies |-> a.energy[q] + b.energy[q]],
     psum |-> [c \in Rates |-> a.psum[c] + b.psum[c]]]

\* One sample of rawdata, d ticks after the one before.
Sample(r, d) ==
    LET p == [timestamp |-> ToTimespec(clock + d), reading |-> r]
    IN  /\ samples < MaxSamples
        /\ samples' = samples + 1
        /\ clock' = clock + d
        /\ backwards' = (backwards \/ d < 0)
        /\ summary' = [n \in Names |-> IF n \in Open
                                       THEN UpdateSummary(summary[n], p)
                                       ELSE summary[n]]
        /\ exact' = [n \in Names |->
                        IF n \in Open /\ summary[n].num_powerlog > 0
                        THEN Plus(exact[n], Area(summary[n], r, d))
                        ELSE exact[n]]
        /\ window' = [n \in Names |-> IF n \in Open THEN window[n] \cup {r}
                                                     ELSE window[n]]
        /\ UNCHANGED <<phase, ended, batchTime, staleTime>>

\* An event opens or closes the CNN's window.
CnnEvent ==
    /\ \/ phase = "before" /\ phase' = "cnn"
       \/ phase = "cnn" /\ phase' = "after"
    /\ UNCHANGED <<summary, clock, samples, ended, historyVars>>

\* A batch ends: its summary is printed and initialized for the next one.
BatchFinish ==
    LET s == summary["batch"]
    IN  /\ phase # "before"
        /\ ended < MaxBatches
        /\ ended' = ended + 1
        /\ summary' = [summary EXCEPT !["batch"] = InitSummary(s)]
        /\ IF s.num_powerlog > 0
           THEN batchTime' = batchTime + Runtime(s) /\ UNCHANGED staleTime
           ELSE staleTime' = staleTime + Runtime(s) /\ UNCHANGED batchTime
        /\ exact' = [exact EXCEPT !["batch"] = Nothing]
        /\ window' = [window EXCEPT !["batch"] = {}]
        /\ UNCHANGED <<phase, clock, samples, backwards>>

Next ==
    \/ \E r \in Readings, d \in Steps : Sample(r, d)
    \/ CnnEvent
    \/ BatchFinish

Spec == Init /\ [][Next]_vars

-----------------------------------------------------------------------------
(* Properties. *)

Summaries ==
    [num_powerlog : Nat, start : Timespec, finish : Timespec,
     last : [Columns -> Nat], max : [Ranged -> Int], min : [Ranged -> Int],
     energy : [Energies -> Digits], psum : [Rates -> Timespec]]

\* Types; a timestamp's nanoseconds stay below a second.
TypeOK ==
    /\ summary \in [Names -> Summaries]
    /\ \A n \in Names : /\ summary[n].start.nsec \in 0 .. ONE_PER_NANO - 1
                        /\ summary[n].finish.nsec \in 0 .. ONE_PER_NANO - 1
    /\ phase \in {"before", "cnn", "after"}
    /\ clock \in Int
    /\ samples \in 0 .. MaxSamples /\ ended \in 0 .. MaxBatches
    /\ exact \in [Names -> [energy : [Energies -> Int], psum : [Rates -> Int]]]
    /\ window \in [Names -> SUBSET [Columns -> Nat]]
    /\ batchTime \in Int /\ staleTime \in Int
    /\ backwards \in BOOLEAN

\* An energy in fJ: what its five digits stand for.
Value(e) ==
    (((e.J * ONE_PER_MILLI + e.mJ) * MILLI_PER_MICRO + e.uJ) * MICRO_PER_PICO
        + e.pJ) * PICO_PER_FEMTO + e.fJ

\* No energy is lost or gained in the integer divisions and the carries: every
\* summary holds the trapezoids between its samples exactly, to the fJ, even
\* when the wall clock was set back between two samples.
EnergyIsExact ==
    \A n \in Names, q \in Energies :
        2 * Value(summary[n].energy[q]) = exact[n].energy[q]

\* The sums of rectangles are exact too, and their fraction is below one.
PsumIsExact ==
    \A n \in Names, c \in Rates :
        /\ Ticks(summary[n].psum[c]) = exact[n].psum[c]
        /\ summary[n].psum[c].nsec \in 0 .. ONE_PER_NANO - 1

\* Each digit has the places the statistics give it.
Fits(e) ==
    /\ e.J >= 0
    /\ e.mJ \in 0 .. ONE_PER_MILLI - 1
    /\ e.uJ \in 0 .. MILLI_PER_MICRO - 1
    /\ e.pJ \in 0 .. MICRO_PER_PICO - 1
    /\ e.fJ \in 0 .. PICO_PER_FEMTO - 1

\* As long as the clock only goes forward the digits of every energy, printed
\* one after the other, are its decimal representation.
DigitsFit ==
    ~backwards => \A n \in Names, q \in Energies : Fits(summary[n].energy[q])

\* The extremes printed for a summary are those of its own samples, not of
\* earlier batches, and the initial values survive only in an empty one.
ExtremesOfWindow ==
    \A n \in Names, c \in Ranged :
        IF window[n] = {}
        THEN summary[n].max[c] = INIT_MAX /\ summary[n].min[c] = INIT_MIN(c)
        ELSE /\ \E r \in window[n] : r[c] = summary[n].max[c]
             /\ \E r \in window[n] : r[c] = summary[n].min[c]
             /\ \A r \in window[n] : r[c] \in summary[n].min[c] .. summary[n].max[c]

\* The batches that had samples do not overlap: together with the current one
\* they took no longer than the inference they are part of.
BatchesWithinCnn ==
    ~backwards =>
        batchTime + (IF summary["batch"].num_powerlog > 0
                     THEN Runtime(summary["batch"]) ELSE 0)
            <= Runtime(summary["cnn"])

\* power_measurement.c:628 calls what follows a batch's end "New batch
\* summary".  If no sample falls into the new batch, it is printed with the
\* runtime of the one before it.
NewBatchIsNew == ~backwards => staleTime = 0
=============================================================================
