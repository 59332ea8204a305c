--------------------------- MODULE MeasureRawdata ---------------------------
(***************************************************************************)
(* The measurement loop of the parent process, measure_rawdata() in        *)
(* rawdata.c, together with what it waits for: the child that sleeps and   *)
(* then runs Caffe, the wall clock (CLOCK_REALTIME) and nanosleep().       *)
(*                                                                         *)
(* The loop polls the child with waitpid(WNOHANG).  Once the child is      *)
(* gone, every iteration charges the wall-clock time since the previous    *)
(* clock reading to cooldown_remain, brings the result back to a proper    *)
(* timespec with two while loops, and stops when it is below zero.         *)
(*                                                                         *)
(* Time is counted in ticks, NS ticks to a second (the code's NS is 10^9). *)
(* `now' is the time that really passes; the wall clock shows              *)
(* now + offset, and whoever sets the clock changes offset.  The two       *)
(* differences of clock readings pass through variables of type `int'.     *)
(***************************************************************************)
EXTENDS Integers

CONSTANTS
    NS,          \* ticks per second: ONE_SECOND_TO_NANOSECOND
    Cooldown,    \* seconds in info.cooldown_period
    Intervals,   \* ticks info.powertool_interval may have: -i is not checked
    IntSpan,     \* the number of values of an `int': 2^32
    CaffeSleep,  \* ticks in info.caffe_sleep_request
    MaxWork,     \* bound: ticks one iteration spends outside nanosleep()
    MaxLate,     \* bound: ticks by which nanosleep() may oversleep
    MaxRun,      \* bound: the tick by which the child has exited
    Jumps,       \* by how much somebody may set the wall clock
    MaxJumps,    \* bound: how often
    MaxFails,    \* bound: failed calls of clock_gettime()
    MaxInterrupts, \* bound: signals that interrupt a nanosleep()
    Garbage,     \* timespecs an uninitialized local may hold
    MayFail      \* whether fork() may fail

ASSUME TimeAssumption ==
    /\ NS \in Nat \ {0}
    /\ Cooldown \in Nat
    /\ Intervals \subseteq Int
    /\ CaffeSleep \in Nat
    /\ {MaxWork, MaxLate, MaxRun, MaxJumps, MaxFails, MaxInterrupts}
         \subseteq Nat
    /\ Jumps \subseteq Int
    /\ Garbage \subseteq [sec : Int, nsec : Int]
    /\ MayFail \in BOOLEAN

\* An int holds the nanoseconds of a second and the seconds of an iteration,
\* of which -i gives at most 2^31 microseconds.
ASSUME IntAssumption ==
    /\ IntSpan \in Nat
    /\ NS <= IntSpan \div 2
    /\ \A i \in Intervals :
         2 * MaxWork + (MaxInterrupts + 1) * (i + MaxLate)
           <= ((IntSpan \div 2) - 1) * NS

VARIABLES
    pc,               \* where the parent is in the loop
    child,            \* "running", "exited" (a zombie) or "none"
    flag_childexit,
    prev_time, curr_time, cooldown_remain,
    now, offset,      \* elapsed time, wall clock minus elapsed time
    work,             \* ticks this iteration has spent outside nanosleep()
    wake,             \* when the current nanosleep() is due
    interval,         \* info.powertool_interval, in ticks
    jumps, fails, interrupts,  \* uses of the bounds
    measured,         \* history: a clock reading preceded the exit's notice
    base,             \* history: what prev_time got when the exit was noticed
    exitAt,           \* history: when the child exited
    begun,            \* history: when the current iteration began
    wide              \* history: a charged difference did not fit an int

loopVars  == <<flag_childexit, prev_time, curr_time, cooldown_remain>>
timeVars  == <<now, offset, work, wake, jumps>>
callVars == <<interval, fails, interrupts>>
historyVars == <<measured, base, exitAt, begun, wide>>
vars == <<pc, child, loopVars, timeVars, callVars, historyVars>>

Timespec == [sec : Int, nsec : Int]

\* The number of ticks a timespec stands for, normalized or not.
Ticks(t) == t.sec * NS + t.nsec

\* The timespec clock_gettime() fills in for a time given in ticks.
ToTimespec(n) == [sec |-> n \div NS, nsec |-> n % NS]

Normalized(t) == t.nsec \in 0 .. NS - 1

\* What an int is left with when it is assigned a wider integer, and those
\* it is left with unchanged.
ToInt(n) == ((n + IntSpan \div 2) % IntSpan) - (IntSpan \div 2)

FitsInt(n) == n \in 0 - (IntSpan \div 2) .. (IntSpan \div 2) - 1

Init ==
    /\ pc = "poll"
    /\ child \in {"running"} \cup (IF MayFail THEN {"none"} ELSE {})
    /\ flag_childexit = FALSE
    /\ prev_time \in Garbage
    /\ curr_time \in Garbage
    /\ cooldown_remain = [sec |-> Cooldown, nsec |-> 0]
    /\ interval \in Intervals
    /\ now = 0 /\ offset = 0 /\ work = 0 /\ wake = 0
    /\ jumps = 0 /\ fails = 0 /\ interrupts = 0
    /\ measured = FALSE
    /\ base = curr_time
    /\ exitAt = 0 /\ begun = 0
    /\ wide = FALSE

-----------------------------------------------------------------------------
(* The loop. *)

\* Mutant: prev_time is saved once only, when the exit is noticed.
PollSavesOnce ==
    /\ pc = "poll"
    /\ flag_childexit' = (flag_childexit \/ child # "running")
    /\ child' = IF child = "exited" THEN "none" ELSE child
    /\ prev_time' = IF flag_childexit' /\ ~flag_childexit
                    THEN curr_time ELSE prev_time
    /\ base' = IF flag_childexit' /\ ~flag_childexit THEN curr_time ELSE base
    /\ pc' = "read"
    /\ UNCHANGED <<curr_time, cooldown_remain, timeVars, callVars,
                   measured, exitAt, begun, wide>>

\* waitpid() answers 0 only while the child runs; a zombie is reaped, and a
\* pid without a child is the error -1, which the code takes for an exit too.
\* prev_time is saved from the second the exit is known.
Poll ==
    /\ pc = "poll"
    /\ flag_childexit' = (flag_childexit \/ child # "running")
    /\ child' = IF child = "exited" THEN "none" ELSE child
    /\ prev_time' = IF flag_childexit' THEN curr_time ELSE prev_time
    /\ base' = IF flag_childexit' /\ ~flag_childexit THEN curr_time ELSE base
    /\ pc' = "read"
    /\ UNCHANGED <<curr_time, cooldown_remain, timeVars, callVars,
                   measured, exitAt, begun, wide>>

ReadClock ==
    /\ pc = "read"
    /\ curr_time' = ToTimespec(now + offset)
    /\ measured' = (measured \/ ~flag_childexit)
    /\ pc' = IF flag_childexit THEN "charge" ELSE "sample"
    /\ UNCHANGED <<child, flag_childexit, prev_time, cooldown_remain, timeVars,
                   callVars, base, exitAt, begun, wide>>

\* clock_gettime() fails: the iteration starts over, without a sleep.
ReadClockFails ==
    /\ pc = "read"
    /\ fails < MaxFails
    /\ fails' = fails + 1
    /\ work' = 0
    /\ begun' = now
    /\ pc' = "poll"
    /\ UNCHANGED <<child, loopVars, now, offset, wake, jumps, interval,
                   interrupts, measured, base, exitAt, wide>>

\* The differences of seconds and of nanoseconds, both of 64 bits, are stored
\* in ints and subtracted separately.
Charge ==
    /\ pc = "charge"
    /\ LET diff_sec == curr_time.sec - prev_time.sec
           diff_ns  == curr_time.nsec - prev_time.nsec
       IN  /\ cooldown_remain' =
                [sec  |-> cooldown_remain.sec - ToInt(diff_sec),
                 nsec |-> cooldown_remain.nsec - ToInt(diff_ns)]
           /\ wide' = (wide \/ ~FitsInt(diff_sec) \/ ~FitsInt(diff_ns))
    /\ pc' = "carry"
    /\ UNCHANGED <<child, flag_childexit, prev_time, curr_time, timeVars,
                   callVars, measured, base, exitAt, begun>>

\* One round of the first while loop ...
Carry ==
    /\ pc = "carry"
    /\ cooldown_remain.nsec >= NS
    /\ cooldown_remain' = [sec  |-> cooldown_remain.sec + 1,
                           nsec |-> cooldown_remain.nsec - NS]
    /\ UNCHANGED <<pc, child, flag_childexit, prev_time, curr_time, timeVars,
                   callVars, historyVars>>

\* ... and of the second, which runs when the first is over.
Borrow ==
    /\ pc = "carry"
    /\ cooldown_remain.nsec < 0
    /\ cooldown_remain' = [sec  |-> cooldown_remain.sec - 1,
                           nsec |-> cooldown_remain.nsec + NS]
    /\ UNCHANGED <<pc, child, flag_childexit, prev_time, curr_time, timeVars,
                   callVars, historyVars>>

\* Mutants: the loop ends a second early, and a second late.
DecideEarly ==
    /\ pc = "carry"
    /\ Normalized(cooldown_remain)
    /\ pc' = IF cooldown_remain.sec <= 0 THEN "closed" ELSE "sample"
    /\ UNCHANGED <<child, loopVars, timeVars, callVars, historyVars>>

DecideLate ==
    /\ pc = "carry"
    /\ Normalized(cooldown_remain)
    /\ pc' = IF cooldown_remain.sec < -1 THEN "closed" ELSE "sample"
    /\ UNCHANGED <<child, loopVars, timeVars, callVars, historyVars>>

\* Break out of the loop, and close the files, when no time is left.
Decide ==
    /\ pc = "carry"
    /\ Normalized(cooldown_remain)
    /\ pc' = IF cooldown_remain.sec < 0 THEN "closed" ELSE "sample"
    /\ UNCHANGED <<child, loopVars, timeVars, callVars, historyVars>>

\* nanosleep(&sleep_request, ...) is called.  It refuses a negative time at
\* once with EINVAL, and the loop then sleeps for what sleep_remain happens to
\* hold, or not at all if that is no time either.
RequestSleep ==
    IF interval >= 0
    THEN /\ wake' = now + interval
         /\ pc' = "sleep"
    ELSE /\ \E g \in Garbage :
              wake' = now + (IF g.sec >= 0 /\ Normalized(g) THEN Ticks(g) ELSE 0)
         /\ pc' = "rest"

\* Mutants: the loop does not sleep, and the sleep ends before it begins.
SampleWithoutSleep ==
    /\ pc = "sample"
    /\ wake' = now + interval
    /\ pc' = "poll"
    /\ UNCHANGED <<child, loopVars, now, offset, work, jumps, callVars,
                   historyVars>>

SampleSleepsBackwards ==
    /\ pc = "sample"
    /\ wake' = now - interval
    /\ pc' = "sleep"
    /\ UNCHANGED <<child, loopVars, now, offset, work, jumps, callVars,
                   historyVars>>

\* The governor picks a frequency and one frame of rawdata is written; what
\* they do to files is no concern of this module.
Sample ==
    /\ pc = "sample"
    /\ RequestSleep
    /\ UNCHANGED <<child, loopVars, now, offset, work, jumps, callVars,
                   historyVars>>

Wake ==
    /\ pc = "sleep"
    /\ now >= wake
    /\ work' = 0
    /\ begun' = now
    /\ pc' = "poll"
    /\ UNCHANGED <<child, loopVars, now, offset, wake, jumps, callVars,
                   measured, base, exitAt, wide>>

\* A signal ends the sleep early (EINTR).  The second nanosleep() sleeps for
\* the remainder, so it is due when the first one was ...
Interrupt ==
    /\ pc = "sleep"
    /\ now < wake
    /\ interrupts < MaxInterrupts
    /\ interrupts' = interrupts + 1
    /\ pc' = "rest"
    /\ UNCHANGED <<child, loopVars, timeVars, interval, fails, historyVars>>

\* Mutant: the sleep is not tried again.
RestOnce ==
    /\ pc = "rest"
    /\ now >= wake
    /\ work' = 0
    /\ begun' = now
    /\ pc' = "poll"
    /\ UNCHANGED <<child, loopVars, now, offset, wake, jumps, callVars,
                   measured, base, exitAt, wide>>

\* ... and whether it gets to its end or is interrupted as well, the whole
\* interval is slept once more.
Rest ==
    /\ pc = "rest"
    /\ \/ /\ now >= wake
          /\ interrupts' = interrupts
       \/ /\ now < wake
          /\ interrupts < MaxInterrupts
          /\ interrupts' = interrupts + 1
    /\ RequestSleep
    /\ UNCHANGED <<child, loopVars, now, offset, work, jumps, interval, fails,
                   historyVars>>

Loop == \/ Poll \/ ReadClock \/ ReadClockFails \/ Charge \/ Carry \/ Borrow
        \/ Decide \/ Sample \/ Wake \/ Interrupt \/ Rest

-----------------------------------------------------------------------------
(* What runs beside the loop. *)

Sleeping == pc \in {"sleep", "rest"}

\* The child sleeps for CaffeSleep before it executes the measured program.
ChildExit ==
    /\ child = "running"
    /\ now >= CaffeSleep
    /\ child' = "exited"
    /\ exitAt' = now
    /\ UNCHANGED <<pc, loopVars, timeVars, callVars, measured, base, begun,
                   wide>>

\* Time passes: at most MaxWork ticks of an iteration outside nanosleep(), and
\* at most MaxLate beyond the end of the sleep that was asked for.  A loop that
\* can never sleep is followed up to MaxRun.
Tick ==
    /\ pc # "closed"
    /\ child = "running" \/ interval < 0 => now < MaxRun
    /\ IF Sleeping THEN /\ now < wake + MaxLate
                        /\ work' = work
                   ELSE /\ work < MaxWork
                        /\ work' = work + 1
    /\ now' = now + 1
    /\ UNCHANGED <<pc, child, loopVars, offset, wake, jumps, callVars,
                   historyVars>>

\* CLOCK_REALTIME is set, forwards or backwards (by NTP or by hand).
SetClock ==
    /\ pc # "closed"
    /\ jumps < MaxJumps
    /\ jumps' = jumps + 1
    /\ \E d \in Jumps : offset' = offset + d
    /\ UNCHANGED <<pc, child, loopVars, now, work, wake, callVars, historyVars>>

\* The files are closed, or the bound of a loop that never sleeps is reached.
Done ==
    /\ \/ pc = "closed"
       \/ interval < 0 /\ now >= MaxRun
    /\ UNCHANGED vars

Next == Loop \/ ChildExit \/ Tick \/ SetClock \/ Done

\* The parent is scheduled, the measured program ends and time passes; the
\* clock needs not be set, clock_gettime() needs not fail and no signal needs
\* to come (each of them can only happen a bounded number of times).
Fairness == WF_vars(Loop) /\ WF_vars(ChildExit) /\ WF_vars(Tick)

Spec == Init /\ [][Next]_vars
FairSpec == Spec /\ Fairness

-----------------------------------------------------------------------------
TypeOK ==
    /\ pc \in {"poll", "read", "charge", "carry", "sample", "sleep", "rest",
               "closed"}
    /\ child \in {"running", "exited", "none"}
    /\ flag_childexit \in BOOLEAN
    /\ {prev_time, curr_time, cooldown_remain, base} \subseteq Timespec
    /\ interval \in Intervals
    /\ {now, work, wake, jumps, fails, interrupts, exitAt, begun} \subseteq Nat
    /\ offset \in Int
    /\ measured \in BOOLEAN /\ wide \in BOOLEAN

\* The interval can be slept, nobody set the clock, no reading failed, and the
\* program ran long enough for a first reading: without one the code charges
\* from an uninitialized local.
Undisturbed == interval >= 0 /\ jumps = 0 /\ fails = 0 /\ measured

\* The accounting of the cooldown: however the clock was set meanwhile, and
\* over any number of iterations, the time left is the cooldown period minus
\* the wall-clock time between the last reading before the exit was noticed and
\* the latest reading that has been charged; outside the two while loops it
\* is a proper timespec.  (rawdata.c:455-473: seconds and nanoseconds are
\* subtracted separately, so a lost carry would stay unnoticed for a while.)
\* The exception is a difference that does not fit `int diff_sec, diff_ns',
\* which takes a clock set by 68 years or an uninitialized reading.
CooldownAccounting ==
    /\ flag_childexit /\ ~wide =>
         Ticks(cooldown_remain) =
           Cooldown * NS
             - Ticks(IF pc = "charge" THEN prev_time ELSE curr_time)
             + Ticks(base)
    /\ Undisturbed => ~wide
    /\ ~flag_childexit => cooldown_remain = [sec |-> Cooldown, nsec |-> 0]
    /\ pc # "carry" => Normalized(cooldown_remain)

\* The most ticks an iteration can take: every interrupted sleep is slept to its
\* end and then once more.
IterationTicks == MaxWork + (MaxInterrupts + 1) * (interval + MaxLate)

\* The measurement covers the cooldown: when the files are closed, more than
\* the cooldown period less one iteration (and the way to its waitpid()) has
\* passed since the program ended.  (The cooldown is counted from the reading
\* taken before the exit was seen, rawdata.c:447-451.)
CoversCooldown ==
    pc = "closed" /\ Undisturbed
      => now - exitAt > Cooldown * NS - (IterationTicks + MaxWork)

\* The measurement does not go on much longer than the cooldown either: the
\* sleep is not repeated once the period is over.
EndsPromptly ==
    pc = "closed" /\ Undisturbed
      => now - exitAt <= Cooldown * NS + IterationTicks + 2 * MaxWork

\* The loop ends if its interval can be slept, whatever is done to the clock
\* and whatever signals interrupt its sleep (rawdata.c:432-499): what a debug
\* build prints behind it, "does NOT have infinite loop".
Terminates == interval >= 0 => <>(pc = "closed")

\* A negative interval, which -i takes unchecked (power_measurement.c:121-124),
\* is refused by every nanosleep(): unless the loop ends before its first sleep,
\* it stays in the retry of rawdata.c:497-498 for ever and takes no sample more.
InvalidIntervalHangs == interval < 0 => <>[](pc \in {"rest", "closed"})
=============================================================================
