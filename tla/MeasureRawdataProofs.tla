------------------------ MODULE MeasureRawdataProofs ------------------------
(***************************************************************************)
(* Proofs about the measurement loop, for every length of a second in      *)
(* ticks, every width of an int that holds one, every cooldown, interval   *)
(* and bound, and every setting of the clock: its types, the accounting of *)
(* the cooldown and the rounds of the two while loops; and, when nobody    *)
(* sets the clock, that the measurement covers the cooldown, ends promptly *)
(* and is not open for longer.                                             *)
(***************************************************************************)
EXTENDS MeasureRawdata, TLAPS

-----------------------------------------------------------------------------
(* Timespec arithmetic. *)

\* The timespec of a number of ticks is normalized and stands for that number.
LEMMA ToTimespecTicks ==
  ASSUME NEW n \in Int
  PROVE  /\ ToTimespec(n) \in Timespec
         /\ Normalized(ToTimespec(n))
         /\ Ticks(ToTimespec(n)) = n
BY TimeAssumption DEF ToTimespec, Timespec, Normalized, Ticks

\* Ticks are integers, whatever the fields.
LEMMA TicksType ==
  ASSUME NEW t \in Timespec PROVE Ticks(t) \in Int
BY TimeAssumption DEF Timespec, Ticks

\* The assignment to an int keeps what fits, and always leaves an integer.
LEMMA ToIntKeeps ==
  ASSUME NEW n \in Int
  PROVE  /\ ToInt(n) \in Int
         /\ FitsInt(n) => ToInt(n) = n
<1> DEFINE K == IntSpan
           H == IntSpan \div 2
           m == n + H
<1>1. K \in Nat \ {0} /\ H \in Nat /\ 2 * H <= K
  BY TimeAssumption, IntAssumption
<1>2. m \in Int /\ m % K \in 0 .. K - 1 /\ m = K * (m \div K) + (m % K) /\ m \div K \in Int
  <2>1. m \in Int
    BY <1>1
  <2> HIDE DEF K, H, m
  <2> QED BY <1>1, <2>1
<1>3. ToInt(n) = (m % K) - H
  BY DEF ToInt
<1>4. FitsInt(n) => m \in 0 .. 2 * H - 1
  BY <1>1 DEF FitsInt
<1>5. m \in 0 .. 2 * H - 1 => m % K = m
  <2> HIDE DEF K, H, m
  <2> SUFFICES ASSUME m \in 0 .. 2 * H - 1 PROVE m % K = m
    OBVIOUS
  <2> DEFINE q == m \div K
             d == m % K
  <2>1. q \in Int /\ d \in 0 .. K - 1 /\ m = K * q + d
    BY <1>2
  <2>2. m \in 0 .. K - 1
    BY <1>1
  <2> HIDE DEF q, d
  <2>3. CASE q >= 1
    <3>1. K * q >= K
      BY <1>1, <2>1, <2>3
    <3> QED BY <1>1, <2>1, <2>2, <3>1
  <2>4. CASE q <= 0 - 1
    <3>1. K * q <= 0 - K
      BY <1>1, <2>1, <2>4
    <3> QED BY <1>1, <2>1, <2>2, <3>1
  <2>5. CASE q = 0
    BY <1>1, <2>1, <2>5 DEF d
  <2> QED BY <2>1, <2>3, <2>4, <2>5
<1>6. n = m - H
  BY <1>1
<1> HIDE DEF K, H, m
<1> QED BY <1>1, <1>2, <1>3, <1>4, <1>5, <1>6

\* Subtracting field by field through ints, as the code does, subtracts the
\* ticks, if both differences fit.
LEMMA ChargeTicks ==
  ASSUME NEW r \in Timespec, NEW c \in Timespec, NEW p \in Timespec,
         NEW s \in Timespec,
         s = [sec  |-> r.sec - ToInt(c.sec - p.sec),
              nsec |-> r.nsec - ToInt(c.nsec - p.nsec)],
         FitsInt(c.sec - p.sec), FitsInt(c.nsec - p.nsec)
  PROVE  Ticks(s) = Ticks(r) - Ticks(c) + Ticks(p)
<1>1. /\ r.sec \in Int /\ c.sec \in Int /\ p.sec \in Int
      /\ r.nsec \in Int /\ c.nsec \in Int /\ p.nsec \in Int /\ NS \in Int
  BY TimeAssumption DEF Timespec
<1>2. (r.sec - (c.sec - p.sec)) * NS = r.sec * NS - c.sec * NS + p.sec * NS
  BY <1>1
<1>3. s = [sec |-> r.sec - (c.sec - p.sec), nsec |-> r.nsec - (c.nsec - p.nsec)]
  BY <1>1, ToIntKeeps
<1> QED BY <1>1, <1>2, <1>3 DEF Ticks

\* The nanoseconds of two readings differ by what an int holds, and so do their
\* seconds if no more lies between them than an iteration and its work.
LEMMA ReadingsFit ==
  ASSUME NEW c \in Timespec, NEW p \in Timespec, Normalized(c), Normalized(p)
  PROVE  /\ FitsInt(c.nsec - p.nsec)
         /\ \A d \in Nat :
              /\ d <= ((IntSpan \div 2) - 1) * NS
              /\ Ticks(c) - Ticks(p) <= d /\ Ticks(p) - Ticks(c) <= d
              => FitsInt(c.sec - p.sec)
<1> DEFINE H == IntSpan \div 2
           x == c.sec - p.sec
           y == c.nsec - p.nsec
<1>1. /\ H \in Nat /\ NS \in Nat \ {0} /\ NS <= H /\ x \in Int /\ y \in Int
      /\ y \in 0 - NS + 1 .. NS - 1
  BY TimeAssumption, IntAssumption DEF Timespec, Normalized
<1>2. Ticks(c) - Ticks(p) = x * NS + y
  <2>1. c.sec \in Int /\ p.sec \in Int /\ c.nsec \in Int /\ p.nsec \in Int /\ NS \in Int
    BY TimeAssumption DEF Timespec
  <2>2. (c.sec - p.sec) * NS = c.sec * NS - p.sec * NS
    BY <2>1
  <2> QED BY <2>1, <2>2 DEF Ticks
<1>3. FitsInt(x) <=> x \in 0 - H .. H - 1
  BY DEF FitsInt
<1>4. FitsInt(y) <=> y \in 0 - H .. H - 1
  BY DEF FitsInt
<1>5. Ticks(c) \in Int /\ Ticks(p) \in Int
  BY TicksType
<1>6. ASSUME NEW d \in Nat, d <= (H - 1) * NS,
             Ticks(c) - Ticks(p) <= d, Ticks(p) - Ticks(c) <= d
      PROVE  FitsInt(x)
  <2> HIDE DEF H, x, y
  <2>1. CASE x >= H
    <3>1. x * NS >= H * NS /\ (H - 1) * NS = H * NS - NS
      BY <1>1, <2>1
    <3>2. x * NS \in Int /\ H * NS \in Int
      BY <1>1
    <3> QED BY <1>1, <1>2, <1>5, <1>6, <3>1, <3>2
  <2>2. CASE x <= 0 - H - 1
    <3>1. x * NS <= (0 - H - 1) * NS /\ (0 - H - 1) * NS = 0 - H * NS - NS /\ (H - 1) * NS = H * NS - NS
      BY <1>1, <2>2
    <3>2. x * NS \in Int /\ H * NS \in Int
      BY <1>1
    <3> QED BY <1>1, <1>2, <1>5, <1>6, <3>1, <3>2
  <2> QED BY <1>1, <1>3, <2>1, <2>2
<1>7. FitsInt(y)
  <2> HIDE DEF H, x, y
  <2> QED BY <1>1, <1>4
<1> QED BY <1>6, <1>7

\* A round of either while loop moves a second and keeps the ticks.
LEMMA CarryTicks ==
  ASSUME NEW r \in Timespec
  PROVE  /\ Ticks([sec |-> r.sec + 1, nsec |-> r.nsec - NS]) = Ticks(r)
         /\ Ticks([sec |-> r.sec - 1, nsec |-> r.nsec + NS]) = Ticks(r)
<1>1. r.sec \in Int /\ r.nsec \in Int /\ NS \in Int
  BY TimeAssumption DEF Timespec
<1>2. (r.sec + 1) * NS = r.sec * NS + NS /\ (r.sec - 1) * NS = r.sec * NS - NS
  BY <1>1
<1> QED BY <1>1, <1>2 DEF Ticks

\* A normalized timespec with negative seconds is less than zero ticks.
LEMMA NegativeTicks ==
  ASSUME NEW r \in Timespec, Normalized(r), r.sec < 0
  PROVE  Ticks(r) < 0
<1>1. r.sec \in Int /\ r.nsec \in 0 .. NS - 1 /\ NS \in Nat \ {0}
  BY TimeAssumption DEF Timespec, Normalized
<1>2. r.sec * NS <= (0-1) * NS
  BY <1>1
<1> QED BY <1>1, <1>2 DEF Ticks

-----------------------------------------------------------------------------
(* Types. *)

LEMMA TypeInit == Init => TypeOK
<1> SUFFICES ASSUME Init PROVE TypeOK
  OBVIOUS
<1>1. {prev_time, curr_time, base} \subseteq Timespec
  BY TimeAssumption DEF Init, Timespec
<1>2. cooldown_remain \in Timespec
  BY TimeAssumption DEF Init, Timespec
<1>3. child \in {"running", "none"}
  BY DEF Init
<1>4. /\ {now, work, wake, jumps, fails, interrupts, exitAt, begun} \subseteq Nat
      /\ offset \in Int /\ interval \in Intervals
  BY DEF Init
<1>5. /\ pc \in {"poll", "read", "charge", "carry", "sample", "sleep", "rest", "closed"}
      /\ flag_childexit \in BOOLEAN /\ measured \in BOOLEAN /\ wide \in BOOLEAN
  BY DEF Init
<1> QED BY <1>1, <1>2, <1>3, <1>4, <1>5 DEF TypeOK

\* What nanosleep() is asked for is due now or later.
LEMMA RequestType ==
  ASSUME TypeOK, RequestSleep
  PROVE  wake' \in Nat /\ pc' \in {"sleep", "rest"}
<1>1. now \in Nat /\ interval \in Int
  BY TimeAssumption DEF TypeOK
<1>2. CASE interval >= 0
  BY <1>1, <1>2 DEF RequestSleep
<1>3. CASE ~(interval >= 0)
  <2>1. PICK g \in Garbage :
          wake' = now + (IF g.sec >= 0 /\ Normalized(g) THEN Ticks(g) ELSE 0)
    BY <1>3 DEF RequestSleep
  <2>2. g.sec \in Int /\ g.nsec \in Int /\ NS \in Nat \ {0}
    BY TimeAssumption
  <2>3. g.sec >= 0 /\ Normalized(g) => Ticks(g) \in Nat
    <3> SUFFICES ASSUME g.sec >= 0, Normalized(g) PROVE Ticks(g) \in Nat
      OBVIOUS
    <3>1. g.sec * NS \in Nat
      BY <2>2
    <3> QED BY <2>2, <3>1 DEF Ticks, Normalized
  <2>4. pc' = "rest"
    BY <1>3 DEF RequestSleep
  <2> QED BY <1>1, <2>1, <2>3, <2>4
<1> QED BY <1>2, <1>3

\* Every variable keeps its type, however the clock is set and whatever the
\* uninitialized locals hold: elapsed times and counters are never negative,
\* and both fields of every time stay integers (rawdata.c:428-499).
THEOREM TypeCorrect == Spec => []TypeOK
<1>1. Init => TypeOK
  BY TypeInit
<1>2. TypeOK /\ [Next]_vars => TypeOK'
  <2> SUFFICES ASSUME TypeOK, [Next]_vars PROVE TypeOK'
    OBVIOUS
  <2> USE DEF TypeOK, loopVars, timeVars, callVars, historyVars
  <2>1. CASE Poll
    BY <2>1 DEF Poll
  <2>2. CASE ReadClock
    BY <2>2, ToTimespecTicks DEF ReadClock
  <2>3. CASE ReadClockFails
    BY <2>3 DEF ReadClockFails
  <2>4. CASE Charge
    <3>1. /\ ToInt(curr_time.sec - prev_time.sec) \in Int
          /\ ToInt(curr_time.nsec - prev_time.nsec) \in Int
      BY ToIntKeeps DEF Timespec
    <3>2. cooldown_remain' \in Timespec
      BY <2>4, <3>1 DEF Charge, Timespec
    <3>3. wide' \in BOOLEAN
      BY <2>4 DEF Charge
    <3> QED BY <2>4, <3>2, <3>3 DEF Charge
  <2>5. CASE Carry
    BY <2>5, TimeAssumption DEF Carry, Timespec
  <2>6. CASE Borrow
    BY <2>6, TimeAssumption DEF Borrow, Timespec
  <2>7. CASE Decide
    BY <2>7 DEF Decide
  <2>8. CASE Sample
    BY <2>8, RequestType DEF Sample
  <2>9. CASE Wake
    BY <2>9 DEF Wake
  <2>14. CASE Interrupt
    BY <2>14 DEF Interrupt
  <2>15. CASE Rest
    <3>1. wake' \in Nat /\ pc' \in {"sleep", "rest"}
      BY <2>15, RequestType DEF Rest
    <3>2. interrupts' \in Nat
      BY <2>15 DEF Rest
    <3> QED BY <2>15, <3>1, <3>2 DEF Rest
  <2>10. CASE ChildExit
    BY <2>10 DEF ChildExit
  <2>11. CASE Tick
    BY <2>11 DEF Tick, Sleeping
  <2>12. CASE SetClock
    BY <2>12, TimeAssumption DEF SetClock
  <2>13. CASE UNCHANGED vars
    BY <2>13 DEF vars
  <2> QED
    BY <2>1, <2>2, <2>3, <2>4, <2>5, <2>6, <2>7, <2>8, <2>9, <2>10, <2>11,
       <2>12, <2>13, <2>14, <2>15 DEF Next, Loop, Done
<1> QED BY <1>1, <1>2, PTL DEF Spec

-----------------------------------------------------------------------------
(* The accounting of the cooldown.  It is inductive together with the types *)
(* and with this: only an iteration that knows of the exit charges, and so  *)
(* can lose something, and such an iteration has saved the last reading.    *)

ChargesAfterExit ==
  /\ pc \in {"charge", "carry", "closed"} => flag_childexit
  /\ pc = "read" /\ flag_childexit => prev_time = curr_time
  /\ wide => flag_childexit

Accounted ==
  /\ flag_childexit /\ ~wide =>
       Ticks(cooldown_remain) =
         Cooldown * NS
           - Ticks(IF pc = "charge" THEN prev_time ELSE curr_time)
           + Ticks(base)
  /\ ~flag_childexit => cooldown_remain = [sec |-> Cooldown, nsec |-> 0]
  /\ pc # "carry" => Normalized(cooldown_remain)

AccountingInv == TypeOK /\ Accounted /\ ChargesAfterExit

\* A charge without a loss is exact.
LEMMA ChargedExactly ==
  ASSUME TypeOK, TypeOK', Charge, ~wide'
  PROVE  ~wide /\ Ticks(cooldown_remain') =
           Ticks(cooldown_remain) - Ticks(curr_time) + Ticks(prev_time)
<1>1. /\ ~wide
      /\ FitsInt(curr_time.sec - prev_time.sec) /\ FitsInt(curr_time.nsec - prev_time.nsec)
  BY DEF Charge
<1>2. cooldown_remain' =
        [sec  |-> cooldown_remain.sec - ToInt(curr_time.sec - prev_time.sec),
         nsec |-> cooldown_remain.nsec - ToInt(curr_time.nsec - prev_time.nsec)]
  BY DEF Charge
<1>3. {cooldown_remain, cooldown_remain', curr_time, prev_time} \subseteq Timespec
  BY DEF TypeOK
<1> QED BY <1>1, <1>2, <1>3, ChargeTicks

LEMMA AccountingInit == Init => AccountingInv
<1> SUFFICES ASSUME Init PROVE AccountingInv
  OBVIOUS
<1>1. TypeOK
  BY TypeInit
<1>2. Accounted
  BY TimeAssumption DEF Init, Accounted, Normalized
<1>3. ChargesAfterExit
  BY DEF Init, ChargesAfterExit
<1> QED BY <1>1, <1>2, <1>3 DEF AccountingInv

LEMMA AccountingStep ==
  AccountingInv /\ TypeOK' /\ [Next]_vars => AccountingInv'
<1> SUFFICES ASSUME AccountingInv, TypeOK', [Next]_vars
             PROVE  Accounted' /\ ChargesAfterExit'
  BY DEF AccountingInv
<1> USE DEF AccountingInv, TypeOK, ChargesAfterExit, loopVars, timeVars,
            callVars, historyVars
<1>0. /\ Ticks(base) \in Int /\ Ticks(prev_time) \in Int
      /\ Ticks(curr_time) \in Int /\ Ticks(cooldown_remain) \in Int
      /\ NS \in Nat \ {0} /\ Cooldown \in Nat
      /\ Cooldown * NS \in Int
      /\ Ticks([sec |-> Cooldown, nsec |-> 0]) = Cooldown * NS
  BY TicksType, TimeAssumption DEF Ticks
<1>1. CASE Poll
  <2>1. CASE flag_childexit
    BY <1>0, <1>1, <2>1 DEF Poll, Accounted, Normalized
  <2>2. CASE ~flag_childexit
    BY <1>0, <1>1, <2>2 DEF Poll, Accounted, Normalized
  <2> QED BY <2>1, <2>2
<1>2. CASE ReadClock
  BY <1>0, <1>2 DEF ReadClock, Accounted, Normalized
<1>3. CASE ReadClockFails
  BY <1>0, <1>3 DEF ReadClockFails, Accounted, Normalized
<1>4. CASE Charge
  <2>1. ASSUME ~wide'
        PROVE  ~wide /\ Ticks(cooldown_remain') =
                 Ticks(cooldown_remain) - Ticks(curr_time) + Ticks(prev_time)
    BY <1>4, <2>1, ChargedExactly DEF AccountingInv
  <2>2. pc = "charge" /\ pc' = "carry" /\ flag_childexit
    BY <1>4 DEF Charge
  <2>3. UNCHANGED <<flag_childexit, prev_time, curr_time, base>>
    BY <1>4 DEF Charge
  <2> QED BY <1>0, <2>1, <2>2, <2>3 DEF Accounted
<1>5. CASE Carry
  <2>1. Ticks(cooldown_remain') = Ticks(cooldown_remain)
    BY <1>5, CarryTicks DEF Carry
  <2> QED BY <1>0, <1>5, <2>1 DEF Carry, Accounted
<1>6. CASE Borrow
  <2>1. Ticks(cooldown_remain') = Ticks(cooldown_remain)
    BY <1>6, CarryTicks DEF Borrow
  <2> QED BY <1>0, <1>6, <2>1 DEF Borrow, Accounted
<1>7. CASE Decide
  BY <1>0, <1>7 DEF Decide, Accounted, Normalized
<1>8. CASE Sample
  <2>1. pc' \in {"sleep", "rest"}
    BY <1>8, RequestType DEF Sample
  <2> QED BY <1>0, <1>8, <2>1 DEF Sample, Accounted, Normalized
<1>9. CASE Wake
  BY <1>0, <1>9 DEF Wake, Accounted, Normalized
<1>14. CASE Interrupt
  BY <1>0, <1>14 DEF Interrupt, Accounted, Normalized
<1>15. CASE Rest
  <2>1. pc' \in {"sleep", "rest"}
    BY <1>15, RequestType DEF Rest
  <2> QED BY <1>0, <1>15, <2>1 DEF Rest, Accounted, Normalized
<1>10. CASE ChildExit
  BY <1>0, <1>10 DEF ChildExit, Accounted, Normalized
<1>11. CASE Tick
  BY <1>0, <1>11 DEF Tick, Accounted, Normalized
<1>12. CASE SetClock
  BY <1>0, <1>12 DEF SetClock, Accounted, Normalized
<1>13. CASE UNCHANGED vars
  BY <1>0, <1>13 DEF vars, Accounted, Normalized
<1> QED
  BY <1>1, <1>2, <1>3, <1>4, <1>5, <1>6, <1>7, <1>8, <1>9, <1>10, <1>11,
     <1>12, <1>13, <1>14, <1>15 DEF Next, Loop, Done

-----------------------------------------------------------------------------
(* The two while loops.  The nanoseconds of two readings always differ by    *)
(* less than a second, whatever was done to the clock; only those of an      *)
(* uninitialized local may not.                                              *)

\* What keeps the while loops going: the nanoseconds that are not in a second.
Excess ==
  IF cooldown_remain.nsec >= NS THEN cooldown_remain.nsec
  ELSE IF cooldown_remain.nsec < 0 THEN 0 - cooldown_remain.nsec
  ELSE 0

WhileLoopsEnd ==
  [][Carry \/ Borrow =>
       /\ Excess' \in Nat /\ Excess' < Excess
       /\ measured => Normalized(cooldown_remain')]_vars

\* With a reading before the exit was noticed only readings are charged, and a
\* difference of two leaves less than a second over, or lacks less than one.
ReadingsOnly ==
  measured =>
    /\ Normalized(curr_time)
    /\ pc \in {"charge", "carry"} => Normalized(prev_time)
    /\ pc = "carry" => cooldown_remain.nsec \in 0 - NS .. 2 * NS - 1
    /\ ~flag_childexit => pc \notin {"charge", "carry"}

RoundInv == AccountingInv /\ ReadingsOnly

LEMMA RoundInit == Init => RoundInv
BY AccountingInit DEF RoundInv, ReadingsOnly, Init

LEMMA RoundStep ==
  ASSUME RoundInv, AccountingInv', [Next]_vars
  PROVE  RoundInv'
<1> SUFFICES ReadingsOnly'
  BY DEF RoundInv
<1> USE DEF RoundInv, AccountingInv, TypeOK, Timespec, ReadingsOnly, Normalized,
            ChargesAfterExit, loopVars, timeVars, callVars, historyVars
<1>0. NS \in Nat \ {0}
  BY TimeAssumption
<1>1. CASE Poll
  BY <1>1 DEF Poll
<1>2. CASE ReadClock
  <2>1. Normalized(curr_time')
    BY <1>2, ToTimespecTicks DEF ReadClock
  <2>2. CASE flag_childexit
    BY <1>2, <2>1, <2>2 DEF ReadClock
  <2>3. CASE ~flag_childexit
    BY <1>2, <2>1, <2>3 DEF ReadClock
  <2> QED BY <2>2, <2>3
<1>3. CASE ReadClockFails
  BY <1>3 DEF ReadClockFails
<1>4. CASE Charge
  <2>1. measured' => Normalized(curr_time') /\ Normalized(prev_time') /\ flag_childexit'
    BY <1>4 DEF Charge
  <2>2. pc' = "carry" /\ Normalized(cooldown_remain) /\ measured' = measured
    BY <1>4 DEF Charge, Accounted
  <2>3. cooldown_remain'.nsec = cooldown_remain.nsec - ToInt(curr_time.nsec - prev_time.nsec)
    BY <1>4 DEF Charge
  <2>4. measured => /\ Normalized(curr_time) /\ Normalized(prev_time)
                    /\ ToInt(curr_time.nsec - prev_time.nsec) = curr_time.nsec - prev_time.nsec
    <3>1. measured => Normalized(curr_time) /\ Normalized(prev_time)
      BY <1>4 DEF Charge
    <3>2. curr_time \in Timespec /\ prev_time \in Timespec
      BY DEF Timespec
    <3>3. curr_time.nsec - prev_time.nsec \in Int
      BY DEF Timespec
    <3>4. measured => FitsInt(curr_time.nsec - prev_time.nsec)
      BY <3>1, <3>2, ReadingsFit DEF Normalized
    <3> QED BY <3>1, <3>3, <3>4, ToIntKeeps
  <2>5. measured' => cooldown_remain'.nsec \in 0 - NS .. 2 * NS - 1
    BY <1>0, <2>2, <2>3, <2>4
  <2> QED BY <2>1, <2>2, <2>5
<1>5. CASE Carry
  BY <1>0, <1>5 DEF Carry
<1>6. CASE Borrow
  BY <1>0, <1>6 DEF Borrow
<1>7. CASE Decide
  BY <1>7 DEF Decide
<1>8. CASE Sample
  <2>1. pc' \in {"sleep", "rest"}
    BY <1>8, RequestType DEF Sample
  <2> QED BY <1>8, <2>1 DEF Sample
<1>9. CASE Wake
  BY <1>9 DEF Wake
<1>14. CASE Interrupt
  BY <1>14 DEF Interrupt
<1>15. CASE Rest
  <2>1. pc' \in {"sleep", "rest"}
    BY <1>15, RequestType DEF Rest
  <2> QED BY <1>15, <2>1 DEF Rest
<1>10. CASE ChildExit
  BY <1>10 DEF ChildExit
<1>11. CASE Tick
  BY <1>11 DEF Tick
<1>12. CASE SetClock
  BY <1>12 DEF SetClock
<1>13. CASE UNCHANGED vars
  BY <1>13 DEF vars
<1> QED
  BY <1>1, <1>2, <1>3, <1>4, <1>5, <1>6, <1>7, <1>8, <1>9, <1>10, <1>11,
     <1>12, <1>13, <1>14, <1>15 DEF Next, Loop, Done

\* The while loops bring the time left back to a timespec, even if it was charged
\* from a local nobody set; charged from readings, one round of one of them does
\* (rawdata.c:459-470).
THEOREM WhileLoopsEndSoon == Spec => WhileLoopsEnd
<1>1. RoundInv /\ [Next]_vars =>
        (Carry \/ Borrow =>
           /\ Excess' \in Nat /\ Excess' < Excess
           /\ measured => Normalized(cooldown_remain'))
  <2> SUFFICES ASSUME RoundInv, Carry \/ Borrow
               PROVE  /\ Excess' \in Nat /\ Excess' < Excess
                      /\ measured => Normalized(cooldown_remain')
    OBVIOUS
  <2> DEFINE n == cooldown_remain.nsec
             m == cooldown_remain'.nsec
  <2>1. n \in Int /\ NS \in Nat \ {0} /\ (measured => n \in 0 - NS .. 2 * NS - 1)
    BY TimeAssumption DEF RoundInv, ReadingsOnly, AccountingInv, TypeOK, Timespec, Carry, Borrow
  <2>2. \/ n >= NS /\ m = n - NS
        \/ n < 0 /\ m = n + NS
    BY DEF Carry, Borrow
  <2>3. /\ Excess = IF n >= NS THEN n ELSE IF n < 0 THEN 0 - n ELSE 0
        /\ Excess' = IF m >= NS THEN m ELSE IF m < 0 THEN 0 - m ELSE 0
        /\ Normalized(cooldown_remain') <=> m \in 0 .. NS - 1
    BY DEF Excess, Normalized
  <2> HIDE DEF n, m
  <2> QED BY <2>1, <2>2, <2>3
<1> QED
  BY <1>1, RoundInit, RoundStep, AccountingInit, AccountingStep, TypeCorrect,
     PTL DEF Spec, WhileLoopsEnd

-----------------------------------------------------------------------------
(* The measurement covers the cooldown, if nobody sets the clock.           *)

\* The most ticks that k requests of a sleep of i ticks take.
Slept(k, i) == k * (i + MaxLate)

LEMMA SleptMore ==
  ASSUME NEW i \in Nat, NEW k \in Nat
  PROVE  /\ Slept(k, i) \in Nat
         /\ Slept(k + 1, i) = Slept(k, i) + i + MaxLate
         /\ \A n \in Nat : k <= n => Slept(k, i) <= Slept(n, i)
<1> DEFINE c == i + MaxLate
<1>1. c \in Nat /\ MaxLate \in Nat
  BY TimeAssumption
<1>2. \A n \in Nat : Slept(n, i) = n * c
  BY DEF Slept
<1> HIDE DEF c
<1>3. k * c \in Nat /\ (k + 1) * c = k * c + c
  BY <1>1
<1>4. ASSUME NEW n \in Nat, k <= n PROVE k * c <= n * c
  <2>1. PICK e \in Nat : n = k + e
    BY <1>4
  <2>2. (k + e) * c = k * c + e * c /\ e * c \in Nat
    BY <1>1
  <2> QED BY <1>3, <2>1, <2>2
<1>5. c = i + MaxLate
  BY DEF c
<1>6. Slept(k, i) = k * c /\ Slept(k + 1, i) = (k + 1) * c
  BY <1>2
<1> QED BY <1>1, <1>2, <1>3, <1>4, <1>5, <1>6

\* An iteration and its work take less than the seconds of an int.
LEMMA IterationFits ==
  ASSUME TypeOK, interval >= 0
  PROVE  /\ IterationTicks \in Nat
         /\ IterationTicks = MaxWork + Slept(MaxInterrupts + 1, interval)
         /\ IterationTicks + MaxWork <= ((IntSpan \div 2) - 1) * NS
<1>1. interval \in Nat /\ MaxWork \in Nat /\ MaxInterrupts \in Nat /\ MaxLate \in Nat
  BY TimeAssumption DEF TypeOK
<1> DEFINE t == Slept(MaxInterrupts + 1, interval)
           b == ((IntSpan \div 2) - 1) * NS
<1>2. t \in Nat
  BY <1>1, SleptMore
<1>3. IterationTicks = MaxWork + t
  BY DEF IterationTicks, Slept
<1>4. 2 * MaxWork + t <= b
  BY IntAssumption DEF TypeOK, Slept
<1>5. b \in Int
  BY TimeAssumption, IntAssumption
<1> HIDE DEF t, b
<1>6. IterationTicks + MaxWork <= b
  BY <1>1, <1>2, <1>3, <1>4, <1>5
<1> QED BY <1>1, <1>2, <1>3, <1>6 DEF t, b

\* The interval is what -i made it.
LEMMA IntervalKept == [Next]_vars => interval' = interval
BY DEF Next, Loop, Poll, ReadClock, ReadClockFails, Charge, Carry, Borrow, Decide, Sample,
       Wake, Interrupt, Rest, ChildExit, Tick, SetClock, Done, vars, callVars

\* Time within an iteration is bounded, and the program ended in the past.  An
\* interrupted sleep is due when it was, and the one after it an interval later.
Pace ==
  /\ work <= MaxWork /\ interrupts <= MaxInterrupts
  /\ ~Sleeping => now = begun + work
  /\ interval >= 0 =>
       /\ Sleeping => now <= wake + MaxLate
       /\ pc = "sleep" => wake + MaxLate <= begun + work + Slept(interrupts + 1, interval)
       /\ pc = "rest" => wake + MaxLate <= begun + work + Slept(interrupts, interval)
  /\ child # "running" => exitAt <= now
  /\ flag_childexit => child # "running"

\* Without jumps the wall clock shows the elapsed time.
Steady == jumps = 0 => offset = 0

\* How old a reading can be: taken since the current iteration began or, before
\* this iteration takes its own, one iteration earlier.  The reading the
\* cooldown counts from is no older than the way from there to waitpid().
Freshness ==
  Undisturbed =>
    /\ Ticks(curr_time) <= now
    /\ Ticks(curr_time) >= begun - (IF pc \in {"poll", "read"} THEN IterationTicks ELSE 0)
    /\ pc = "charge" => Ticks(prev_time) <= now
    /\ pc \in {"charge", "carry", "closed"} => Ticks(prev_time) >= begun - IterationTicks
    /\ flag_childexit => Ticks(base) >= exitAt - (IterationTicks + MaxWork)

\* The differences of such readings fit their ints.
NeverWide == Undisturbed => ~wide

\* The loop ended with less than no time left.
Overdrawn == pc = "closed" => Ticks(cooldown_remain) < 0

CoverInv == RoundInv /\ Pace /\ Steady /\ Freshness /\ NeverWide /\ Overdrawn

LEMMA CoverInit == Init => CoverInv
<1> SUFFICES ASSUME Init PROVE CoverInv
  OBVIOUS
<1>1. Pace /\ Steady /\ Freshness /\ NeverWide /\ Overdrawn
  BY TimeAssumption
     DEF Init, Pace, Steady, Freshness, NeverWide, Overdrawn, Undisturbed, Sleeping
<1> QED BY <1>1, RoundInit DEF CoverInv

\* A sleep of a valid interval is due an interval from now.
LEMMA RequestDue ==
  ASSUME RequestSleep, interval >= 0
  PROVE  pc' = "sleep" /\ wake' = now + interval
BY DEF RequestSleep

LEMMA PaceStep ==
  ASSUME TypeOK, TypeOK', Pace, [Next]_vars
  PROVE  Pace'
<1> DEFINE S(k) == Slept(k, interval)
<1>0. /\ MaxWork \in Nat /\ MaxLate \in Nat /\ MaxInterrupts \in Nat
      /\ interval' = interval /\ interval \in Int
      /\ now \in Nat /\ begun \in Nat /\ work \in Nat /\ wake \in Nat /\ interrupts \in Nat
      /\ exitAt \in Nat
  BY TimeAssumption, IntervalKept DEF TypeOK
<1>1. interval >= 0 =>
        /\ S(interrupts) \in Nat
        /\ S(interrupts + 1) = S(interrupts) + interval + MaxLate
  BY <1>0, SleptMore
<1> HIDE DEF S
<1>2. SUFFICES
        /\ work' <= MaxWork /\ interrupts' <= MaxInterrupts
        /\ ~Sleeping' => now' = begun' + work'
        /\ interval >= 0 =>
             /\ Sleeping' => now' <= wake' + MaxLate
             /\ pc' = "sleep" => wake' + MaxLate <= begun' + work' + S(interrupts' + 1)
             /\ pc' = "rest" => wake' + MaxLate <= begun' + work' + S(interrupts')
        /\ child' # "running" => exitAt' <= now'
        /\ flag_childexit' => child' # "running"
  BY <1>0 DEF Pace, S
<1>3. /\ work <= MaxWork /\ interrupts <= MaxInterrupts
      /\ ~Sleeping => now = begun + work
      /\ interval >= 0 =>
           /\ Sleeping => now <= wake + MaxLate
           /\ pc = "sleep" => wake + MaxLate <= begun + work + S(interrupts + 1)
           /\ pc = "rest" => wake + MaxLate <= begun + work + S(interrupts)
      /\ child # "running" => exitAt <= now
      /\ flag_childexit => child # "running"
  BY DEF Pace, S
<1>4. flag_childexit \in BOOLEAN /\ flag_childexit' \in BOOLEAN
  BY DEF TypeOK
<1> USE DEF Sleeping, loopVars, timeVars, callVars, historyVars
<1>5. CASE Poll
  BY <1>0, <1>3, <1>4, <1>5 DEF Poll
<1>6. CASE ReadClock
  BY <1>0, <1>3, <1>6 DEF ReadClock
<1>7. CASE ReadClockFails
  BY <1>0, <1>3, <1>7 DEF ReadClockFails
<1>8. CASE Charge
  BY <1>0, <1>3, <1>8 DEF Charge
<1>9. CASE Carry
  BY <1>0, <1>3, <1>9 DEF Carry
<1>10. CASE Borrow
  BY <1>0, <1>3, <1>10 DEF Borrow
<1>11. CASE Decide
  BY <1>0, <1>3, <1>11 DEF Decide
<1>12. CASE Sample
  <2>1. pc' \in {"sleep", "rest"} /\ wake' \in Nat
    BY <1>12, RequestType DEF Sample
  <2>2. interval >= 0 => pc' = "sleep" /\ wake' = now + interval
    BY <1>12, RequestDue DEF Sample
  <2>3. UNCHANGED <<child, flag_childexit, now, work, begun, exitAt, interrupts>>
    BY <1>12 DEF Sample
  <2>4. now = begun + work
    BY <1>3, <1>12 DEF Sample
  <2>5. interval >= 0 => wake' + MaxLate <= begun + work + S(interrupts + 1)
    BY <1>0, <1>1, <2>2, <2>4
  <2>6. interval >= 0 => now <= wake' + MaxLate
    BY <1>0, <2>2
  <2> QED BY <1>3, <2>1, <2>2, <2>3, <2>5, <2>6
<1>13. CASE Wake
  BY <1>0, <1>3, <1>13 DEF Wake
<1>14. CASE Interrupt
  <2>1. interrupts' = interrupts + 1
    BY <1>14 DEF Interrupt
  <2> QED BY <1>0, <1>1, <1>3, <1>14, <2>1 DEF Interrupt
<1>15. CASE Rest
  <2>1. pc' \in {"sleep", "rest"} /\ wake' \in Nat
    BY <1>15, RequestType DEF Rest
  <2>2. interval >= 0 => pc' = "sleep" /\ wake' = now + interval
    BY <1>15, RequestDue DEF Rest
  <2>3. interrupts' \in {interrupts, interrupts + 1} /\ interrupts' <= MaxInterrupts
    BY <1>0, <1>3, <1>15 DEF Rest
  <2>4. interval >= 0 => S(interrupts' + 1) >= S(interrupts + 1)
    <3>1. interval >= 0 => S(interrupts + 1 + 1) >= S(interrupts + 1)
      BY <1>0, SleptMore DEF S
    <3>2. interval >= 0 => S(interrupts + 1) \in Nat
      BY <1>0, SleptMore DEF S
    <3>3. CASE interrupts' = interrupts
      BY <3>2, <3>3
    <3>4. CASE interrupts' = interrupts + 1
      BY <3>1, <3>4
    <3> QED BY <2>3, <3>3, <3>4
  <2>5. interval >= 0 => S(interrupts' + 1) \in Nat
    BY <1>0, <2>3, SleptMore DEF S
  <2>6. interval >= 0 => wake' + MaxLate <= begun + work + S(interrupts' + 1)
    <3> SUFFICES ASSUME interval >= 0
                 PROVE  wake' + MaxLate <= begun + work + S(interrupts' + 1)
      OBVIOUS
    <3>1. now <= wake + MaxLate /\ wake + MaxLate <= begun + work + S(interrupts)
      BY <1>3, <1>15 DEF Rest
    <3>2. wake' = now + interval
      BY <2>2
    <3> QED BY <1>0, <1>1, <2>4, <2>5, <3>1, <3>2
  <2>7. UNCHANGED <<child, flag_childexit, now, work, begun, exitAt>>
    BY <1>15 DEF Rest
  <2>8. interval >= 0 => now <= wake' + MaxLate
    BY <1>0, <2>2
  <2> QED BY <1>3, <2>1, <2>2, <2>3, <2>6, <2>7, <2>8
<1>16. CASE ChildExit
  BY <1>0, <1>3, <1>16 DEF ChildExit
<1>17. CASE Tick
  BY <1>0, <1>3, <1>17 DEF Tick
<1>18. CASE SetClock
  BY <1>0, <1>3, <1>18 DEF SetClock
<1>19. CASE UNCHANGED vars
  BY <1>0, <1>3, <1>19 DEF vars
<1> QED
  BY <1>5, <1>6, <1>7, <1>8, <1>9, <1>10, <1>11, <1>12, <1>13, <1>14, <1>15,
     <1>16, <1>17, <1>18, <1>19 DEF Next, Loop, Done

\* Awake, an iteration is no older than its work; asleep or not, no older than
\* the most it can take.
LEMMA IterationAge ==
  ASSUME TypeOK, Pace, interval >= 0
  PROVE  /\ ~Sleeping => now <= begun + MaxWork
         /\ now <= begun + IterationTicks
<1>1. /\ now \in Nat /\ begun \in Nat /\ work \in Nat /\ wake \in Nat /\ interrupts \in Nat
      /\ interval \in Nat /\ MaxWork \in Nat /\ MaxLate \in Nat /\ MaxInterrupts \in Nat
      /\ work <= MaxWork /\ interrupts <= MaxInterrupts
  BY TimeAssumption DEF TypeOK, Pace
<1> DEFINE S(k) == Slept(k, interval)
<1>2. /\ S(interrupts) \in Nat /\ S(interrupts + 1) \in Nat /\ S(MaxInterrupts + 1) \in Nat
      /\ S(interrupts) <= S(MaxInterrupts + 1)
      /\ S(interrupts + 1) <= S(MaxInterrupts + 1)
  <2>1. interrupts + 1 \in Nat /\ MaxInterrupts + 1 \in Nat
        /\ interrupts <= MaxInterrupts + 1 /\ interrupts + 1 <= MaxInterrupts + 1
    BY <1>1
  <2>2. \A k, n \in Nat : S(k) \in Nat /\ (k <= n => S(k) <= S(n))
    BY <1>1, SleptMore
  <2> HIDE DEF S
  <2> QED BY <1>1, <2>1, <2>2
<1>3. IterationTicks = MaxWork + S(MaxInterrupts + 1)
  BY IterationFits
<1>4. /\ ~Sleeping => now = begun + work
      /\ Sleeping => now <= wake + MaxLate
      /\ pc = "sleep" => wake + MaxLate <= begun + work + S(interrupts + 1)
      /\ pc = "rest" => wake + MaxLate <= begun + work + S(interrupts)
  BY DEF Pace
<1> HIDE DEF S
<1>5. CASE ~Sleeping
  BY <1>1, <1>2, <1>3, <1>4, <1>5
<1>6. CASE Sleeping
  BY <1>1, <1>2, <1>3, <1>4, <1>6 DEF Sleeping
<1> QED BY <1>5, <1>6

LEMMA CoverStep ==
  CoverInv /\ RoundInv' /\ [Next]_vars => CoverInv'
<1> SUFFICES ASSUME CoverInv, RoundInv', [Next]_vars
             PROVE  Pace' /\ Steady' /\ Freshness' /\ NeverWide' /\ Overdrawn'
  BY DEF CoverInv
<1>p. Pace'
  BY PaceStep DEF CoverInv, RoundInv, AccountingInv
<1>i. interval' = interval
  BY IntervalKept
<1>j. IterationTicks' = IterationTicks
  BY <1>i DEF IterationTicks
<1>a. TypeOK /\ Pace
  BY DEF CoverInv, RoundInv, AccountingInv
<1>b. Undisturbed =>
        /\ IterationTicks \in Nat
        /\ ~Sleeping => now <= begun + MaxWork
        /\ now <= begun + IterationTicks
  BY <1>a, IterationAge, IterationFits DEF Undisturbed
<1> USE DEF CoverInv, RoundInv, AccountingInv, TypeOK, Steady, Overdrawn, NeverWide,
            Undisturbed, loopVars, timeVars, callVars, historyVars
<1>0. /\ MaxWork \in Nat
      /\ Ticks(base) \in Int /\ Ticks(curr_time) \in Int /\ Ticks(prev_time) \in Int
      /\ now \in Nat /\ begun \in Nat /\ exitAt \in Nat
      /\ child # "running" => exitAt <= now
      /\ flag_childexit => child # "running"
  BY TimeAssumption, TicksType DEF Pace
<1>1. CASE Poll
  <2>1. CASE flag_childexit
    BY <1>0, <1>1, <1>b, <1>j, <1>p, <2>1 DEF Poll, Freshness, Sleeping
  <2>2. CASE ~flag_childexit
    BY <1>0, <1>1, <1>b, <1>j, <1>p, <2>2 DEF Poll, Freshness, Sleeping
  <2> QED BY <1>p, <2>1, <2>2
<1>2. CASE ReadClock
  <2>1. Ticks(curr_time') = now + offset
    BY <1>2, ToTimespecTicks DEF ReadClock
  <2>2. flag_childexit => prev_time = curr_time
    BY <1>2 DEF ReadClock, ChargesAfterExit
  <2>3. Undisturbed' => now >= begun
    BY <1>0, <1>2, <1>p DEF ReadClock, Pace, Sleeping
  <2>4. Freshness'
    <3>1. CASE flag_childexit
      <4>1. /\ pc = "read" /\ pc' = "charge" /\ measured' = measured
            /\ UNCHANGED <<flag_childexit, prev_time, base, now, begun, exitAt, interval, jumps, fails, offset>>
        BY <1>2, <3>1 DEF ReadClock
      <4>2. Undisturbed => /\ Ticks(prev_time) <= now
                           /\ Ticks(prev_time) >= begun - IterationTicks
                           /\ Ticks(base) >= exitAt - (IterationTicks + MaxWork)
        BY <2>2, <3>1, <4>1 DEF Freshness
      <4>3. Undisturbed' => Undisturbed /\ Ticks(curr_time') = now /\ now >= begun - 0
        BY <1>0, <2>1, <2>3, <4>1
      <4> QED BY <1>0, <1>j, <4>1, <4>2, <4>3 DEF Freshness
    <3>2. CASE ~flag_childexit
      BY <1>0, <1>2, <1>b, <1>j, <2>1, <2>3, <3>2 DEF ReadClock, Freshness
    <3> QED BY <3>1, <3>2
  <2> QED BY <1>p, <1>2, <2>4 DEF ReadClock, ChargesAfterExit
<1>3. CASE ReadClockFails
  BY <1>0, <1>3, <1>p, TimeAssumption DEF ReadClockFails, Freshness
<1>4. CASE Charge
  <2>1. Undisturbed => /\ FitsInt(curr_time.sec - prev_time.sec)
                       /\ FitsInt(curr_time.nsec - prev_time.nsec)
    <3> SUFFICES ASSUME Undisturbed
                 PROVE  /\ FitsInt(curr_time.sec - prev_time.sec)
                        /\ FitsInt(curr_time.nsec - prev_time.nsec)
      OBVIOUS
    <3>1. Normalized(curr_time) /\ Normalized(prev_time)
      BY <1>4 DEF Charge, ReadingsOnly
    <3>2. /\ Ticks(curr_time) <= now /\ Ticks(prev_time) <= now
          /\ Ticks(curr_time) >= begun /\ Ticks(prev_time) >= begun - IterationTicks
      BY <1>0, <1>4 DEF Charge, Freshness
    <3>3. /\ now <= begun + MaxWork /\ IterationTicks \in Nat
          /\ IterationTicks + MaxWork <= ((IntSpan \div 2) - 1) * NS
      BY <1>4, <1>b, IterationFits DEF Charge, Sleeping
    <3>4. /\ Ticks(curr_time) - Ticks(prev_time) <= IterationTicks + MaxWork
          /\ Ticks(prev_time) - Ticks(curr_time) <= IterationTicks + MaxWork
          /\ IterationTicks + MaxWork \in Nat
      BY <1>0, <3>2, <3>3
    <3>5. curr_time \in Timespec /\ prev_time \in Timespec
      OBVIOUS
    <3> QED BY <3>1, <3>3, <3>4, <3>5, ReadingsFit
  <2>2. NeverWide'
    BY <1>4, <2>1 DEF Charge
  <2>3. Freshness'
    BY <1>0, <1>4, <1>b, <1>j DEF Charge, Freshness
  <2> QED BY <1>p, <1>4, <2>2, <2>3 DEF Charge
<1>5. CASE Carry
  BY <1>0, <1>5, <1>b, <1>j, <1>p DEF Carry, Freshness
<1>6. CASE Borrow
  BY <1>0, <1>6, <1>b, <1>j, <1>p DEF Borrow, Freshness
<1>7. CASE Decide
  <2>1. pc' = "closed" => Ticks(cooldown_remain) < 0
    BY <1>7, NegativeTicks DEF Decide
  <2> QED BY <1>0, <1>7, <1>b, <1>j, <1>p, <2>1 DEF Decide, Freshness
<1>8. CASE Sample
  <2>1. pc' \in {"sleep", "rest"}
    BY <1>8, RequestType DEF Sample
  <2> QED BY <1>0, <1>8, <1>b, <1>j, <1>p, <2>1 DEF Sample, Freshness
<1>9. CASE Wake
  BY <1>0, <1>9, <1>b, <1>j, <1>p DEF Wake, Freshness
<1>14. CASE Interrupt
  BY <1>0, <1>14, <1>b, <1>j, <1>p DEF Interrupt, Freshness
<1>15. CASE Rest
  <2>1. pc' \in {"sleep", "rest"}
    BY <1>15, RequestType DEF Rest
  <2> QED BY <1>0, <1>15, <1>b, <1>j, <1>p, <2>1 DEF Rest, Freshness
<1>10. CASE ChildExit
  BY <1>0, <1>10, <1>b, <1>j, <1>p DEF ChildExit, Freshness
<1>11. CASE Tick
  BY <1>0, <1>11, <1>b, <1>j, <1>p DEF Tick, Freshness
<1>12. CASE SetClock
  BY <1>0, <1>12, <1>p DEF SetClock, Freshness
<1>13. CASE UNCHANGED vars
  BY <1>0, <1>13, <1>b, <1>j, <1>p DEF vars, Freshness
<1> QED
  BY <1>1, <1>2, <1>3, <1>4, <1>5, <1>6, <1>7, <1>8, <1>9, <1>10, <1>11,
     <1>12, <1>13, <1>14, <1>15 DEF Next, Loop, Done

\* At every point the time left is the cooldown period minus the wall-clock
\* time charged since the last reading before the exit was noticed, unless a
\* difference did not fit its int, and it is a proper timespec outside the while
\* loops (rawdata.c:450-473), however the clock is set and whatever an
\* uninitialized curr_time holds; with a valid interval, a first reading and a
\* clock that is let alone every difference fits.
THEOREM CooldownIsAccounted == Spec => []CooldownAccounting
<1>1. CoverInv => CooldownAccounting
  BY DEF CoverInv, RoundInv, AccountingInv, Accounted, NeverWide, CooldownAccounting
<1> QED
  BY <1>1, AccountingInit, AccountingStep, TypeCorrect, RoundInit, RoundStep,
     CoverInit, CoverStep, PTL DEF Spec

\* When the loop has ended undisturbed, more than the cooldown period less one
\* iteration and the way to its waitpid() has passed since the measured program
\* ended (rawdata.c:447-473), for every cooldown, interval and pace.
THEOREM CooldownIsCovered == Spec => []CoversCooldown
<1>1. CoverInv => CoversCooldown
  <2> SUFFICES ASSUME CoverInv, pc = "closed", Undisturbed
               PROVE  now - exitAt > Cooldown * NS - (IterationTicks + MaxWork)
    BY DEF CoversCooldown
  <2>1. /\ Ticks(base) \in Int /\ Ticks(curr_time) \in Int
        /\ Cooldown * NS \in Int /\ IterationTicks \in Int
        /\ MaxWork \in Int /\ now \in Int /\ exitAt \in Int
    BY TimeAssumption, TicksType, IterationFits
       DEF CoverInv, RoundInv, AccountingInv, TypeOK, Undisturbed
  <2>2. flag_childexit
    BY DEF CoverInv, RoundInv, AccountingInv, ChargesAfterExit
  <2>3. Ticks(cooldown_remain) =
          Cooldown * NS - Ticks(curr_time) + Ticks(base)
    BY <2>2 DEF CoverInv, RoundInv, AccountingInv, Accounted, NeverWide
  <2>4. Ticks(cooldown_remain) < 0
    BY DEF CoverInv, Overdrawn
  <2>5. /\ Ticks(base) >= exitAt - (IterationTicks + MaxWork)
        /\ Ticks(curr_time) <= now
    BY <2>2 DEF CoverInv, Freshness
  <2> QED BY <2>1, <2>3, <2>4, <2>5
<1> QED
  BY <1>1, AccountingInit, AccountingStep, TypeCorrect, RoundInit,
     RoundStep, CoverInit, CoverStep, PTL DEF Spec

-----------------------------------------------------------------------------
(* The measurement does not go on much longer, if nobody sets the clock.    *)

\* A normalized timespec with no negative seconds is no less than zero ticks.
LEMMA PositiveTicks ==
  ASSUME NEW r \in Timespec, Normalized(r), ~(r.sec < 0)
  PROVE  Ticks(r) >= 0
<1>1. r.sec \in Int /\ r.nsec \in 0 .. NS - 1 /\ NS \in Nat \ {0}
  BY TimeAssumption DEF Timespec, Normalized
<1>2. r.sec * NS >= 0 * NS
  BY <1>1
<1> QED BY <1>1, <1>2 DEF Ticks

\* Time was left before the charge of this iteration, whatever the clock did, if
\* the charge was exact.
TimeWasLeft ==
  IF pc \in {"carry", "closed"}
    THEN ~wide => Ticks(cooldown_remain) + Ticks(curr_time) - Ticks(prev_time) >= 0
    ELSE Ticks(cooldown_remain) >= 0

\* Between waitpid() that saw the program run and clock_gettime(), it can only
\* have ended since the iteration began.
SeenRunning ==
  pc = "read" /\ ~flag_childexit /\ child # "running" => exitAt >= begun

\* The reading the cooldown counts from was taken at most the way from waitpid()
\* to clock_gettime() after the program ended, since waitpid() saw it run.
NoticedSoon ==
  Undisturbed =>
    /\ ~flag_childexit /\ child # "running" =>
         Ticks(curr_time) <= exitAt + MaxWork
    /\ flag_childexit => Ticks(base) <= exitAt + MaxWork

PromptInv == CoverInv /\ TimeWasLeft /\ SeenRunning /\ NoticedSoon

LEMMA PromptInit == Init => PromptInv
<1> SUFFICES ASSUME Init PROVE PromptInv
  OBVIOUS
<1>1. Ticks(cooldown_remain) >= 0
  BY TimeAssumption DEF Init, Ticks
<1>2. TimeWasLeft /\ SeenRunning /\ NoticedSoon
  BY <1>1 DEF Init, TimeWasLeft, SeenRunning, NoticedSoon, Undisturbed
<1> QED BY <1>2, CoverInit DEF PromptInv

LEMMA PromptStep ==
  PromptInv /\ CoverInv' /\ [Next]_vars => PromptInv'
<1> SUFFICES ASSUME PromptInv, CoverInv', [Next]_vars
             PROVE  TimeWasLeft' /\ SeenRunning' /\ NoticedSoon'
  BY DEF PromptInv
<1>i. interval' = interval
  BY IntervalKept
<1>b. /\ ~Sleeping => now <= begun + MaxWork /\ begun <= now
      /\ child # "running" => exitAt <= now
      /\ flag_childexit => child # "running"
  <2>1. now \in Nat /\ begun \in Nat /\ work \in Nat /\ MaxWork \in Nat
    BY TimeAssumption DEF PromptInv, CoverInv, RoundInv, AccountingInv, TypeOK
  <2>2. /\ ~Sleeping => now = begun + work
        /\ work <= MaxWork
        /\ child # "running" => exitAt <= now
        /\ flag_childexit => child # "running"
    BY DEF PromptInv, CoverInv, Pace
  <2>3. ASSUME ~Sleeping PROVE now <= begun + MaxWork /\ begun <= now
    <3>1. now = begun + work /\ work <= MaxWork
      BY <2>2, <2>3
    <3> QED BY <2>1, <3>1
  <2> QED BY <2>2, <2>3
<1>0. /\ MaxWork \in Nat
      /\ Ticks(base) \in Int /\ Ticks(curr_time) \in Int
      /\ Ticks(prev_time) \in Int /\ Ticks(cooldown_remain) \in Int
      /\ now \in Nat /\ begun \in Nat /\ exitAt \in Nat
      /\ Undisturbed => Ticks(curr_time) <= now
  BY TimeAssumption, TicksType
     DEF Freshness, PromptInv, CoverInv, RoundInv, AccountingInv, TypeOK
<1> USE DEF PromptInv, CoverInv, RoundInv, AccountingInv, TypeOK, Steady,
            TimeWasLeft, SeenRunning, NoticedSoon, Undisturbed, Sleeping,
            loopVars, timeVars, callVars, historyVars
<1>1. CASE Poll
  <2>1. CASE flag_childexit
    BY <1>0, <1>b, <1>1, <2>1 DEF Poll
  <2>2. CASE ~flag_childexit
    BY <1>0, <1>b, <1>1, <2>2 DEF Poll
  <2> QED BY <2>1, <2>2
<1>2. CASE ReadClock
  <2>1. Ticks(curr_time') = now + offset
    BY <1>2, ToTimespecTicks DEF ReadClock
  <2>2. TimeWasLeft'
    BY <1>0, <1>2 DEF ReadClock
  <2>3. SeenRunning' /\ NoticedSoon'
    <3>1. CASE flag_childexit
      BY <1>0, <1>b, <1>2, <2>1, <3>1 DEF ReadClock
    <3>2. CASE ~flag_childexit
      BY <1>0, <1>b, <1>2, <2>1, <3>2 DEF ReadClock
    <3> QED BY <3>1, <3>2
  <2> QED BY <2>2, <2>3
<1>3. CASE ReadClockFails
  BY <1>0, <1>3, TimeAssumption DEF ReadClockFails
<1>4. CASE Charge
  <2>1. ~wide' => Ticks(cooldown_remain') =
          Ticks(cooldown_remain) - Ticks(curr_time) + Ticks(prev_time)
    BY <1>4, ChargedExactly
  <2> QED BY <1>0, <1>4, <2>1 DEF Charge, ChargesAfterExit
<1>5. CASE Carry
  <2>1. Ticks(cooldown_remain') = Ticks(cooldown_remain)
    BY <1>5, CarryTicks DEF Carry
  <2> QED BY <1>0, <1>5, <2>1 DEF Carry, ChargesAfterExit
<1>6. CASE Borrow
  <2>1. Ticks(cooldown_remain') = Ticks(cooldown_remain)
    BY <1>6, CarryTicks DEF Borrow
  <2> QED BY <1>0, <1>6, <2>1 DEF Borrow, ChargesAfterExit
<1>7. CASE Decide
  <2>1. pc' = "sample" => Ticks(cooldown_remain) >= 0
    BY <1>7, PositiveTicks DEF Decide
  <2> QED BY <1>0, <1>7, <2>1 DEF Decide, ChargesAfterExit
<1>8. CASE Sample
  <2>1. pc' \in {"sleep", "rest"}
    BY <1>8, RequestType DEF Sample
  <2> QED BY <1>0, <1>8, <2>1 DEF Sample
<1>14. CASE Interrupt
  BY <1>0, <1>14 DEF Interrupt
<1>15. CASE Rest
  <2>1. pc' \in {"sleep", "rest"}
    BY <1>15, RequestType DEF Rest
  <2> QED BY <1>0, <1>15, <2>1 DEF Rest
<1>9. CASE Wake
  BY <1>0, <1>9 DEF Wake
<1>10. CASE ChildExit
  BY <1>0, <1>b, <1>10 DEF ChildExit
<1>11. CASE Tick
  BY <1>0, <1>11 DEF Tick
<1>12. CASE SetClock
  BY <1>0, <1>12 DEF SetClock
<1>13. CASE UNCHANGED vars
  BY <1>0, <1>13 DEF vars
<1> QED
  BY <1>1, <1>2, <1>3, <1>4, <1>5, <1>6, <1>7, <1>8, <1>9, <1>10, <1>11,
     <1>12, <1>13, <1>14, <1>15 DEF Next, Loop, Done

-----------------------------------------------------------------------------
(* What there is in Terminates besides fairness, if nobody sets the clock:   *)
(* the time that may pass with the loop open is bounded, as are the rounds   *)
(* of the two while loops (above), in which no time is charged.              *)

InTime ==
  Undisturbed /\ child # "running"
    => now - exitAt <= Cooldown * NS + IterationTicks + 2 * MaxWork

LEMMA PromptInvGivesInTime == PromptInv => InTime
<1> SUFFICES ASSUME PromptInv, Undisturbed, child # "running"
             PROVE  now - exitAt <= Cooldown * NS + IterationTicks + 2 * MaxWork
  BY DEF InTime
<1>0. TypeOK /\ Pace /\ interval >= 0
  BY DEF PromptInv, CoverInv, RoundInv, AccountingInv, Undisturbed
<1>1. /\ Ticks(base) \in Int /\ Ticks(curr_time) \in Int /\ Ticks(prev_time) \in Int
      /\ Ticks(cooldown_remain) \in Int /\ Cooldown * NS \in Nat
      /\ MaxWork \in Nat /\ IterationTicks \in Nat
      /\ now \in Nat /\ exitAt \in Nat /\ begun \in Nat
      /\ pc \in {"poll", "read", "charge", "carry", "sample", "sleep", "rest", "closed"}
  BY <1>0, TimeAssumption, TicksType, IterationFits DEF TypeOK
<1>2. /\ ~Sleeping => now <= begun + MaxWork
      /\ now <= begun + IterationTicks
  BY <1>0, IterationAge
<1>3. /\ pc \in {"poll", "read"} => now <= Ticks(curr_time) + IterationTicks + MaxWork
      /\ pc \in {"charge", "carry", "sample", "sleep", "rest", "closed"}
           => now <= Ticks(curr_time) + IterationTicks
      /\ pc \in {"charge", "carry", "closed"}
           => now <= Ticks(prev_time) + IterationTicks + MaxWork
  <2>1. /\ Ticks(curr_time) >= begun - (IF pc \in {"poll", "read"} THEN IterationTicks ELSE 0)
        /\ pc \in {"charge", "carry", "closed"} => Ticks(prev_time) >= begun - IterationTicks
    BY DEF PromptInv, CoverInv, Freshness
  <2> QED BY <1>1, <1>2, <2>1 DEF Sleeping
<1>4. CASE ~flag_childexit
  <2>1. /\ Ticks(curr_time) <= exitAt + MaxWork
        /\ pc \notin {"charge", "carry", "closed"}
    BY <1>4 DEF PromptInv, NoticedSoon, CoverInv, RoundInv, AccountingInv, ChargesAfterExit
  <2> QED BY <1>1, <1>3, <2>1
<1>5. CASE flag_childexit
  <2>1. /\ Ticks(base) <= exitAt + MaxWork
        /\ Ticks(cooldown_remain) = Cooldown * NS
             - Ticks(IF pc = "charge" THEN prev_time ELSE curr_time) + Ticks(base)
    BY <1>5 DEF PromptInv, NoticedSoon, CoverInv, RoundInv, AccountingInv, Accounted,
                      NeverWide
  <2>2. CASE pc = "charge"
    <3>1. Ticks(cooldown_remain) = Cooldown * NS - Ticks(prev_time) + Ticks(base)
      BY <2>1, <2>2
    <3>2. Ticks(cooldown_remain) >= 0
      BY <2>2 DEF PromptInv, TimeWasLeft
    <3> QED BY <1>1, <1>3, <2>1, <2>2, <3>1, <3>2
  <2>3. CASE pc # "charge"
    <3>1. Ticks(cooldown_remain) = Cooldown * NS - Ticks(curr_time) + Ticks(base)
      BY <2>1, <2>3
    <3>2. CASE pc \in {"carry", "closed"}
      <4>1. Ticks(cooldown_remain) + Ticks(curr_time) - Ticks(prev_time) >= 0
        BY <3>2 DEF PromptInv, TimeWasLeft, CoverInv, NeverWide
      <4> QED BY <1>1, <1>3, <2>1, <3>1, <3>2, <4>1
    <3>3. CASE pc \notin {"carry", "closed"}
      <4>1. Ticks(cooldown_remain) >= 0
        BY <3>3 DEF PromptInv, TimeWasLeft
      <4> QED BY <1>1, <1>3, <2>1, <2>3, <3>1, <3>3, <4>1
    <3> QED BY <3>2, <3>3
  <2> QED BY <2>2, <2>3
<1> QED BY <1>4, <1>5

\* Undisturbed, the loop is never open for longer than the cooldown period, an
\* iteration and the way to two clock readings after the measured program ended
\* (rawdata.c:432-498).
THEOREM OpenInTime == Spec => []InTime
BY PromptInvGivesInTime, AccountingInit, AccountingStep, TypeCorrect, RoundInit, RoundStep,
   CoverInit, CoverStep, PromptInit, PromptStep, PTL DEF Spec

\* When the loop has ended undisturbed, it has gone on for no more than the
\* cooldown period, an iteration and the way to two clock readings after the
\* measured program ended (rawdata.c:445-473), for every cooldown and pace.
THEOREM LoopEndsPromptly == Spec => []EndsPromptly
<1>1. PromptInv => EndsPromptly
  <2>1. PromptInv /\ pc = "closed" => child # "running"
    BY DEF PromptInv, CoverInv, RoundInv, AccountingInv, ChargesAfterExit, Pace
  <2> QED BY <2>1, PromptInvGivesInTime DEF InTime, EndsPromptly
<1> QED
  BY <1>1, AccountingInit, AccountingStep, TypeCorrect, RoundInit, RoundStep,
     CoverInit, CoverStep, PromptInit, PromptStep, PTL DEF Spec

=============================================================================
