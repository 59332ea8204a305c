---------------------------- MODULE SummaryProofs ----------------------------
(***************************************************************************)
(* The energies of a summary are exact, for any radices (the uJ's even),   *)
(* any readings and any timestamps, forward or backward; its extremes are  *)
(* those of its own samples.  While the clock goes forward, every digit    *)
(* keeps to its places and the batches share the inference's time.         *)
(***************************************************************************)
EXTENDS Summary, TLAPS

LEMMA Units ==
    /\ MILLI_PER_MICRO \in Nat \ {0} /\ MICRO_PER_PICO \in Nat \ {0}
    /\ ONE_PER_MILLI \in Nat \ {0} /\ ONE_PER_NANO \in Nat \ {0}
    /\ PICO_PER_FEMTO = MILLI_PER_MICRO
    /\ ONE_PER_NANO = MILLI_PER_MICRO * MICRO_PER_PICO
  BY UnitAssumption DEF ONE_PER_NANO, PICO_PER_FEMTO

-----------------------------------------------------------------------------
(* Time. *)

LEMMA ElapsedTicks ==
    ASSUME NEW a \in Timespec, NEW b \in Timespec
    PROVE  /\ Elapsed(a, b) \in Timespec
           /\ Ticks(Elapsed(a, b)) = Ticks(b) - Ticks(a)
  BY Units DEF Elapsed, Ticks, Timespec

LEMMA TimespecTicks ==
    ASSUME NEW n \in Int
    PROVE  /\ ToTimespec(n) \in Timespec
           /\ ToTimespec(n).nsec \in 0 .. ONE_PER_NANO - 1
           /\ Ticks(ToTimespec(n)) = n
  <1>1. n = ONE_PER_NANO * (n \div ONE_PER_NANO) + (n % ONE_PER_NANO)
    BY Units
  <1>2. n \div ONE_PER_NANO \in Int /\ n % ONE_PER_NANO \in 0 .. ONE_PER_NANO - 1
    BY Units
  <1> QED
    BY <1>1, <1>2, Units DEF ToTimespec, Ticks, Timespec

-----------------------------------------------------------------------------
(* Digits. *)

\* Nothing is lost in halving: what the mW leave over is half a mW in uW.
LEMMA AverageIsExact ==
    ASSUME NEW sum \in Nat
    PROVE  /\ Average(sum).mW \in Nat /\ Average(sum).uW \in Nat
           /\ 2 * (Average(sum).mW * MILLI_PER_MICRO + Average(sum).uW)
                  = sum * MILLI_PER_MICRO
  <1> DEFINE h == MILLI_PER_MICRO \div 2
  <1>1. h \in Nat /\ MILLI_PER_MICRO = 2 * h
    BY UnitAssumption
  <1>2. sum = 2 * (sum \div 2) + (sum % 2) /\ sum \div 2 \in Nat
    OBVIOUS
  <1>3. CASE sum % 2 = 0
    <2>1. ((sum % 2) * MILLI_PER_MICRO) \div 2 = 0
      BY <1>3, Units
    <2> QED
      BY <1>2, <1>3, <2>1, Units DEF Average
  <1>4. CASE sum % 2 = 1
    <2>1. ((sum % 2) * MILLI_PER_MICRO) \div 2 = h
      BY <1>4, Units
    <2> QED
      BY <1>1, <1>2, <1>4, <2>1, Units DEF Average
  <1> QED
    BY <1>3, <1>4

LEMMA FractionIsInt ==
    ASSUME NEW d \in Int, NEW r \in Nat \ {0}
    PROVE  Fraction(d, r) \in Int
  BY DEF Fraction, Quotient

LEMMA Shift ==
    ASSUME NEW a \in Int, NEW b \in Int, NEW f \in Int, NEW r \in Int
    PROVE  (a + f) * r + (b - f * r) = a * r + b
  OBVIOUS

LEMMA CarryFjKeepsValue ==
    ASSUME NEW e \in Digits
    PROVE  CarryFj(e) \in Digits /\ Value(CarryFj(e)) = Value(e)
  <1> DEFINE f == Fraction(e.fJ, PICO_PER_FEMTO)
             c == CarryFj(e)
  <1>1. f \in Int
    BY FractionIsInt, Units DEF Digits
  <1> HIDE DEF f
  <1>2. c = [e EXCEPT !.pJ = @ + f, !.fJ = @ - f * PICO_PER_FEMTO]
    BY DEF CarryFj, f
  <1>3. PICO_PER_FEMTO \in Int
    BY Units
  <1>4. c \in Digits
    <2>1. e.pJ + f \in Int /\ e.fJ - f * PICO_PER_FEMTO \in Int
      BY <1>1, <1>3 DEF Digits
    <2>2. ASSUME NEW x \in Int, NEW y \in Int
          PROVE  [e EXCEPT !.pJ = x, !.fJ = y] \in Digits
      BY DEF Digits
    <2> QED
      BY <1>2, <2>1, <2>2
  <1>5. c.J = e.J /\ c.mJ = e.mJ /\ c.uJ = e.uJ
    BY <1>2 DEF Digits
  <1>6. c.pJ = e.pJ + f /\ c.fJ = e.fJ - f * PICO_PER_FEMTO
    BY <1>2 DEF Digits
  <1> HIDE DEF c
  <1> DEFINE x == ((e.J * ONE_PER_MILLI + e.mJ) * MILLI_PER_MICRO + e.uJ)
                     * MICRO_PER_PICO
  <1>7. (x + c.pJ) * PICO_PER_FEMTO + c.fJ = (x + e.pJ) * PICO_PER_FEMTO + e.fJ
    <2>1. x \in Int
      BY Units DEF Digits
    <2> HIDE DEF x
    <2> QED
      BY <1>1, <1>3, <1>6, <2>1, Shift DEF Digits
  <1> QED
    BY <1>4, <1>5, <1>7 DEF Value, c

LEMMA CarryPjKeepsValue ==
    ASSUME NEW e \in Digits
    PROVE  CarryPj(e) \in Digits /\ Value(CarryPj(e)) = Value(e)
  <1> DEFINE f == Fraction(e.pJ, MICRO_PER_PICO)
             c == CarryPj(e)
  <1>1. f \in Int
    BY FractionIsInt, Units DEF Digits
  <1> HIDE DEF f
  <1>2. c = [e EXCEPT !.uJ = @ + f, !.pJ = @ - f * MICRO_PER_PICO]
    BY DEF CarryPj, f
  <1>3. MICRO_PER_PICO \in Int
    BY Units
  <1>4. c \in Digits
    <2>1. e.uJ + f \in Int /\ e.pJ - f * MICRO_PER_PICO \in Int
      BY <1>1, <1>3 DEF Digits
    <2>2. ASSUME NEW x \in Int, NEW y \in Int
          PROVE  [e EXCEPT !.uJ = x, !.pJ = y] \in Digits
      BY DEF Digits
    <2> QED
      BY <1>2, <2>1, <2>2
  <1>5. c.J = e.J /\ c.mJ = e.mJ /\ c.fJ = e.fJ
    BY <1>2 DEF Digits
  <1>6. c.uJ = e.uJ + f /\ c.pJ = e.pJ - f * MICRO_PER_PICO
    BY <1>2 DEF Digits
  <1> HIDE DEF c
  <1> DEFINE x == (e.J * ONE_PER_MILLI + e.mJ) * MILLI_PER_MICRO
  <1>7. (x + c.uJ) * MICRO_PER_PICO + c.pJ = (x + e.uJ) * MICRO_PER_PICO + e.pJ
    <2>1. x \in Int
      BY Units DEF Digits
    <2> HIDE DEF x
    <2> QED
      BY <1>1, <1>3, <1>6, <2>1, Shift DEF Digits
  <1> QED
    BY <1>4, <1>5, <1>7 DEF Value, c

LEMMA CarryUjKeepsValue ==
    ASSUME NEW e \in Digits
    PROVE  CarryUj(e) \in Digits /\ Value(CarryUj(e)) = Value(e)
  <1> DEFINE f == Fraction(e.uJ, MILLI_PER_MICRO)
             c == CarryUj(e)
  <1>1. f \in Int
    BY FractionIsInt, Units DEF Digits
  <1> HIDE DEF f
  <1>2. c = [e EXCEPT !.mJ = @ + f, !.uJ = @ - f * MILLI_PER_MICRO]
    BY DEF CarryUj, f
  <1>3. MILLI_PER_MICRO \in Int
    BY Units
  <1>4. c \in Digits
    <2>1. e.mJ + f \in Int /\ e.uJ - f * MILLI_PER_MICRO \in Int
      BY <1>1, <1>3 DEF Digits
    <2>2. ASSUME NEW x \in Int, NEW y \in Int
          PROVE  [e EXCEPT !.mJ = x, !.uJ = y] \in Digits
      BY DEF Digits
    <2> QED
      BY <1>2, <2>1, <2>2
  <1>5. c.J = e.J /\ c.pJ = e.pJ /\ c.fJ = e.fJ
    BY <1>2 DEF Digits
  <1>6. c.mJ = e.mJ + f /\ c.uJ = e.uJ - f * MILLI_PER_MICRO
    BY <1>2 DEF Digits
  <1> HIDE DEF c
  <1> DEFINE x == e.J * ONE_PER_MILLI
  <1>7. (x + c.mJ) * MILLI_PER_MICRO + c.uJ = (x + e.mJ) * MILLI_PER_MICRO + e.uJ
    <2>1. x \in Int
      BY Units DEF Digits
    <2> HIDE DEF x
    <2> QED
      BY <1>1, <1>3, <1>6, <2>1, Shift DEF Digits
  <1> QED
    BY <1>4, <1>5, <1>7 DEF Value, c

LEMMA CarryMjKeepsValue ==
    ASSUME NEW e \in Digits
    PROVE  CarryMj(e) \in Digits /\ Value(CarryMj(e)) = Value(e)
  <1> DEFINE f == Fraction(e.mJ, ONE_PER_MILLI)
             c == CarryMj(e)
  <1>1. f \in Int
    BY FractionIsInt, Units DEF Digits
  <1> HIDE DEF f
  <1>2. c = [e EXCEPT !.J = @ + f, !.mJ = @ - f * ONE_PER_MILLI]
    BY DEF CarryMj, f
  <1>3. ONE_PER_MILLI \in Int
    BY Units
  <1>4. c \in Digits
    <2>1. e.J + f \in Int /\ e.mJ - f * ONE_PER_MILLI \in Int
      BY <1>1, <1>3 DEF Digits
    <2>2. ASSUME NEW x \in Int, NEW y \in Int
          PROVE  [e EXCEPT !.J = x, !.mJ = y] \in Digits
      BY DEF Digits
    <2> QED
      BY <1>2, <2>1, <2>2
  <1>5. c.uJ = e.uJ /\ c.pJ = e.pJ /\ c.fJ = e.fJ
    BY <1>2 DEF Digits
  <1>6. c.J = e.J + f /\ c.mJ = e.mJ - f * ONE_PER_MILLI
    BY <1>2 DEF Digits
  <1> HIDE DEF c
  <1>7. c.J * ONE_PER_MILLI + c.mJ = e.J * ONE_PER_MILLI + e.mJ
    BY <1>1, <1>3, <1>6, Shift DEF Digits
  <1> QED
    BY <1>4, <1>5, <1>7 DEF Value, c

-----------------------------------------------------------------------------
(* Integration. *)

LEMMA Distribute ==
    ASSUME NEW x \in Int, NEW u \in Int, NEW p \in Int, NEW f \in Int,
           NEW A \in Int, NEW U \in Int, NEW S \in Int, NEW n \in Int,
           NEW M \in Int, NEW P \in Int
    PROVE  ((((x + S * A) * M + (u + S * U)) * P + (p + n * A)) * M + (f + n * U))
               = (((x * M + u) * P + p) * M + f)
                   + (A * M + U) * (S * (M * P) + n)
  <1>1. ((x + S * A) * M + (u + S * U)) * P
            = (x * M + u) * P + (S * (A * M + U)) * P
    <2>1. (x + S * A) * M + (u + S * U) = (x * M + u) + S * (A * M + U)
      OBVIOUS
    <2> QED
      BY <2>1
  <1>2. ((S * (A * M + U)) * P) * M = (A * M + U) * (S * (M * P))
    OBVIOUS
  <1>3. (n * A) * M + n * U = (A * M + U) * n
    OBVIOUS
  <1> QED
    BY <1>1, <1>2, <1>3

\* mW * ns is pJ and uW * ns is fJ: a step adds its power times its time.
LEMMA AccumulateAdds ==
    ASSUME NEW e \in Digits, NEW sum \in Nat, NEW dt \in Timespec
    PROVE  /\ Accumulate(e, sum, dt) \in Digits
           /\ Value(Accumulate(e, sum, dt))
                  = Value(e) + (Average(sum).mW * MILLI_PER_MICRO
                                   + Average(sum).uW) * Ticks(dt)
  <1> DEFINE A == Average(sum).mW
             U == Average(sum).uW
             a == Accumulate(e, sum, dt)
  <1>1. A \in Int /\ U \in Int
    BY AverageIsExact
  <1>2. a = [e EXCEPT !.mJ = @ + dt.sec * A, !.uJ = @ + dt.sec * U,
                      !.pJ = @ + dt.nsec * A, !.fJ = @ + dt.nsec * U]
    BY DEF Accumulate
  <1> HIDE DEF A, U
  <1>3. dt.sec \in Int /\ dt.nsec \in Int
    BY DEF Timespec
  <1>4. /\ e.J \in Int /\ e.mJ + dt.sec * A \in Int /\ e.uJ + dt.sec * U \in Int
        /\ e.pJ + dt.nsec * A \in Int /\ e.fJ + dt.nsec * U \in Int
    BY <1>1, <1>3 DEF Digits
  <1>5. a \in Digits
    <2>1. a = [J |-> e.J, mJ |-> e.mJ + dt.sec * A, uJ |-> e.uJ + dt.sec * U,
               pJ |-> e.pJ + dt.nsec * A, fJ |-> e.fJ + dt.nsec * U]
      BY <1>2 DEF Digits
    <2> QED
      BY <1>4, <2>1 DEF Digits
  <1>6. /\ a.J = e.J
        /\ a.mJ = e.mJ + dt.sec * A /\ a.uJ = e.uJ + dt.sec * U
        /\ a.pJ = e.pJ + dt.nsec * A /\ a.fJ = e.fJ + dt.nsec * U
    BY <1>2 DEF Digits
  <1> HIDE DEF a
  <1> DEFINE X == e.J * ONE_PER_MILLI + e.mJ
  <1>7. Value(e) = ((X * MILLI_PER_MICRO + e.uJ) * MICRO_PER_PICO + e.pJ)
                        * MILLI_PER_MICRO + e.fJ
    BY Units DEF Value
  <1>8. Value(a) = (((X + dt.sec * A) * MILLI_PER_MICRO + (e.uJ + dt.sec * U))
                        * MICRO_PER_PICO + (e.pJ + dt.nsec * A))
                        * MILLI_PER_MICRO + (e.fJ + dt.nsec * U)
    <2>1. a.J * ONE_PER_MILLI + a.mJ = X + dt.sec * A
      <3>1. e.J * ONE_PER_MILLI \in Int /\ e.mJ \in Int /\ dt.sec * A \in Int
        BY <1>1, <1>3, Units DEF Digits
      <3> QED
        BY <1>6, <3>1
    <2> HIDE DEF X
    <2> QED
      BY <1>6, <2>1, Units DEF Value
  <1>9. X \in Int /\ e.uJ \in Int /\ e.pJ \in Int /\ e.fJ \in Int
    BY Units DEF Digits
  <1>10. Ticks(dt) = dt.sec * (MILLI_PER_MICRO * MICRO_PER_PICO) + dt.nsec
    BY Units DEF Ticks
  <1> HIDE DEF X
  <1>11. Value(a) = Value(e) + (A * MILLI_PER_MICRO + U) * Ticks(dt)
    BY <1>1, <1>3, <1>7, <1>8, <1>9, <1>10, Distribute, Units
  <1> QED
    BY <1>5, <1>11 DEF a, A, U

\* One update adds the trapezoid: half the sum of the powers times the time.
LEMMA UpdateEnergyAdds ==
    ASSUME NEW e \in Digits, NEW sum \in Nat, NEW dt \in Timespec
    PROVE  /\ UpdateEnergy(e, sum, dt) \in Digits
           /\ 2 * Value(UpdateEnergy(e, sum, dt))
                  = 2 * Value(e) + sum * Ticks(dt) * PICO_PER_FEMTO
  <1> DEFINE a0 == Accumulate(e, sum, dt)
             a1 == CarryFj(a0)
             a2 == CarryPj(a1)
             a3 == CarryUj(a2)
             a4 == CarryMj(a3)
             B == Average(sum).mW * MILLI_PER_MICRO + Average(sum).uW
  <1>1. a0 \in Digits /\ Value(a0) = Value(e) + B * Ticks(dt)
    BY AccumulateAdds
  <1> HIDE DEF a0
  <1>2. a1 \in Digits /\ Value(a1) = Value(a0)
    BY <1>1, CarryFjKeepsValue
  <1> HIDE DEF a1
  <1>3. a2 \in Digits /\ Value(a2) = Value(a1)
    BY <1>2, CarryPjKeepsValue
  <1> HIDE DEF a2
  <1>4. a3 \in Digits /\ Value(a3) = Value(a2)
    BY <1>3, CarryUjKeepsValue
  <1> HIDE DEF a3
  <1>5. a4 \in Digits /\ Value(a4) = Value(a3)
    BY <1>4, CarryMjKeepsValue
  <1>6. a4 = UpdateEnergy(e, sum, dt)
    BY DEF a0, a1, a2, a3, UpdateEnergy
  <1> HIDE DEF a4
  <1>7. 2 * B = sum * MILLI_PER_MICRO
    BY AverageIsExact
  <1>8. Ticks(dt) \in Int /\ Value(e) \in Int /\ B \in Int
    BY AverageIsExact, Units DEF Ticks, Timespec, Value, Digits
  <1> HIDE DEF B
  <1>9. 2 * (B * Ticks(dt)) = sum * Ticks(dt) * PICO_PER_FEMTO
    <2>1. 2 * (B * Ticks(dt)) = (sum * MILLI_PER_MICRO) * Ticks(dt)
      BY <1>7, <1>8
    <2> QED
      BY <1>8, <2>1, Units
  <1>10. B * Ticks(dt) \in Int
    BY <1>8
  <1> QED
    BY <1>1, <1>2, <1>3, <1>4, <1>5, <1>6, <1>8, <1>9, <1>10

\* The rectangles' sums: normalized, and exact.
LEMMA UpdatePsumAdds ==
    ASSUME NEW p \in Timespec, p.nsec \in 0 .. ONE_PER_NANO - 1,
           NEW rate \in Nat, NEW dt \in Timespec, dt.nsec >= 0
    PROVE  /\ UpdatePsum(p, rate, dt) \in Timespec
           /\ UpdatePsum(p, rate, dt).nsec \in 0 .. ONE_PER_NANO - 1
           /\ Ticks(UpdatePsum(p, rate, dt)) = Ticks(p) + rate * Ticks(dt)
  <1> DEFINE sec == p.sec + rate * dt.sec
             nsec == p.nsec + rate * dt.nsec
             f == Quotient(nsec, ONE_PER_NANO)
             u == UpdatePsum(p, rate, dt)
  <1>1. sec \in Int /\ nsec \in Nat
    <2>1. rate * dt.sec \in Int /\ rate * dt.nsec \in Nat
      BY DEF Timespec
    <2> QED
      BY <2>1, Units DEF Timespec
  <1>2. sec * ONE_PER_NANO + nsec = Ticks(p) + rate * Ticks(dt)
    <2>1. rate * Ticks(dt) = (rate * dt.sec) * ONE_PER_NANO + rate * dt.nsec
      BY Units DEF Ticks, Timespec
    <2>2. rate * dt.sec \in Int /\ rate * dt.nsec \in Int
      BY DEF Timespec
    <2>3. sec * ONE_PER_NANO = p.sec * ONE_PER_NANO + (rate * dt.sec) * ONE_PER_NANO
      BY <2>2, Units DEF Timespec
    <2> QED
      BY <2>1, <2>2, <2>3, Units DEF Ticks, Timespec
  <1>3. u = IF f > 0 THEN [sec |-> sec + f, nsec |-> nsec - f * ONE_PER_NANO]
                     ELSE [sec |-> sec, nsec |-> nsec]
    BY DEF UpdatePsum
  <1> HIDE DEF sec, nsec, u
  <1>4. /\ f \in Nat
        /\ nsec - f * ONE_PER_NANO \in 0 .. ONE_PER_NANO - 1
    <2>1. f = nsec \div ONE_PER_NANO
      BY <1>1 DEF Quotient
    <2>2. /\ nsec = ONE_PER_NANO * (nsec \div ONE_PER_NANO) + (nsec % ONE_PER_NANO)
          /\ nsec \div ONE_PER_NANO \in Nat
          /\ nsec % ONE_PER_NANO \in 0 .. ONE_PER_NANO - 1
      BY <1>1, Units
    <2> QED
      BY <2>1, <2>2, <1>1, Units
  <1> HIDE DEF f
  <1>5. CASE f > 0
    <2>1. u.sec = sec + f /\ u.nsec = nsec - f * ONE_PER_NANO
      BY <1>3, <1>5
    <2>2. u \in Timespec
      BY <1>1, <1>3, <1>4, <1>5, Units DEF Timespec
    <2>3. (sec + f) * ONE_PER_NANO + (nsec - f * ONE_PER_NANO)
              = sec * ONE_PER_NANO + nsec
      BY <1>1, <1>4, Units, Shift
    <2> QED
      BY <1>2, <1>4, <2>1, <2>2, <2>3 DEF Ticks, u
  <1>6. CASE ~(f > 0)
    <2>1. u = [sec |-> sec, nsec |-> nsec]
      BY <1>3, <1>6
    <2>2. f = 0
      BY <1>4, <1>6
    <2>3. nsec \in 0 .. ONE_PER_NANO - 1
      BY <1>1, <1>4, <2>2, Units
    <2> QED
      BY <1>1, <1>2, <2>1, <2>3 DEF Ticks, Timespec, u
  <1> QED
    BY <1>5, <1>6

-----------------------------------------------------------------------------
(* A summary. *)

\* A summary, and a sample, with normalized timestamps.
Wellformed(s) ==
    /\ s \in Summaries
    /\ s.start.nsec \in 0 .. ONE_PER_NANO - 1
    /\ s.finish.nsec \in 0 .. ONE_PER_NANO - 1
Powerlogs == [timestamp : Timespec, reading : [Columns -> Nat]]

LEMMA RebasedWellformed ==
    ASSUME NEW s, Wellformed(s), NEW p \in Powerlogs,
           p.timestamp.nsec \in 0 .. ONE_PER_NANO - 1
    PROVE  /\ Wellformed(Rebased(s, p))
           /\ Rebased(s, p).energy = s.energy
           /\ Rebased(s, p).psum = s.psum
           /\ s.num_powerlog = 0 => Rebased(s, p).finish = p.timestamp
           /\ s.num_powerlog # 0 => Rebased(s, p) = s
  <1>1. CASE s.num_powerlog = 0
    <2> DEFINE r == Rebased(s, p)
    <2>1. r = [num_powerlog |-> s.num_powerlog, start |-> p.timestamp,
               finish |-> p.timestamp, last |-> p.reading, max |-> s.max,
               min |-> s.min, energy |-> s.energy, psum |-> s.psum]
      BY <1>1 DEF Rebased, Wellformed, Summaries
    <2> HIDE DEF r
    <2>2. r \in Summaries
      BY <2>1 DEF Wellformed, Summaries, Powerlogs
    <2>3. r.start = p.timestamp /\ r.finish = p.timestamp
          /\ r.energy = s.energy /\ r.psum = s.psum
      BY <2>1
    <2> QED
      BY <1>1, <2>2, <2>3 DEF Wellformed, r
  <1>2. CASE s.num_powerlog # 0
    BY <1>2 DEF Rebased
  <1> QED
    BY <1>1, <1>2

LEMMA PowerOfIsNat ==
    ASSUME NEW q \in Energies, NEW r \in [Columns -> Nat]
    PROVE  PowerOf(q, r) \in Nat
  <1>1. /\ r["allcpu_power"] \in Nat /\ r["gpu_power"] \in Nat
        /\ r["mem_power"] \in Nat /\ r["board_power"] \in Nat
    BY DEF Columns, Rails
  <1> QED
    BY <1>1 DEF Energies, PowerOf, SystemPower

LEMMA ElapsedNormalized ==
    ASSUME NEW a \in Timespec, a.nsec \in 0 .. ONE_PER_NANO - 1,
           NEW b \in Timespec, b.nsec \in 0 .. ONE_PER_NANO - 1
    PROVE  Elapsed(a, b).nsec \in 0 .. ONE_PER_NANO - 1
  BY Units DEF Elapsed, Timespec

\* The four copies of the integration are one function of their rails.
LEMMA EnergyOfUpdate ==
    ASSUME NEW s, Wellformed(s), NEW p \in Powerlogs,
           p.timestamp.nsec \in 0 .. ONE_PER_NANO - 1, NEW q \in Energies
    PROVE  UpdateSummary(s, p).energy[q] =
               UpdateEnergy(s.energy[q],
                            PowerOf(q, p.reading) + PowerOf(q, Rebased(s, p).last),
                            Elapsed(Rebased(s, p).finish, p.timestamp))
  <1> DEFINE t == Rebased(s, p)
  <1>1. t.energy = s.energy
    BY RebasedWellformed
  <1> HIDE DEF t
  <1>2. UpdateSummary(s, p).energy[q] =
            CASE q = "system" -> UpdateSystemEnergy(t, p)
              [] q = "gpu"    -> UpdateGpuenergy(t, p)
              [] q = "board"  -> UpdateBoardenergy(t, p)
              [] q = "mem"    -> UpdateMemenergy(t, p)
    BY DEF UpdateSummary, t
  <1>3. CASE q = "system"
    BY <1>1, <1>2, <1>3 DEF UpdateSystemEnergy, PowerOf, t
  <1>4. CASE q = "gpu"
    BY <1>1, <1>2, <1>4 DEF UpdateGpuenergy, PowerOf, t
  <1>5. CASE q = "board"
    BY <1>1, <1>2, <1>5 DEF UpdateBoardenergy, PowerOf, t
  <1>6. CASE q = "mem"
    BY <1>1, <1>2, <1>6 DEF UpdateMemenergy, PowerOf, t
  <1> QED
    BY <1>3, <1>4, <1>5, <1>6 DEF Energies

LEMMA UpdateSummaryWellformed ==
    ASSUME NEW s, Wellformed(s), NEW p \in Powerlogs,
           p.timestamp.nsec \in 0 .. ONE_PER_NANO - 1,
           \A c \in Rates : s.psum[c].nsec \in 0 .. ONE_PER_NANO - 1
    PROVE  /\ Wellformed(UpdateSummary(s, p))
           /\ UpdateSummary(s, p).finish = p.timestamp
           /\ UpdateSummary(s, p).num_powerlog = s.num_powerlog + 1
           /\ UpdateSummary(s, p).last = p.reading
           /\ \A c \in Rates :
                 UpdateSummary(s, p).psum[c] =
                     UpdatePsum(s.psum[c], p.reading[c],
                                Elapsed(Rebased(s, p).finish, p.timestamp))
  <1> DEFINE t == Rebased(s, p)
             u == UpdateSummary(s, p)
             dt == Elapsed(t.finish, p.timestamp)
  <1>1. Wellformed(t) /\ t.energy = s.energy /\ t.psum = s.psum
    BY RebasedWellformed
  <1>2. t.num_powerlog = s.num_powerlog
    BY DEF Rebased, Wellformed, Summaries
  <1> DEFINE en(q) == CASE q = "system" -> UpdateSystemEnergy(t, p)
                        [] q = "gpu"    -> UpdateGpuenergy(t, p)
                        [] q = "board"  -> UpdateBoardenergy(t, p)
                        [] q = "mem"    -> UpdateMemenergy(t, p)
             E == [q \in Energies |-> en(q)]
             X == [c \in Ranged |-> IF t.max[c] < p.reading[c]
                                    THEN p.reading[c] ELSE t.max[c]]
             N == [c \in Ranged |-> IF t.min[c] > p.reading[c]
                                    THEN p.reading[c] ELSE t.min[c]]
             P == [c \in Rates |-> UpdatePsum(t.psum[c], p.reading[c], dt)]
  <1>3. u = [num_powerlog |-> t.num_powerlog + 1, start |-> t.start,
             finish |-> p.timestamp, last |-> p.reading, max |-> X, min |-> N,
             energy |-> E, psum |-> P]
    BY DEF UpdateSummary
  <1>4. \A q \in Energies : u.energy[q] = en(q)
    <2> HIDE DEF en
    <2> QED
      BY <1>3
  <1>5. dt \in Timespec /\ dt.nsec >= 0
    <2>1. /\ t.finish \in Timespec /\ t.finish.nsec \in 0 .. ONE_PER_NANO - 1
          /\ p.timestamp \in Timespec
      BY <1>1 DEF Wellformed, Summaries, Powerlogs
    <2>2. dt \in Timespec
      BY <2>1, ElapsedTicks
    <2>3. dt.nsec \in 0 .. ONE_PER_NANO - 1
      BY <2>1, ElapsedNormalized
    <2> HIDE DEF dt
    <2> QED
      BY <2>2, <2>3, Units
  <1>6. /\ \A q \in Energies : PowerOf(q, p.reading) + PowerOf(q, t.last) \in Nat
        /\ \A c \in Rates : p.reading[c] \in Nat
        /\ \A c \in Ranged : p.reading[c] \in Nat
    <2>1. p.reading \in [Columns -> Nat] /\ t.last \in [Columns -> Nat]
      BY <1>1 DEF Wellformed, Summaries, Powerlogs
    <2>2. Rates \subseteq Columns /\ Ranged \subseteq Columns
      BY DEF Rates, Ranged, Columns, Rails
    <2>3. \A q \in Energies : PowerOf(q, p.reading) \in Nat /\ PowerOf(q, t.last) \in Nat
      BY <2>1, PowerOfIsNat
    <2> QED
      BY <2>1, <2>2, <2>3
  <1>7. \A q \in Energies : en(q) \in Digits
    <2> TAKE q \in Energies
    <2>1. u.energy[q] = UpdateEnergy(s.energy[q],
                            PowerOf(q, p.reading) + PowerOf(q, t.last), dt)
      BY EnergyOfUpdate
    <2>2. s.energy[q] \in Digits
      BY DEF Wellformed, Summaries
    <2>3. en(q) = u.energy[q]
      BY <1>4
    <2> HIDE DEF t, u, dt, en
    <2> QED
      BY <2>1, <2>2, <2>3, <1>5, <1>6, UpdateEnergyAdds
  <1>8. \A c \in Rates : UpdatePsum(t.psum[c], p.reading[c], dt) \in Timespec
    <2> TAKE c \in Rates
    <2>1. s.psum[c] \in Timespec
      BY DEF Wellformed, Summaries
    <2> HIDE DEF t, u, dt
    <2> QED
      BY <2>1, <1>1, <1>5, <1>6, UpdatePsumAdds
  <1> HIDE DEF t, u, dt
  <1>9. X \in [Ranged -> Int] /\ N \in [Ranged -> Int] /\ P \in [Rates -> Timespec]
    BY <1>1, <1>6, <1>8 DEF Wellformed, Summaries
  <1>10. E \in [Energies -> Digits]
    <2> HIDE DEF en
    <2> QED
      BY <1>7
  <1>11. \A c \in Rates : P[c] = UpdatePsum(s.psum[c], p.reading[c], dt)
    BY <1>1
  <1> HIDE DEF en, E, X, N, P
  <1>12. /\ t.num_powerlog + 1 \in Nat /\ t.start \in Timespec
         /\ p.timestamp \in Timespec /\ p.reading \in [Columns -> Nat]
         /\ t.start.nsec \in 0 .. ONE_PER_NANO - 1
    BY <1>1 DEF Wellformed, Summaries, Powerlogs
  <1>13. u \in Summaries
    BY <1>3, <1>9, <1>10, <1>12 DEF Summaries
  <1>14. /\ u.start = t.start /\ u.finish = p.timestamp
         /\ u.num_powerlog = t.num_powerlog + 1 /\ u.last = p.reading
         /\ u.psum = P
    BY <1>3
  <1>15. Wellformed(u)
    BY <1>12, <1>13, <1>14 DEF Wellformed
  <1> QED
    BY <1>2, <1>11, <1>14, <1>15 DEF t, u, dt

-----------------------------------------------------------------------------
(* The invariant. *)

\* A summary that samples go to ends at the last sample, so that the next step
\* is measured from there; the inference's have none before it starts.
EndsAtClock ==
    /\ \A n \in Open : summary[n].num_powerlog > 0
                           => Ticks(summary[n].finish) = clock
    /\ phase = "before" => /\ summary["cnn"].num_powerlog = 0
                           /\ summary["batch"].num_powerlog = 0

IInv == TypeOK /\ EndsAtClock /\ EnergyIsExact /\ PsumIsExact

LEMMA InitSummaryWellformed ==
    ASSUME NEW s, Wellformed(s)
    PROVE  /\ Wellformed(InitSummary(s))
           /\ InitSummary(s).num_powerlog = 0
           /\ InitSummary(s).energy = [q \in Energies |-> ZeroDigits]
           /\ InitSummary(s).psum = [c \in Rates |-> [sec |-> 0, nsec |-> 0]]
  <1> DEFINE X == [c \in Ranged |-> INIT_MAX]
             N == [c \in Ranged |-> INIT_MIN(c)]
             E == [q \in Energies |-> ZeroDigits]
             P == [c \in Rates |-> [sec |-> 0, nsec |-> 0]]
             u == InitSummary(s)
  <1>1. /\ X \in [Ranged -> Int] /\ N \in [Ranged -> Int]
        /\ E \in [Energies -> Digits] /\ P \in [Rates -> Timespec]
    BY DEF INIT_MAX, INIT_MIN, ZeroDigits, Digits, Timespec
  <1>2. u = [s EXCEPT !.num_powerlog = 0, !.max = X, !.min = N,
                      !.energy = E, !.psum = P]
    BY DEF InitSummary
  <1> HIDE DEF X, N, E, P, u
  <1>3. u = [num_powerlog |-> 0, start |-> s.start, finish |-> s.finish,
             last |-> s.last, max |-> X, min |-> N, energy |-> E, psum |-> P]
    BY <1>2 DEF Wellformed, Summaries
  <1>4. u \in Summaries
    BY <1>1, <1>3 DEF Wellformed, Summaries
  <1>5. /\ u.start = s.start /\ u.finish = s.finish /\ u.num_powerlog = 0
        /\ u.energy = E /\ u.psum = P
    BY <1>3
  <1> QED
    BY <1>4, <1>5 DEF Wellformed, u, E, P

LEMMA NewSummaryWellformed ==
    /\ Wellformed(NewSummary)
    /\ NewSummary.num_powerlog = 0
    /\ NewSummary.energy = [q \in Energies |-> ZeroDigits]
    /\ NewSummary.psum = [c \in Rates |-> [sec |-> 0, nsec |-> 0]]
  <1> DEFINE z == [num_powerlog |-> 0,
                   start |-> [sec |-> 0, nsec |-> 0],
                   finish |-> [sec |-> 0, nsec |-> 0],
                   last |-> [c \in Columns |-> 0],
                   max |-> [c \in Ranged |-> 0],
                   min |-> [c \in Ranged |-> 0],
                   energy |-> [q \in Energies |-> ZeroDigits],
                   psum |-> [c \in Rates |-> [sec |-> 0, nsec |-> 0]]]
  <1>1. z \in Summaries
    BY DEF Summaries, Timespec, ZeroDigits, Digits
  <1>2. z.start.nsec = 0 /\ z.finish.nsec = 0
    OBVIOUS
  <1>3. NewSummary = InitSummary(z)
    BY DEF NewSummary
  <1> HIDE DEF z
  <1>4. Wellformed(z)
    BY <1>1, <1>2, Units DEF Wellformed
  <1> QED
    BY <1>3, <1>4, InitSummaryWellformed

LEMMA ZeroIsExact ==
    /\ 2 * Value(ZeroDigits) = 0
    /\ Ticks([sec |-> 0, nsec |-> 0]) = 0
    /\ 0 \in 0 .. ONE_PER_NANO - 1
  BY Units DEF Value, ZeroDigits, Ticks

LEMMA InitIInv == Init => IInv
  <1> SUFFICES ASSUME Init PROVE IInv
    OBVIOUS
  <1>1. \A n \in Names : summary[n] = NewSummary
    BY DEF Init
  <1>2. summary \in [Names -> Summaries]
    BY NewSummaryWellformed DEF Init, Wellformed
  <1>3. TypeOK
    <2>1. exact \in [Names -> [energy : [Energies -> Int], psum : [Rates -> Int]]]
      <3>1. Nothing \in [energy : [Energies -> Int], psum : [Rates -> Int]]
        BY DEF Nothing
      <3> QED
        BY <3>1 DEF Init
    <2>2. window \in [Names -> SUBSET [Columns -> Nat]]
      BY DEF Init
    <2>3. \A n \in Names : /\ summary[n].start.nsec \in 0 .. ONE_PER_NANO - 1
                           /\ summary[n].finish.nsec \in 0 .. ONE_PER_NANO - 1
      BY <1>1, NewSummaryWellformed DEF Wellformed
    <2>4. /\ phase \in {"before", "cnn", "after"} /\ clock \in Int
          /\ samples \in 0 .. MaxSamples /\ ended \in 0 .. MaxBatches
          /\ batchTime \in Int /\ staleTime \in Int
      BY UnitAssumption DEF Init
    <2>5. backwards \in BOOLEAN
      BY DEF Init
    <2> QED
      BY <1>2, <2>1, <2>2, <2>3, <2>4, <2>5 DEF TypeOK
  <1>4. EndsAtClock
    BY <1>1, NewSummaryWellformed DEF Init, EndsAtClock, Open, Names
  <1>5. EnergyIsExact
    BY <1>1, NewSummaryWellformed, ZeroIsExact DEF Init, EnergyIsExact, Nothing
  <1>6. PsumIsExact
    BY <1>1, NewSummaryWellformed, ZeroIsExact DEF Init, PsumIsExact, Nothing
  <1> QED
    BY <1>3, <1>4, <1>5, <1>6 DEF IInv

\* The sample taken d ticks after the last one.
PowerlogAt(r, d) == [timestamp |-> ToTimespec(clock + d), reading |-> r]

LEMMA PowerlogAtTime ==
    ASSUME IInv, NEW r \in Readings, NEW d \in Steps
    PROVE  /\ PowerlogAt(r, d) \in Powerlogs
           /\ PowerlogAt(r, d).timestamp.nsec \in 0 .. ONE_PER_NANO - 1
           /\ PowerlogAt(r, d).reading = r
           /\ Ticks(PowerlogAt(r, d).timestamp) = clock + d
  <1>1. r \in [Columns -> Nat] /\ clock + d \in Int
    BY UnitAssumption DEF IInv, TypeOK
  <1> QED
    BY <1>1, TimespecTicks DEF Powerlogs, PowerlogAt

\* The time a sample is integrated over: d, or none for the first one.
LEMMA SampleElapsed ==
    ASSUME IInv, NEW r \in Readings, NEW d \in Steps, NEW n \in Open, n \in Names
    PROVE  LET p == PowerlogAt(r, d)
               e == Elapsed(Rebased(summary[n], p).finish, p.timestamp)
           IN  /\ e \in Timespec /\ e.nsec \in 0 .. ONE_PER_NANO - 1
               /\ Ticks(e) = IF summary[n].num_powerlog > 0 THEN d ELSE 0
  <1> USE DEF IInv
  <1> DEFINE p == PowerlogAt(r, d)
             t == Rebased(summary[n], p)
             a == t.finish
             b == p.timestamp
  <1>1. d \in Int /\ clock \in Int
    BY UnitAssumption DEF TypeOK
  <1>2. /\ p \in Powerlogs /\ b.nsec \in 0 .. ONE_PER_NANO - 1
        /\ Ticks(b) = clock + d
    BY PowerlogAtTime
  <1>3. Wellformed(summary[n]) /\ summary[n].num_powerlog \in Nat
    BY DEF TypeOK, Wellformed, Summaries
  <1> HIDE DEF p
  <1>4. Wellformed(t)
    BY <1>2, <1>3, RebasedWellformed
  <1>5. /\ a \in Timespec /\ a.nsec \in 0 .. ONE_PER_NANO - 1 /\ b \in Timespec
    BY <1>2, <1>4 DEF Wellformed, Summaries, Powerlogs
  <1>6. Ticks(a) = IF summary[n].num_powerlog > 0 THEN clock ELSE clock + d
    <2>1. CASE summary[n].num_powerlog > 0
      <3>1. t = summary[n]
        BY <1>2, <1>3, <2>1, RebasedWellformed
      <3> QED
        BY <2>1, <3>1 DEF EndsAtClock
    <2>2. CASE ~(summary[n].num_powerlog > 0)
      <3>1. t.finish = p.timestamp
        BY <1>2, <1>3, <2>2, RebasedWellformed
      <3> QED
        BY <1>2, <2>2, <3>1
    <2> QED
      BY <2>1, <2>2
  <1> HIDE DEF a, b
  <1>7. /\ Elapsed(a, b) \in Timespec
        /\ Elapsed(a, b).nsec \in 0 .. ONE_PER_NANO - 1
        /\ Ticks(Elapsed(a, b)) = Ticks(b) - Ticks(a)
    BY <1>2, <1>5, ElapsedTicks, ElapsedNormalized
  <1> QED
    BY <1>1, <1>2, <1>6, <1>7 DEF a, b, p

LEMMA SampleKeepsIInv ==
    ASSUME IInv, NEW r \in Readings, NEW d \in Steps, Sample(r, d)
    PROVE  IInv'
  <1> DEFINE p == [timestamp |-> ToTimespec(clock + d), reading |-> r]
             e(n) == Elapsed(Rebased(summary[n], p).finish, p.timestamp)
  <1> USE DEF IInv
  <1>1. /\ r \in [Columns -> Nat] /\ d \in Int /\ clock \in Int
        /\ MaxSamples \in Nat
    BY UnitAssumption DEF TypeOK
  <1>2. /\ p \in Powerlogs /\ p.timestamp.nsec \in 0 .. ONE_PER_NANO - 1
        /\ p.reading = r /\ Ticks(p.timestamp) = clock + d
    <2>1. clock + d \in Int
      BY <1>1
    <2> QED
      BY <1>1, <2>1, TimespecTicks DEF Powerlogs
  <1>3. \A n \in Names : Wellformed(summary[n])
    BY DEF TypeOK, Wellformed
  <1>4. /\ \A n \in Open : summary'[n] = UpdateSummary(summary[n], p)
        /\ \A n \in Names \ Open : summary'[n] = summary[n]
        /\ Open \subseteq Names
    BY DEF Sample, Open, Names
  <1>5. DOMAIN summary' = Names /\ summary' = [n \in Names |-> summary'[n]]
    BY DEF Sample
  <1> HIDE DEF p
  <1>6. ASSUME NEW n \in Open
        PROVE  /\ Wellformed(summary'[n])
               /\ summary'[n].finish = p.timestamp
               /\ summary'[n].num_powerlog > 0
               /\ \A c \in Rates :
                    summary'[n].psum[c] = UpdatePsum(summary[n].psum[c], r[c], e(n))
    <2>1. n \in Names /\ Wellformed(summary[n]) /\ summary[n].num_powerlog \in Nat
      BY <1>3, <1>4 DEF Wellformed, Summaries
    <2>2. \A c \in Rates : summary[n].psum[c].nsec \in 0 .. ONE_PER_NANO - 1
      BY <2>1 DEF PsumIsExact
    <2>3. summary'[n] = UpdateSummary(summary[n], p)
      BY <1>4
    <2> HIDE DEF IInv
    <2> QED
      BY <1>2, <2>1, <2>2, <2>3, UpdateSummaryWellformed
  <1>7. ASSUME NEW n \in Open
        PROVE  /\ e(n) \in Timespec /\ e(n).nsec >= 0
               /\ Ticks(e(n)) = IF summary[n].num_powerlog > 0 THEN d ELSE 0
    <2>1. n \in Names
      BY <1>4
    <2> HIDE DEF e
    <2> QED
      BY <2>1, SampleElapsed, Units DEF e, p, PowerlogAt
  <1>8. TypeOK'
    <2>1. summary' \in [Names -> Summaries]
      BY <1>3, <1>4, <1>5, <1>6 DEF Wellformed
    <2>2. \A n \in Names : /\ summary'[n].start.nsec \in 0 .. ONE_PER_NANO - 1
                           /\ summary'[n].finish.nsec \in 0 .. ONE_PER_NANO - 1
      BY <1>3, <1>4, <1>6 DEF Wellformed
    <2>3. exact' \in [Names -> [energy : [Energies -> Int], psum : [Rates -> Int]]]
      <3>1. ASSUME NEW n \in Names
            PROVE  Plus(exact[n], Area(summary[n], r, d))
                       \in [energy : [Energies -> Int], psum : [Rates -> Int]]
        <4>1. summary[n].last \in [Columns -> Nat]
          BY DEF TypeOK, Summaries
        <4>2. \A q \in Energies : PowerOf(q, summary[n].last) \in Nat
                                  /\ PowerOf(q, r) \in Nat
          BY <1>1, <4>1, PowerOfIsNat
        <4>3. \A c \in Rates : r[c] \in Nat
          BY <1>1 DEF Columns, Rates
        <4>4. \A q \in Energies : exact[n].energy[q] \in Int
          BY DEF TypeOK
        <4>5. \A c \in Rates : exact[n].psum[c] \in Int
          BY DEF TypeOK
        <4>6. \A q \in Energies :
                (PowerOf(q, summary[n].last) + PowerOf(q, r)) * d * PICO_PER_FEMTO \in Int
          BY <1>1, <4>2, Units
        <4>7. \A c \in Rates : r[c] * d \in Int
          BY <1>1, <4>3
        <4> QED
          BY <4>4, <4>5, <4>6, <4>7 DEF Plus, Area
      <3> QED
        BY <3>1 DEF Sample, TypeOK
    <2>4. window' \in [Names -> SUBSET [Columns -> Nat]]
      BY <1>1 DEF Sample, TypeOK
    <2>5. /\ phase' \in {"before", "cnn", "after"} /\ clock' \in Int
          /\ samples' \in 0 .. MaxSamples /\ ended' \in 0 .. MaxBatches
          /\ batchTime' \in Int /\ staleTime' \in Int /\ backwards' \in BOOLEAN
      BY <1>1 DEF Sample, TypeOK
    <2> QED
      BY <2>1, <2>2, <2>3, <2>4, <2>5 DEF TypeOK
  <1>9. EndsAtClock'
    <2>1. Open' = Open /\ clock' = clock + d /\ phase' = phase
      BY DEF Sample, Open
    <2>2. \A n \in Open : Ticks(summary'[n].finish) = clock + d
      BY <1>2, <1>6
    <2>3. phase = "before" => Open = {"caffe"}
      BY DEF Open
    <2>4. phase = "before" => summary'["cnn"] = summary["cnn"]
                              /\ summary'["batch"] = summary["batch"]
      BY <1>4, <2>3 DEF Names
    <2> QED
      BY <2>1, <2>2, <2>4 DEF EndsAtClock
  <1>10. EnergyIsExact'
    <2> SUFFICES ASSUME NEW n \in Names, NEW q \in Energies
                 PROVE  2 * Value(summary'[n].energy[q]) = exact'[n].energy[q]
      BY DEF EnergyIsExact
    <2>1. 2 * Value(summary[n].energy[q]) = exact[n].energy[q]
      BY DEF EnergyIsExact
    <2>2. CASE n \notin Open
      BY <1>4, <2>1, <2>2 DEF Sample
    <2>3. CASE n \in Open
      <3> DEFINE t == Rebased(summary[n], p)
                 sum == PowerOf(q, r) + PowerOf(q, t.last)
                 v == Value(summary[n].energy[q])
      <3>1. Wellformed(summary[n]) /\ Wellformed(t) /\ summary[n].num_powerlog \in Nat
        BY <1>2, <1>3, RebasedWellformed DEF Wellformed, Summaries
      <3>2. sum \in Nat
        BY <1>1, <3>1, PowerOfIsNat DEF Wellformed, Summaries
      <3>3. summary[n].energy[q] \in Digits
        BY <3>1 DEF Wellformed, Summaries
      <3>4. summary'[n].energy[q] = UpdateEnergy(summary[n].energy[q], sum, e(n))
        BY <1>2, <1>4, <2>3, <3>1, EnergyOfUpdate
      <3>5. v \in Int
        BY <3>3, Units DEF Value, Digits
      <3> HIDE DEF sum, v, e
      <3>6. 2 * Value(summary'[n].energy[q])
                = 2 * v + sum * Ticks(e(n)) * PICO_PER_FEMTO
        BY <1>7, <2>3, <3>2, <3>3, <3>4, UpdateEnergyAdds DEF v
      <3>7. CASE summary[n].num_powerlog > 0
        <4>1. t = summary[n]
          BY <1>2, <3>1, <3>7, RebasedWellformed
        <4>2. exact'[n] = Plus(exact[n], Area(summary[n], r, d))
          BY <2>3, <3>7 DEF Sample
        <4>3. Plus(exact[n], Area(summary[n], r, d)).energy[q]
                  = exact[n].energy[q] + (PowerOf(q, summary[n].last)
                                             + PowerOf(q, r)) * d * PICO_PER_FEMTO
          BY DEF Plus, Area
        <4>4. sum = PowerOf(q, summary[n].last) + PowerOf(q, r)
          <5>1. PowerOf(q, summary[n].last) \in Nat /\ PowerOf(q, r) \in Nat
            BY <1>1, <3>1, PowerOfIsNat DEF Wellformed, Summaries
          <5> QED
            BY <4>1, <5>1 DEF sum
        <4>5. Ticks(e(n)) = d
          BY <1>7, <2>3, <3>7
        <4> QED
          BY <2>1, <3>6, <4>2, <4>3, <4>4, <4>5 DEF v
      <3>8. CASE ~(summary[n].num_powerlog > 0)
        <4>1. exact'[n] = exact[n]
          BY <2>3, <3>8 DEF Sample
        <4>2. Ticks(e(n)) = 0
          BY <1>7, <2>3, <3>8
        <4>3. sum * 0 * PICO_PER_FEMTO = 0
          BY <3>2, Units
        <4> QED
          BY <2>1, <3>5, <3>6, <4>1, <4>2, <4>3 DEF v
      <3> QED
        BY <3>7, <3>8
    <2> QED
      BY <2>2, <2>3
  <1>11. PsumIsExact'
    <2> SUFFICES ASSUME NEW n \in Names, NEW c \in Rates
                 PROVE  /\ Ticks(summary'[n].psum[c]) = exact'[n].psum[c]
                        /\ summary'[n].psum[c].nsec \in 0 .. ONE_PER_NANO - 1
      BY DEF PsumIsExact
    <2>1. /\ Ticks(summary[n].psum[c]) = exact[n].psum[c]
          /\ summary[n].psum[c].nsec \in 0 .. ONE_PER_NANO - 1
          /\ summary[n].psum[c] \in Timespec
          /\ exact[n].psum[c] \in Int
      BY DEF PsumIsExact, TypeOK, Summaries
    <2>2. CASE n \notin Open
      BY <1>4, <2>1, <2>2 DEF Sample
    <2>3. CASE n \in Open
      <3>1. r[c] \in Nat
        BY <1>1 DEF Columns, Rates
      <3>2. summary'[n].psum[c] = UpdatePsum(summary[n].psum[c], r[c], e(n))
        BY <1>6, <2>3
      <3> HIDE DEF e
      <3>3. /\ summary'[n].psum[c].nsec \in 0 .. ONE_PER_NANO - 1
            /\ Ticks(summary'[n].psum[c]) = exact[n].psum[c] + r[c] * Ticks(e(n))
        BY <1>7, <2>1, <2>3, <3>1, <3>2, UpdatePsumAdds
      <3>4. CASE summary[n].num_powerlog > 0
        <4>1. exact'[n] = Plus(exact[n], Area(summary[n], r, d))
          BY <2>3, <3>4 DEF Sample
        <4>2. Plus(exact[n], Area(summary[n], r, d)).psum[c] = exact[n].psum[c] + r[c] * d
          BY DEF Plus, Area
        <4> QED
          BY <1>7, <2>3, <3>3, <3>4, <4>1, <4>2
      <3>5. CASE ~(summary[n].num_powerlog > 0)
        <4>1. exact'[n] = exact[n] /\ Ticks(e(n)) = 0
          BY <1>7, <2>3, <3>5 DEF Sample
        <4> QED
          BY <2>1, <3>1, <3>3, <4>1
      <3> QED
        BY <3>4, <3>5
    <2> QED
      BY <2>2, <2>3
  <1> QED
    BY <1>8, <1>9, <1>10, <1>11

LEMMA BatchFinishKeepsIInv ==
    ASSUME IInv, BatchFinish
    PROVE  IInv'
  <1> USE DEF IInv
  <1> DEFINE s == summary["batch"]
             u == InitSummary(s)
  <1>1. /\ Wellformed(s)
        /\ "batch" \in Names
        /\ \A n \in Names : Wellformed(summary[n])
    BY DEF TypeOK, Wellformed, Names
  <1>2. /\ Wellformed(u) /\ u.num_powerlog = 0
        /\ u.energy = [q \in Energies |-> ZeroDigits]
        /\ u.psum = [c \in Rates |-> [sec |-> 0, nsec |-> 0]]
    BY <1>1, InitSummaryWellformed
  <1>3. summary' = [summary EXCEPT !["batch"] = u]
    BY DEF BatchFinish
  <1> HIDE DEF u
  <1>4. /\ summary'["batch"] = u
        /\ \A n \in Names \ {"batch"} : summary'[n] = summary[n]
        /\ \A n \in Names : Wellformed(summary'[n])
    BY <1>1, <1>2, <1>3 DEF TypeOK
  <1>5. Runtime(s) \in Int
    <2>1. s.start \in Timespec /\ s.finish \in Timespec
      BY <1>1 DEF Wellformed, Summaries
    <2>2. Elapsed(s.start, s.finish) \in Timespec
      BY <2>1, ElapsedTicks
    <2> QED
      BY <2>2, Units DEF Runtime, Ticks, Timespec
  <1>6. TypeOK'
    <2>1. summary' \in [Names -> Summaries]
      BY <1>2, <1>3 DEF Wellformed, TypeOK
    <2>2. \A n \in Names : /\ summary'[n].start.nsec \in 0 .. ONE_PER_NANO - 1
                           /\ summary'[n].finish.nsec \in 0 .. ONE_PER_NANO - 1
      BY <1>4 DEF Wellformed
    <2>3. exact' \in [Names -> [energy : [Energies -> Int], psum : [Rates -> Int]]]
      <3>1. Nothing \in [energy : [Energies -> Int], psum : [Rates -> Int]]
        BY DEF Nothing
      <3> QED
        BY <3>1 DEF BatchFinish, TypeOK
    <2>4. window' \in [Names -> SUBSET [Columns -> Nat]]
      BY DEF BatchFinish, TypeOK
    <2>5. batchTime' \in Int /\ staleTime' \in Int
      BY <1>5 DEF BatchFinish, TypeOK
    <2>6. /\ phase' \in {"before", "cnn", "after"} /\ clock' \in Int
          /\ samples' \in 0 .. MaxSamples /\ ended' \in 0 .. MaxBatches
          /\ backwards' = backwards
      BY UnitAssumption DEF BatchFinish, TypeOK
    <2>7. backwards' \in BOOLEAN
      BY <2>6 DEF TypeOK
    <2> QED
      BY <2>1, <2>2, <2>3, <2>4, <2>5, <2>6, <2>7 DEF TypeOK
  <1>7. EndsAtClock'
    <2>1. Open' = Open /\ clock' = clock /\ phase' = phase /\ phase # "before"
      BY DEF BatchFinish, Open
    <2>2. Open \subseteq Names
      BY DEF Open, Names
    <2> QED
      BY <1>2, <1>4, <2>1, <2>2 DEF EndsAtClock
  <1>8. EnergyIsExact'
    <2>1. exact' = [exact EXCEPT !["batch"] = Nothing]
      BY DEF BatchFinish
    <2>2. ASSUME NEW q \in Energies
          PROVE  2 * Value(summary'["batch"].energy[q]) = exact'["batch"].energy[q]
      BY <1>1, <1>2, <1>4, <2>1, ZeroIsExact DEF Nothing, TypeOK
    <2>3. \A n \in Names \ {"batch"} : exact'[n] = exact[n]
      BY <2>1 DEF TypeOK
    <2> QED
      BY <1>4, <2>2, <2>3 DEF EnergyIsExact
  <1>9. PsumIsExact'
    <2>1. exact' = [exact EXCEPT !["batch"] = Nothing]
      BY DEF BatchFinish
    <2>2. ASSUME NEW c \in Rates
          PROVE  /\ Ticks(summary'["batch"].psum[c]) = exact'["batch"].psum[c]
                 /\ summary'["batch"].psum[c].nsec \in 0 .. ONE_PER_NANO - 1
      BY <1>1, <1>2, <1>4, <2>1, ZeroIsExact DEF Nothing, TypeOK
    <2>3. \A n \in Names \ {"batch"} : exact'[n] = exact[n]
      BY <2>1 DEF TypeOK
    <2> QED
      BY <1>4, <2>2, <2>3 DEF PsumIsExact
  <1> QED
    BY <1>6, <1>7, <1>8, <1>9

LEMMA CnnEventKeepsIInv ==
    ASSUME IInv, CnnEvent
    PROVE  IInv'
  <1> USE DEF IInv
  <1>1. /\ UNCHANGED <<summary, clock, samples, ended, exact, window,
                       batchTime, staleTime, backwards>>
        /\ \/ phase = "before" /\ phase' = "cnn"
           \/ phase = "cnn" /\ phase' = "after"
    BY DEF CnnEvent, historyVars
  <1>2. TypeOK'
    BY <1>1 DEF TypeOK
  <1>3. EndsAtClock'
    BY <1>1 DEF EndsAtClock, Open, Names
  <1>4. EnergyIsExact' /\ PsumIsExact'
    BY <1>1 DEF EnergyIsExact, PsumIsExact
  <1> QED
    BY <1>2, <1>3, <1>4

LEMMA NextKeepsIInv == IInv /\ [Next]_vars => IInv'
  <1> SUFFICES ASSUME IInv, [Next]_vars PROVE IInv'
    OBVIOUS
  <1>1. CASE Next
    BY <1>1, SampleKeepsIInv, CnnEventKeepsIInv, BatchFinishKeepsIInv DEF Next
  <1>2. CASE UNCHANGED vars
    <2>1. UNCHANGED <<summary, phase, clock, samples, ended, exact, window,
                      batchTime, staleTime, backwards>>
      BY <1>2 DEF vars, historyVars
    <2>2. TypeOK'
      BY <2>1 DEF IInv, TypeOK
    <2>3. EndsAtClock' /\ EnergyIsExact' /\ PsumIsExact'
      BY <2>1 DEF IInv, EndsAtClock, Open, EnergyIsExact, PsumIsExact
    <2> QED
      BY <2>2, <2>3 DEF IInv
  <1> QED
    BY <1>1, <1>2

LEMMA Invariant == Spec => []IInv
  BY InitIInv, NextKeepsIInv, PTL DEF Spec

-----------------------------------------------------------------------------
(* The theorems. *)

\* Types; the timestamps of init_summary() and update_summary() are normalized.
THEOREM TypeCorrect == Spec => []TypeOK
  <1>1. IInv => TypeOK
    BY DEF IInv
  <1> QED
    BY <1>1, Invariant, PTL

\* The integer trapezoidal rule of summary.c:122-233 and its copies neither
\* loses nor gains energy in its divisions and carries.
THEOREM EnergyExact == Spec => []EnergyIsExact
  <1>1. IInv => EnergyIsExact
    BY DEF IInv
  <1> QED
    BY <1>1, Invariant, PTL

\* Frequency and utilization sums of summary.c:354-431 are exact as well.
THEOREM PsumExact == Spec => []PsumIsExact
  <1>1. IInv => PsumIsExact
    BY DEF IInv
  <1> QED
    BY <1>1, Invariant, PTL
-----------------------------------------------------------------------------
(* The digits of an energy, when time goes forward. *)

NoDigitNegative(e) == e.J >= 0 /\ e.mJ >= 0 /\ e.uJ >= 0 /\ e.pJ >= 0 /\ e.fJ >= 0

LEMMA RemainderFits ==
    ASSUME NEW d \in Nat, NEW r \in Nat \ {0}
    PROVE  Fraction(d, r) \in Nat /\ d - Fraction(d, r) * r \in 0 .. r - 1
  <1> DEFINE f == d \div r
  <1>1. d = r * f + (d % r) /\ f \in Nat /\ d % r \in 0 .. r - 1
    OBVIOUS
  <1>2. Fraction(d, r) = f
    BY <1>1 DEF Fraction, Quotient
  <1> HIDE DEF f
  <1>3. f * r = r * f
    BY <1>1
  <1> QED
    BY <1>1, <1>2, <1>3

\* A carry leaves its digit below the radix, and those to the right alone.
LEMMA CarryFjFits ==
    ASSUME NEW e \in Digits, NoDigitNegative(e)
    PROVE  /\ NoDigitNegative(CarryFj(e))
           /\ CarryFj(e).fJ \in 0 .. PICO_PER_FEMTO - 1
  <1> DEFINE f == Fraction(e.fJ, PICO_PER_FEMTO)
             c == CarryFj(e)
  <1>1. f \in Nat /\ e.fJ - f * PICO_PER_FEMTO \in 0 .. PICO_PER_FEMTO - 1
    BY RemainderFits, Units DEF Digits, NoDigitNegative
  <1> HIDE DEF f
  <1>2. c = [e EXCEPT !.pJ = @ + f, !.fJ = @ - f * PICO_PER_FEMTO]
    BY DEF CarryFj, f
  <1>3. /\ c.J = e.J /\ c.mJ = e.mJ /\ c.uJ = e.uJ
        /\ c.pJ = e.pJ + f /\ c.fJ = e.fJ - f * PICO_PER_FEMTO
    BY <1>2 DEF Digits
  <1> HIDE DEF c
  <1>4. c.pJ >= 0 /\ c.fJ >= 0
    BY <1>1, <1>3, Units DEF Digits, NoDigitNegative
  <1> QED
    BY <1>1, <1>3, <1>4 DEF NoDigitNegative, c

LEMMA CarryPjFits ==
    ASSUME NEW e \in Digits, NoDigitNegative(e)
    PROVE  /\ NoDigitNegative(CarryPj(e))
           /\ CarryPj(e).pJ \in 0 .. MICRO_PER_PICO - 1
           /\ CarryPj(e).fJ = e.fJ
  <1> DEFINE f == Fraction(e.pJ, MICRO_PER_PICO)
             c == CarryPj(e)
  <1>1. f \in Nat /\ e.pJ - f * MICRO_PER_PICO \in 0 .. MICRO_PER_PICO - 1
    BY RemainderFits, Units DEF Digits, NoDigitNegative
  <1> HIDE DEF f
  <1>2. c = [e EXCEPT !.uJ = @ + f, !.pJ = @ - f * MICRO_PER_PICO]
    BY DEF CarryPj, f
  <1>3. /\ c.J = e.J /\ c.mJ = e.mJ /\ c.fJ = e.fJ
        /\ c.uJ = e.uJ + f /\ c.pJ = e.pJ - f * MICRO_PER_PICO
    BY <1>2 DEF Digits
  <1> HIDE DEF c
  <1>4. c.uJ >= 0 /\ c.pJ >= 0
    BY <1>1, <1>3, Units DEF Digits, NoDigitNegative
  <1> QED
    BY <1>1, <1>3, <1>4 DEF NoDigitNegative, c

LEMMA CarryUjFits ==
    ASSUME NEW e \in Digits, NoDigitNegative(e)
    PROVE  /\ NoDigitNegative(CarryUj(e))
           /\ CarryUj(e).uJ \in 0 .. MILLI_PER_MICRO - 1
           /\ CarryUj(e).pJ = e.pJ /\ CarryUj(e).fJ = e.fJ
  <1> DEFINE f == Fraction(e.uJ, MILLI_PER_MICRO)
             c == CarryUj(e)
  <1>1. f \in Nat /\ e.uJ - f * MILLI_PER_MICRO \in 0 .. MILLI_PER_MICRO - 1
    BY RemainderFits, Units DEF Digits, NoDigitNegative
  <1> HIDE DEF f
  <1>2. c = [e EXCEPT !.mJ = @ + f, !.uJ = @ - f * MILLI_PER_MICRO]
    BY DEF CarryUj, f
  <1>3. /\ c.J = e.J /\ c.pJ = e.pJ /\ c.fJ = e.fJ
        /\ c.mJ = e.mJ + f /\ c.uJ = e.uJ - f * MILLI_PER_MICRO
    BY <1>2 DEF Digits
  <1> HIDE DEF c
  <1>4. c.mJ >= 0 /\ c.uJ >= 0
    BY <1>1, <1>3, Units DEF Digits, NoDigitNegative
  <1> QED
    BY <1>1, <1>3, <1>4 DEF NoDigitNegative, c

LEMMA CarryMjFits ==
    ASSUME NEW e \in Digits, NoDigitNegative(e)
    PROVE  /\ NoDigitNegative(CarryMj(e))
           /\ CarryMj(e).mJ \in 0 .. ONE_PER_MILLI - 1
           /\ CarryMj(e).uJ = e.uJ /\ CarryMj(e).pJ = e.pJ /\ CarryMj(e).fJ = e.fJ
  <1> DEFINE f == Fraction(e.mJ, ONE_PER_MILLI)
             c == CarryMj(e)
  <1>1. f \in Nat /\ e.mJ - f * ONE_PER_MILLI \in 0 .. ONE_PER_MILLI - 1
    BY RemainderFits, Units DEF Digits, NoDigitNegative
  <1> HIDE DEF f
  <1>2. c = [e EXCEPT !.J = @ + f, !.mJ = @ - f * ONE_PER_MILLI]
    BY DEF CarryMj, f
  <1>3. /\ c.uJ = e.uJ /\ c.pJ = e.pJ /\ c.fJ = e.fJ
        /\ c.J = e.J + f /\ c.mJ = e.mJ - f * ONE_PER_MILLI
    BY <1>2 DEF Digits
  <1> HIDE DEF c
  <1>4. c.J >= 0 /\ c.mJ >= 0
    BY <1>1, <1>3, Units DEF Digits, NoDigitNegative
  <1> QED
    BY <1>1, <1>3, <1>4 DEF NoDigitNegative, c

LEMMA UpdateEnergyFits ==
    ASSUME NEW e \in Digits, Fits(e), NEW sum \in Nat, NEW dt \in Timespec,
           dt.sec >= 0, dt.nsec >= 0
    PROVE  Fits(UpdateEnergy(e, sum, dt))
  <1> DEFINE A == Average(sum).mW
             U == Average(sum).uW
             a0 == Accumulate(e, sum, dt)
             a1 == CarryFj(a0)
             a2 == CarryPj(a1)
             a3 == CarryUj(a2)
             a4 == CarryMj(a3)
  <1>1. A \in Nat /\ U \in Nat /\ dt.sec \in Nat /\ dt.nsec \in Nat
    BY AverageIsExact DEF Timespec
  <1>2. a0 = [e EXCEPT !.mJ = @ + dt.sec * A, !.uJ = @ + dt.sec * U,
                       !.pJ = @ + dt.nsec * A, !.fJ = @ + dt.nsec * U]
    BY DEF Accumulate
  <1>3. a0 \in Digits
    BY AccumulateAdds
  <1> HIDE DEF A, U, a0
  <1>4. /\ dt.sec * A \in Nat /\ dt.sec * U \in Nat
        /\ dt.nsec * A \in Nat /\ dt.nsec * U \in Nat
    BY <1>1
  <1>5. NoDigitNegative(a0)
    <2>1. /\ a0.J = e.J
          /\ a0.mJ = e.mJ + dt.sec * A /\ a0.uJ = e.uJ + dt.sec * U
          /\ a0.pJ = e.pJ + dt.nsec * A /\ a0.fJ = e.fJ + dt.nsec * U
      BY <1>2 DEF Digits
    <2>2. e.J \in Nat /\ e.mJ \in Nat /\ e.uJ \in Nat /\ e.pJ \in Nat /\ e.fJ \in Nat
      BY Units DEF Fits, Digits
    <2> QED
      BY <1>4, <2>1, <2>2 DEF NoDigitNegative
  <1>6. /\ a1 \in Digits /\ NoDigitNegative(a1)
        /\ a1.fJ \in 0 .. PICO_PER_FEMTO - 1
    BY <1>3, <1>5, CarryFjKeepsValue, CarryFjFits
  <1> HIDE DEF a1
  <1>7. /\ a2 \in Digits /\ NoDigitNegative(a2)
        /\ a2.pJ \in 0 .. MICRO_PER_PICO - 1 /\ a2.fJ = a1.fJ
    BY <1>6, CarryPjKeepsValue, CarryPjFits
  <1> HIDE DEF a2
  <1>8. /\ a3 \in Digits /\ NoDigitNegative(a3)
        /\ a3.uJ \in 0 .. MILLI_PER_MICRO - 1
        /\ a3.pJ = a2.pJ /\ a3.fJ = a2.fJ
    BY <1>7, CarryUjKeepsValue, CarryUjFits
  <1> HIDE DEF a3
  <1>9. /\ NoDigitNegative(a4)
        /\ a4.mJ \in 0 .. ONE_PER_MILLI - 1
        /\ a4.uJ = a3.uJ /\ a4.pJ = a3.pJ /\ a4.fJ = a3.fJ
    BY <1>8, CarryMjFits
  <1>10. a4 = UpdateEnergy(e, sum, dt)
    BY DEF a0, a1, a2, a3, UpdateEnergy
  <1> HIDE DEF a4
  <1>11. Fits(a4)
    BY <1>6, <1>7, <1>8, <1>9 DEF Fits, NoDigitNegative
  <1> QED
    BY <1>10, <1>11

\* A normalized time that is not negative has no negative seconds.
LEMMA ForwardSeconds ==
    ASSUME NEW t \in Timespec, t.nsec \in 0 .. ONE_PER_NANO - 1, Ticks(t) >= 0
    PROVE  t.sec >= 0
  <1>1. ONE_PER_NANO \in Nat \ {0} /\ t.sec \in Int
    BY Units DEF Timespec
  <1>2. ASSUME t.sec <= -1 PROVE FALSE
    <2>1. t.sec * ONE_PER_NANO <= (-1) * ONE_PER_NANO
      BY <1>1, <1>2
    <2> QED
      BY <1>1, <2>1 DEF Ticks
  <1> QED
    BY <1>1, <1>2

-----------------------------------------------------------------------------
(* Extremes, digits and batches: what a sample and an init change.          *)

\* The body of ExtremesOfWindow: the least and the greatest in a column of W.
Extremes(W, c, mx, mn) ==
    IF W = {}
    THEN mx = INIT_MAX /\ mn = INIT_MIN(c)
    ELSE /\ \E r \in W : r[c] = mx
         /\ \E r \in W : r[c] = mn
         /\ \A r \in W : r[c] \in mn .. mx

LEMMA ExtremesGrow ==
    ASSUME NEW W \in SUBSET [Columns -> Nat], NEW r \in [Columns -> Nat],
           NEW c \in Ranged, NEW mx \in Int, NEW mn \in Int,
           r[c] <= INIT_MIN(c), Extremes(W, c, mx, mn)
    PROVE  Extremes(W \cup {r}, c, IF mx < r[c] THEN r[c] ELSE mx,
                                   IF mn > r[c] THEN r[c] ELSE mn)
  <1>1. \A x \in W \cup {r} : x[c] \in Nat
    BY DEF Ranged, Columns, Rails, Rates
  <1>2. r \in W \cup {r}
    OBVIOUS
  <1> DEFINE v == r[c]
             X == IF mx < v THEN v ELSE mx
             N == IF mn > v THEN v ELSE mn
  <1>3. CASE W = {}
    <2>1. mx = -1 /\ mn = INIT_MIN(c) /\ INIT_MIN(c) \in Int
      BY <1>3 DEF Extremes, INIT_MAX, INIT_MIN
    <2>2. X = v /\ N = v
      BY <1>1, <2>1
    <2>3. \A x \in W \cup {r} : x = r
      BY <1>3
    <2> QED
      BY <1>1, <1>2, <2>2, <2>3 DEF Extremes
  <1>4. CASE W # {}
    <2>1. PICK hi \in W : hi[c] = mx
      BY <1>4 DEF Extremes
    <2>2. PICK lo \in W : lo[c] = mn
      BY <1>4 DEF Extremes
    <2>3. \A x \in W : x[c] \in mn .. mx
      BY <1>4 DEF Extremes
    <2>4. X \in {v, mx} /\ N \in {v, mn} /\ X >= v /\ X >= mx /\ N <= v /\ N <= mn
          /\ X \in Int /\ N \in Int /\ v \in Int
      BY <1>1
    <2> HIDE DEF X, N
    <2>5. \E x \in W \cup {r} : x[c] = X
      BY <2>1, <2>4
    <2>6. \E x \in W \cup {r} : x[c] = N
      BY <2>2, <2>4
    <2>7. ASSUME NEW x \in W \cup {r} PROVE x[c] \in N .. X
      <3>1. CASE x \in W
        BY <1>1, <2>3, <2>4, <3>1
      <3>2. CASE x = r
        BY <2>4, <3>2
      <3> QED
        BY <3>1, <3>2
    <2> QED
      BY <2>5, <2>6, <2>7, <1>2 DEF Extremes, X, N
  <1> QED
    BY <1>3, <1>4

LEMMA UpdateSummaryRange ==
    ASSUME NEW s, Wellformed(s), NEW p \in Powerlogs
    PROVE  /\ UpdateSummary(s, p).start =
                  IF s.num_powerlog = 0 THEN p.timestamp ELSE s.start
           /\ \A c \in Ranged :
                /\ UpdateSummary(s, p).max[c] =
                     IF s.max[c] < p.reading[c] THEN p.reading[c] ELSE s.max[c]
                /\ UpdateSummary(s, p).min[c] =
                     IF s.min[c] > p.reading[c] THEN p.reading[c] ELSE s.min[c]
  <1> DEFINE t == Rebased(s, p)
             u == UpdateSummary(s, p)
  <1>1. /\ t.max = s.max /\ t.min = s.min
        /\ t.start = IF s.num_powerlog = 0 THEN p.timestamp ELSE s.start
    BY DEF Rebased, Wellformed, Summaries
  <1>2. /\ u.start = t.start
        /\ u.max = [c \in Ranged |-> IF t.max[c] < p.reading[c]
                                     THEN p.reading[c] ELSE t.max[c]]
        /\ u.min = [c \in Ranged |-> IF t.min[c] > p.reading[c]
                                     THEN p.reading[c] ELSE t.min[c]]
    BY DEF UpdateSummary
  <1> HIDE DEF t, u
  <1> QED
    BY <1>1, <1>2 DEF u

LEMMA InitSummaryRange ==
    ASSUME NEW s, Wellformed(s)
    PROVE  /\ InitSummary(s).start = s.start /\ InitSummary(s).finish = s.finish
           /\ \A c \in Ranged : /\ InitSummary(s).max[c] = INIT_MAX
                                /\ InitSummary(s).min[c] = INIT_MIN(c)
  BY DEF InitSummary, Wellformed, Summaries

\* The summary of the current batch, if it has samples, ends with the
\* inference's, and starts when the batches before it have been paid for.
BatchesDisjoint ==
    LET cnn == summary["cnn"]
        batch == summary["batch"]
    IN  /\ cnn.num_powerlog = 0 => /\ batch.num_powerlog = 0 /\ batchTime = 0
                                   /\ Ticks(cnn.start) = Ticks(cnn.finish)
        /\ batch.num_powerlog > 0 => Ticks(batch.finish) = Ticks(cnn.finish)
        /\ batchTime <= (IF batch.num_powerlog > 0 THEN Ticks(batch.start)
                                                   ELSE Ticks(cnn.finish))
                          - Ticks(cnn.start)

RangeInv == IInv /\ ExtremesOfWindow /\ DigitsFit /\ (~backwards => BatchesDisjoint)

LEMMA InitRangeInv == Init => RangeInv
  <1> SUFFICES ASSUME Init PROVE RangeInv
    OBVIOUS
  <1> DEFINE z == [num_powerlog |-> 0,
                   start |-> [sec |-> 0, nsec |-> 0],
                   finish |-> [sec |-> 0, nsec |-> 0],
                   last |-> [c \in Columns |-> 0],
                   max |-> [c \in Ranged |-> 0],
                   min |-> [c \in Ranged |-> 0],
                   energy |-> [q \in Energies |-> ZeroDigits],
                   psum |-> [c \in Rates |-> [sec |-> 0, nsec |-> 0]]]
  <1>1. z \in Summaries
    BY DEF Summaries, Timespec, ZeroDigits, Digits
  <1>2. z.start = [sec |-> 0, nsec |-> 0] /\ z.finish = [sec |-> 0, nsec |-> 0]
    OBVIOUS
  <1>3. NewSummary = InitSummary(z)
    BY DEF NewSummary
  <1> HIDE DEF z
  <1>4. Wellformed(z)
    BY <1>1, <1>2, Units DEF Wellformed
  <1>5. \A n \in Names : summary[n] = InitSummary(z)
    BY <1>3 DEF Init
  <1>6. IInv
    BY InitIInv
  <1>7. ExtremesOfWindow
    BY <1>4, <1>5, InitSummaryRange DEF ExtremesOfWindow, Init
  <1>8. DigitsFit
    <2>1. Fits(ZeroDigits)
      BY Units DEF Fits, ZeroDigits
    <2> QED
      BY <1>4, <1>5, <2>1, InitSummaryWellformed DEF DigitsFit
  <1>9. BatchesDisjoint
    <2>1. /\ summary["cnn"] = InitSummary(z) /\ summary["batch"] = InitSummary(z)
          /\ batchTime = 0
      BY <1>5 DEF Init, Names
    <2>2. /\ InitSummary(z).num_powerlog = 0
          /\ InitSummary(z).start = [sec |-> 0, nsec |-> 0]
          /\ InitSummary(z).finish = [sec |-> 0, nsec |-> 0]
      BY <1>2, <1>4, InitSummaryWellformed, InitSummaryRange
    <2> QED
      BY <2>1, <2>2, ZeroIsExact DEF BatchesDisjoint
  <1> QED
    BY <1>6, <1>7, <1>8, <1>9 DEF RangeInv

LEMMA SampleKeepsRangeInv ==
    ASSUME RangeInv, NEW r \in Readings, NEW d \in Steps, Sample(r, d)
    PROVE  RangeInv'
  <1> DEFINE p == PowerlogAt(r, d)
  <1>1. IInv /\ IInv'
    BY SampleKeepsIInv DEF RangeInv
  <1>2. /\ r \in [Columns -> Nat] /\ d \in Int /\ clock \in Int
        /\ \A c \in Ranged : r[c] <= INIT_MIN(c)
    BY <1>1, UnitAssumption, WidthAssumption DEF IInv, TypeOK
  <1>3. /\ p \in Powerlogs /\ p.timestamp.nsec \in 0 .. ONE_PER_NANO - 1
        /\ p.reading = r /\ Ticks(p.timestamp) = clock + d
    BY <1>1, PowerlogAtTime
  <1>4. \A n \in Names : Wellformed(summary[n])
    BY <1>1 DEF IInv, TypeOK, Wellformed
  <1>5. /\ \A n \in Open : summary'[n] = UpdateSummary(summary[n], p)
        /\ \A n \in Names \ Open : summary'[n] = summary[n]
        /\ Open \subseteq Names
    BY DEF Sample, Open, Names, PowerlogAt
  <1> HIDE DEF p
  <1>6. ExtremesOfWindow'
    <2> SUFFICES ASSUME NEW n \in Names, NEW c \in Ranged
                 PROVE  Extremes(window'[n], c, summary'[n].max[c], summary'[n].min[c])
      BY DEF ExtremesOfWindow, Extremes
    <2>1. Extremes(window[n], c, summary[n].max[c], summary[n].min[c])
      BY DEF RangeInv, ExtremesOfWindow, Extremes
    <2>4. /\ window[n] \in SUBSET [Columns -> Nat]
          /\ summary[n].max[c] \in Int /\ summary[n].min[c] \in Int
      BY <1>1 DEF IInv, TypeOK, Summaries
    <2>2. CASE n \notin Open
      BY <1>5, <2>1, <2>2 DEF Sample
    <2>3. CASE n \in Open
      <3>1. window'[n] = window[n] \cup {r}
        BY <2>3 DEF Sample
      <3>2. /\ summary'[n].max[c] =
                 IF summary[n].max[c] < r[c] THEN r[c] ELSE summary[n].max[c]
            /\ summary'[n].min[c] =
                 IF summary[n].min[c] > r[c] THEN r[c] ELSE summary[n].min[c]
        BY <1>3, <1>4, <1>5, <2>3, UpdateSummaryRange
      <3>3. Extremes(window[n] \cup {r}, c,
                     IF summary[n].max[c] < r[c] THEN r[c] ELSE summary[n].max[c],
                     IF summary[n].min[c] > r[c] THEN r[c] ELSE summary[n].min[c])
        BY <1>2, <2>1, <2>4, ExtremesGrow
      <3> QED
        BY <3>1, <3>2, <3>3
    <2> QED
      BY <2>2, <2>3
  <1>7. ~backwards' => ~backwards /\ d >= 0
    <2>1. ~backwards' => ~backwards /\ ~(d < 0)
      BY Zenon DEF Sample
    <2> QED
      BY <1>2, <2>1
  <1>8. DigitsFit'
    <2> SUFFICES ASSUME ~backwards', NEW n \in Names, NEW q \in Energies
                 PROVE  Fits(summary'[n].energy[q])
      BY DEF DigitsFit
    <2>1. Fits(summary[n].energy[q])
      BY <1>7 DEF RangeInv, DigitsFit
    <2>2. CASE n \notin Open
      BY <1>5, <2>1, <2>2
    <2>3. CASE n \in Open
      <3> DEFINE t == Rebased(summary[n], p)
                 sum == PowerOf(q, r) + PowerOf(q, t.last)
                 e == Elapsed(t.finish, p.timestamp)
      <3>1. Wellformed(summary[n]) /\ Wellformed(t)
        BY <1>3, <1>4, RebasedWellformed
      <3>2. sum \in Nat
        BY <1>2, <3>1, PowerOfIsNat DEF Wellformed, Summaries
      <3>3. summary[n].energy[q] \in Digits
        BY <3>1 DEF Wellformed, Summaries
      <3>4. summary'[n].energy[q] = UpdateEnergy(summary[n].energy[q], sum, e)
        BY <1>3, <1>5, <2>3, <3>1, EnergyOfUpdate
      <3>5. /\ e \in Timespec /\ e.nsec \in 0 .. ONE_PER_NANO - 1
            /\ Ticks(e) = IF summary[n].num_powerlog > 0 THEN d ELSE 0
        BY <1>1, <2>3, SampleElapsed DEF p
      <3> HIDE DEF t, sum, e
      <3>6. e.sec >= 0 /\ e.nsec >= 0
        BY <1>2, <1>7, <3>5, ForwardSeconds, Units
      <3> QED
        BY <2>1, <3>2, <3>3, <3>4, <3>5, <3>6, UpdateEnergyFits
    <2> QED
      BY <2>2, <2>3
  <1>9. ~backwards' => BatchesDisjoint'
    <2> SUFFICES ASSUME ~backwards' PROVE BatchesDisjoint'
      OBVIOUS
    <2>1. BatchesDisjoint /\ d >= 0 /\ batchTime' = batchTime
      BY <1>7 DEF RangeInv, Sample
    <2>2. CASE phase # "cnn"
      <3>1. summary'["cnn"] = summary["cnn"] /\ summary'["batch"] = summary["batch"]
        BY <1>5, <2>2 DEF Open, Names
      <3> QED
        BY <2>1, <3>1 DEF BatchesDisjoint
    <2>3. CASE phase = "cnn"
      <3> DEFINE cnn == summary["cnn"]
                 batch == summary["batch"]
                 cnn1 == summary'["cnn"]
                 batch1 == summary'["batch"]
      <3>1. {"cnn", "batch"} \subseteq Open
        BY <2>3 DEF Open, Names
      <3>2. /\ Wellformed(cnn) /\ cnn.num_powerlog \in Nat
            /\ Wellformed(batch) /\ batch.num_powerlog \in Nat
        BY <1>4 DEF Names, Wellformed, Summaries
      <3>3. ASSUME NEW n \in {"cnn", "batch"}
            PROVE  /\ summary'[n].finish = p.timestamp
                   /\ summary'[n].num_powerlog = summary[n].num_powerlog + 1
                   /\ summary'[n].start = IF summary[n].num_powerlog = 0
                                          THEN p.timestamp ELSE summary[n].start
        <4>1. n \in Names /\ \A c \in Rates :
                summary[n].psum[c].nsec \in 0 .. ONE_PER_NANO - 1
          BY <1>1 DEF IInv, PsumIsExact, Names
        <4> QED
          BY <1>3, <1>4, <1>5, <3>1, <4>1, UpdateSummaryWellformed, UpdateSummaryRange
      <3>4. /\ cnn1.num_powerlog > 0 /\ batch1.num_powerlog > 0
            /\ Ticks(cnn1.finish) = clock + d /\ Ticks(batch1.finish) = clock + d
            /\ Ticks(cnn1.start) = IF cnn.num_powerlog = 0
                                   THEN clock + d ELSE Ticks(cnn.start)
            /\ Ticks(batch1.start) = IF batch.num_powerlog = 0
                                     THEN clock + d ELSE Ticks(batch.start)
        BY <1>3, <3>2, <3>3
      <3>5. cnn.num_powerlog > 0 => Ticks(cnn.finish) = clock
        BY <1>1, <3>1 DEF IInv, EndsAtClock
      <3>6. /\ Ticks(cnn.start) \in Int /\ Ticks(cnn.finish) \in Int
            /\ Ticks(batch.start) \in Int /\ batchTime \in Int
        BY <1>1, <3>2, Units DEF Wellformed, Summaries, Ticks, Timespec, IInv, TypeOK
      <3>7. /\ cnn.num_powerlog = 0 => batch.num_powerlog = 0 /\ batchTime = 0
            /\ batchTime <= (IF batch.num_powerlog > 0 THEN Ticks(batch.start)
                                                       ELSE Ticks(cnn.finish))
                              - Ticks(cnn.start)
        BY <2>1 DEF BatchesDisjoint
      <3> HIDE DEF cnn, batch, cnn1, batch1
      <3>8. batchTime <= Ticks(batch1.start) - Ticks(cnn1.start)
        BY <1>2, <2>1, <3>2, <3>4, <3>5, <3>6, <3>7
      <3> QED
        BY <2>1, <3>4, <3>8 DEF BatchesDisjoint, cnn1, batch1
    <2> QED
      BY <2>2, <2>3
  <1> QED
    BY <1>1, <1>6, <1>8, <1>9 DEF RangeInv

LEMMA RuntimeTicks ==
    ASSUME NEW s, Wellformed(s)
    PROVE  /\ Runtime(s) = Ticks(s.finish) - Ticks(s.start)
           /\ Ticks(s.finish) \in Int /\ Ticks(s.start) \in Int
  <1>1. s.start \in Timespec /\ s.finish \in Timespec
    BY DEF Wellformed, Summaries
  <1>2. Ticks(s.finish) \in Int /\ Ticks(s.start) \in Int
    BY <1>1, Units DEF Ticks, Timespec
  <1> QED
    BY <1>1, <1>2, ElapsedTicks DEF Runtime

LEMMA BatchFinishKeepsRangeInv ==
    ASSUME RangeInv, BatchFinish
    PROVE  RangeInv'
  <1> DEFINE s == summary["batch"]
             u == InitSummary(s)
             cnn == summary["cnn"]
  <1>1. IInv /\ IInv'
    BY BatchFinishKeepsIInv DEF RangeInv
  <1>2. /\ Wellformed(s) /\ Wellformed(cnn)
        /\ s.num_powerlog \in Nat /\ batchTime \in Int
    BY <1>1 DEF IInv, TypeOK, Wellformed, Names, Summaries
  <1>3. /\ u.num_powerlog = 0
        /\ u.start = s.start /\ u.finish = s.finish
        /\ u.energy = [q \in Energies |-> ZeroDigits]
        /\ \A c \in Ranged : u.max[c] = INIT_MAX /\ u.min[c] = INIT_MIN(c)
    BY <1>2, InitSummaryWellformed, InitSummaryRange
  <1>4. summary' = [summary EXCEPT !["batch"] = u]
    BY DEF BatchFinish
  <1> HIDE DEF u
  <1>5. /\ summary'["batch"] = u
        /\ \A n \in Names \ {"batch"} : summary'[n] = summary[n]
        /\ "batch" \in Names /\ "cnn" \in Names \ {"batch"}
    BY <1>1, <1>4 DEF IInv, TypeOK, Names
  <1>6. ExtremesOfWindow'
    <2>1. /\ window'["batch"] = {}
          /\ \A n \in Names \ {"batch"} : window'[n] = window[n]
      BY <1>1, <1>5 DEF BatchFinish, IInv, TypeOK
    <2>2. ASSUME NEW n \in Names, NEW c \in Ranged
          PROVE  Extremes(window'[n], c, summary'[n].max[c], summary'[n].min[c])
      <3>1. Extremes(window[n], c, summary[n].max[c], summary[n].min[c])
        BY DEF RangeInv, ExtremesOfWindow, Extremes
      <3>2. CASE n = "batch"
        BY <1>3, <1>5, <2>1, <3>2 DEF Extremes
      <3>3. CASE n # "batch"
        BY <1>5, <2>1, <3>1, <3>3
      <3> QED
        BY <3>2, <3>3
    <2> QED
      BY <2>2 DEF ExtremesOfWindow, Extremes
  <1>7. DigitsFit'
    <2>1. Fits(ZeroDigits)
      BY Units DEF Fits, ZeroDigits
    <2>2. backwards' = backwards
      BY DEF BatchFinish
    <2> SUFFICES ASSUME ~backwards, NEW n \in Names, NEW q \in Energies
                 PROVE  Fits(summary'[n].energy[q])
      BY <2>2 DEF DigitsFit
    <2>3. Fits(summary[n].energy[q])
      BY DEF RangeInv, DigitsFit
    <2>4. CASE n = "batch"
      BY <1>3, <1>5, <2>1, <2>4
    <2>5. CASE n # "batch"
      BY <1>5, <2>3, <2>5
    <2> QED
      BY <2>4, <2>5
  <1>8. ~backwards' => BatchesDisjoint'
    <2>1. backwards' = backwards
      BY DEF BatchFinish
    <2> SUFFICES ASSUME ~backwards PROVE BatchesDisjoint'
      BY <2>1
    <2>2. BatchesDisjoint
      BY DEF RangeInv
    <2>3. /\ Runtime(s) = Ticks(s.finish) - Ticks(s.start)
          /\ Ticks(s.finish) \in Int /\ Ticks(s.start) \in Int
          /\ Ticks(cnn.finish) \in Int /\ Ticks(cnn.start) \in Int
      BY <1>2, RuntimeTicks
    <2>4. batchTime' = IF s.num_powerlog > 0 THEN batchTime + Runtime(s) ELSE batchTime
      BY DEF BatchFinish
    <2>5. batchTime' <= Ticks(cnn.finish) - Ticks(cnn.start)
      BY <1>2, <2>2, <2>3, <2>4 DEF BatchesDisjoint
    <2>6. cnn.num_powerlog = 0 => batchTime' = 0
      BY <1>2, <2>2, <2>4 DEF BatchesDisjoint
    <2>7. summary'["cnn"] = cnn /\ summary'["batch"] = u
      BY <1>5
    <2> QED
      BY <1>3, <2>2, <2>5, <2>6, <2>7 DEF BatchesDisjoint
  <1> QED
    BY <1>1, <1>6, <1>7, <1>8 DEF RangeInv

LEMMA NextKeepsRangeInv == RangeInv /\ [Next]_vars => RangeInv'
  <1> SUFFICES ASSUME RangeInv, [Next]_vars PROVE RangeInv'
    OBVIOUS
  <1>1. ASSUME UNCHANGED <<summary, window, batchTime, backwards>>, IInv'
        PROVE  RangeInv'
    BY <1>1 DEF RangeInv, ExtremesOfWindow, DigitsFit, BatchesDisjoint
  <1>2. IInv'
    BY NextKeepsIInv DEF RangeInv
  <1>3. CASE \E r \in Readings, d \in Steps : Sample(r, d)
    BY <1>3, SampleKeepsRangeInv
  <1>4. CASE CnnEvent
    BY <1>1, <1>2, <1>4 DEF CnnEvent, historyVars
  <1>5. CASE BatchFinish
    BY <1>5, BatchFinishKeepsRangeInv
  <1>6. CASE UNCHANGED vars
    BY <1>1, <1>2, <1>6 DEF vars, historyVars
  <1> QED
    BY <1>3, <1>4, <1>5, <1>6 DEF Next

LEMMA RangeInvariant == Spec => []RangeInv
  BY InitRangeInv, NextKeepsRangeInv, PTL DEF Spec

\* While the clock goes forward every digit of every energy stays in its
\* places (summary.c:150-200), so that the statistics print a decimal number.
THEOREM EveryDigitFits == Spec => []DigitsFit
  <1>1. RangeInv => DigitsFit
    BY DEF RangeInv
  <1> QED
    BY <1>1, RangeInvariant, PTL

\* The extremes update_summary() keeps are those of the samples since
\* init_summary(), for any readings of the columns' width.
THEOREM ExtremesAreOwn == Spec => []ExtremesOfWindow
  <1>1. RangeInv => ExtremesOfWindow
    BY DEF RangeInv
  <1> QED
    BY <1>1, RangeInvariant, PTL

\* Batches with samples share the inference's time without overlap, for any
\* number of them and any samples, while the clock goes forward.
THEOREM BatchesShareCnn == Spec => []BatchesWithinCnn
  <1>1. RangeInv => BatchesWithinCnn
    <2> SUFFICES ASSUME RangeInv, ~backwards
                 PROVE  batchTime + (IF summary["batch"].num_powerlog > 0
                                     THEN Runtime(summary["batch"]) ELSE 0)
                          <= Runtime(summary["cnn"])
      BY DEF BatchesWithinCnn
    <2> DEFINE cnn == summary["cnn"]
               batch == summary["batch"]
    <2>1. Wellformed(cnn) /\ Wellformed(batch) /\ batchTime \in Int
      BY DEF RangeInv, IInv, TypeOK, Wellformed, Names
    <2>2. BatchesDisjoint
      BY DEF RangeInv
    <2>3. /\ Runtime(cnn) = Ticks(cnn.finish) - Ticks(cnn.start)
          /\ Runtime(batch) = Ticks(batch.finish) - Ticks(batch.start)
          /\ Ticks(cnn.finish) \in Int /\ Ticks(cnn.start) \in Int
          /\ Ticks(batch.finish) \in Int /\ Ticks(batch.start) \in Int
      BY <2>1, RuntimeTicks
    <2> QED
      BY <2>1, <2>2, <2>3 DEF BatchesDisjoint
  <1> QED
    BY <1>1, RangeInvariant, PTL
=============================================================================
