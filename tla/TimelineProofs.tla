--------------------------- MODULE TimelineProofs ---------------------------
(* Proofs about the abstract timeline: its types, and that it is in order.  *)
EXTENDS Timeline, TLAPS

\* Counters stay within the logs and the rows are rows.
THEOREM TypeCorrect == Spec => []TypeOK
<1> USE DEF TypeOK
<1>1. Init => TypeOK
  BY DEF Init
<1>2. TypeOK /\ [Next]_vars => TypeOK'
  <2> SUFFICES ASSUME TypeOK, [Next]_vars PROVE TypeOK'
    OBVIOUS
  <2>1. CASE LearnEvent
    <3>1. PICK t \in Int : events' = Append(events, t)
      BY <2>1 DEF LearnEvent
    <3>2. events' \in Seq(Int) /\ Len(events') = Len(events) + 1
      BY <3>1
    <3>3. UNCHANGED <<samples, numSamples, numEvents, timeline>>
      BY <2>1 DEF LearnEvent
    <3>4. numEvents' \in 0 .. Len(events')
      BY <3>2, <3>3
    <3> QED BY <3>2, <3>3, <3>4
  <2>2. CASE AddSample
    <3>1. samples[numSamples + 1] \in Int
      BY <2>2 DEF AddSample
    <3> QED BY <2>2, <3>1 DEF AddSample, Row
  <2>3. CASE AddEvent
    <3>1. events[numEvents + 1] \in Int
      BY <2>3 DEF AddEvent
    <3> QED BY <2>3, <3>1 DEF AddEvent, Row
  <2>4. CASE UNCHANGED vars
    BY <2>4 DEF vars
  <2> QED BY <2>1, <2>2, <2>3, <2>4 DEF Next
<1> QED BY <1>1, <1>2, PTL DEF Spec

-----------------------------------------------------------------------------
\* Nothing that is still to come is earlier than a row that is written.
NothingEarlierLeft ==
  Sorted(samples) /\ Sorted(events) =>
    \A i \in 1 .. Len(timeline) :
      /\ \A s \in numSamples + 1 .. Len(samples) :
           timeline[i].timestamp <= samples[s]
      /\ \A e \in numEvents + 1 .. Len(events) :
           timeline[i].timestamp <= events[e]

OrderInv == TypeOK /\ TimelineSorted /\ NothingEarlierLeft

\* What an appended row has to satisfy for a bound, and for the order, to go on.
LEMMA AppendBound ==
  ASSUME NEW rows \in Seq(Row), NEW r \in Row, NEW x \in Int,
         \A i \in 1 .. Len(rows) : rows[i].timestamp <= x,
         r.timestamp <= x
  PROVE  \A i \in 1 .. Len(Append(rows, r)) : Append(rows, r)[i].timestamp <= x
<1> SUFFICES ASSUME NEW i \in 1 .. Len(Append(rows, r))
             PROVE  Append(rows, r)[i].timestamp <= x
  OBVIOUS
<1>1. CASE i \in 1 .. Len(rows)
  <2>1. Append(rows, r)[i] = rows[i]
    BY <1>1
  <2> QED BY <1>1, <2>1
<1>2. CASE i = Len(rows) + 1
  <2>1. Append(rows, r)[i] = r
    BY <1>2
  <2> QED BY <2>1
<1> QED BY <1>1, <1>2

LEMMA AppendSorted ==
  ASSUME NEW rows \in Seq(Row), NEW r \in Row,
         \A i, j \in 1 .. Len(rows) :
           i <= j => rows[i].timestamp <= rows[j].timestamp,
         \A i \in 1 .. Len(rows) : rows[i].timestamp <= r.timestamp
  PROVE  \A i, j \in 1 .. Len(Append(rows, r)) : i <= j =>
           Append(rows, r)[i].timestamp <= Append(rows, r)[j].timestamp
<1> SUFFICES ASSUME NEW i \in 1 .. Len(Append(rows, r)),
                    NEW j \in 1 .. Len(Append(rows, r)), i <= j
             PROVE  Append(rows, r)[i].timestamp <= Append(rows, r)[j].timestamp
  OBVIOUS
<1>1. r.timestamp \in Int
  BY DEF Row
<1>2. CASE j \in 1 .. Len(rows)
  <2>1. i \in 1 .. Len(rows)
    BY <1>2
  <2>2. Append(rows, r)[i] = rows[i] /\ Append(rows, r)[j] = rows[j]
    BY <1>2, <2>1
  <2> QED BY <1>2, <2>1, <2>2
<1>3. CASE j = Len(rows) + 1
  <2>1. Append(rows, r)[j].timestamp = r.timestamp
    BY <1>3
  <2>2. \A k \in 1 .. Len(Append(rows, r)) :
          Append(rows, r)[k].timestamp <= r.timestamp
    BY <1>1, AppendBound
  <2> QED BY <2>1, <2>2
<1> QED BY <1>2, <1>3

LEMMA OrderStep == OrderInv /\ TypeOK' /\ [Next]_vars => OrderInv'
<1> SUFFICES ASSUME OrderInv, TypeOK', [Next]_vars
             PROVE  TimelineSorted' /\ NothingEarlierLeft'
  BY DEF OrderInv
<1>0. /\ TypeOK /\ TimelineSorted /\ NothingEarlierLeft
      /\ samples \in Seq(Int) /\ events \in Seq(Int) /\ timeline \in Seq(Row)
      /\ numSamples \in 0 .. Len(samples) /\ numEvents \in 0 .. Len(events)
  BY DEF OrderInv, TypeOK
<1>1. CASE LearnEvent
  <2>1. timeline' = <<>>
    BY <1>1 DEF LearnEvent
  <2> QED BY <2>1 DEF TimelineSorted, NothingEarlierLeft
<1>2. CASE AddSample
  <2> DEFINE t == samples[numSamples + 1]
             r == [from |-> "sample", index |-> numSamples + 1, timestamp |-> t]
  <2>1. /\ samples' = samples /\ events' = events /\ numEvents' = numEvents
        /\ numSamples' = numSamples + 1 /\ numSamples < Len(samples)
        /\ timeline' = Append(timeline, r) /\ SampleFirst
    BY <1>2 DEF AddSample
  <2>2. SUFFICES ASSUME Sorted(samples), Sorted(events)
                 PROVE  TimelineSorted' /\ NothingEarlierLeft'
    BY <2>1 DEF TimelineSorted, NothingEarlierLeft, Sorted
  <2>3. t \in Int /\ r \in Row /\ r.timestamp = t
    BY <1>0, <2>1 DEF Row
  <2>4. \A i \in 1 .. Len(timeline) : timeline[i].timestamp <= t
    <3>1. numSamples + 1 \in numSamples + 1 .. Len(samples)
      BY <1>0, <2>1
    <3> QED BY <1>0, <2>2, <3>1 DEF NothingEarlierLeft
  <2>5. \A s \in numSamples + 2 .. Len(samples) :
          samples[s] \in Int /\ t <= samples[s]
    <3> SUFFICES ASSUME NEW s \in numSamples + 2 .. Len(samples)
                 PROVE  samples[s] \in Int /\ t <= samples[s]
      OBVIOUS
    <3>1. /\ numSamples + 1 \in 1 .. Len(samples) /\ s \in 1 .. Len(samples)
          /\ numSamples + 1 <= s
      BY <1>0, <2>1
    <3> QED BY <1>0, <2>2, <3>1 DEF Sorted
  <2>6. \A e \in numEvents + 1 .. Len(events) :
          events[e] \in Int /\ t <= events[e]
    <3> SUFFICES ASSUME NEW e \in numEvents + 1 .. Len(events)
                 PROVE  events[e] \in Int /\ t <= events[e]
      OBVIOUS
    <3>1. numEvents + 1 \in 1 .. Len(events) /\ e \in 1 .. Len(events)
      BY <1>0
    <3>2. events[numEvents + 1] \in Int /\ events[e] \in Int
      BY <1>0, <3>1
    <3>3. t < events[numEvents + 1]
      BY <1>0, <2>1, <3>1 DEF SampleFirst
    <3>4. events[numEvents + 1] <= events[e]
      BY <1>0, <2>2, <3>1 DEF Sorted
    <3> QED BY <2>3, <3>2, <3>3, <3>4
  <2>7. TimelineSorted'
    BY <1>0, <2>1, <2>2, <2>3, <2>4, AppendSorted DEF TimelineSorted
  <2>8. \A s \in numSamples + 2 .. Len(samples) : \A i \in 1 .. Len(timeline') :
          timeline'[i].timestamp <= samples[s]
    <3> SUFFICES ASSUME NEW s \in numSamples + 2 .. Len(samples)
                 PROVE  \A i \in 1 .. Len(timeline') :
                          timeline'[i].timestamp <= samples[s]
      OBVIOUS
    <3>0. s \in numSamples + 1 .. Len(samples)
      BY <1>0
    <3>1. \A i \in 1 .. Len(timeline) : timeline[i].timestamp <= samples[s]
      BY <1>0, <2>2, <3>0 DEF NothingEarlierLeft
    <3> HIDE DEF r
    <3> QED BY <1>0, <2>1, <2>3, <2>5, <3>1, AppendBound
  <2>9. \A e \in numEvents + 1 .. Len(events) : \A i \in 1 .. Len(timeline') :
          timeline'[i].timestamp <= events[e]
    <3> SUFFICES ASSUME NEW e \in numEvents + 1 .. Len(events)
                 PROVE  \A i \in 1 .. Len(timeline') :
                          timeline'[i].timestamp <= events[e]
      OBVIOUS
    <3>1. \A i \in 1 .. Len(timeline) : timeline[i].timestamp <= events[e]
      BY <1>0, <2>2 DEF NothingEarlierLeft
    <3> HIDE DEF r
    <3> QED BY <1>0, <2>1, <2>3, <2>6, <3>1, AppendBound
  <2> QED BY SMTT(30), <1>0, <2>1, <2>7, <2>8, <2>9 DEF NothingEarlierLeft
<1>3. CASE AddEvent
  <2> DEFINE t == events[numEvents + 1]
             r == [from |-> "event", index |-> numEvents + 1, timestamp |-> t]
  <2>1. /\ samples' = samples /\ events' = events /\ numSamples' = numSamples
        /\ numEvents' = numEvents + 1 /\ numEvents < Len(events)
        /\ numSamples < Len(samples)
        /\ timeline' = Append(timeline, r) /\ ~SampleFirst
    BY <1>3 DEF AddEvent
  <2>2. SUFFICES ASSUME Sorted(samples), Sorted(events)
                 PROVE  TimelineSorted' /\ NothingEarlierLeft'
    BY <2>1 DEF TimelineSorted, NothingEarlierLeft, Sorted
  <2>3. t \in Int /\ r \in Row /\ r.timestamp = t
    BY <1>0, <2>1 DEF Row
  <2>4. \A i \in 1 .. Len(timeline) : timeline[i].timestamp <= t
    <3>1. numEvents + 1 \in numEvents + 1 .. Len(events)
      BY <1>0, <2>1
    <3> QED BY <1>0, <2>2, <3>1 DEF NothingEarlierLeft
  <2>5. \A e \in numEvents + 2 .. Len(events) :
          events[e] \in Int /\ t <= events[e]
    <3> SUFFICES ASSUME NEW e \in numEvents + 2 .. Len(events)
                 PROVE  events[e] \in Int /\ t <= events[e]
      OBVIOUS
    <3>1. /\ numEvents + 1 \in 1 .. Len(events) /\ e \in 1 .. Len(events)
          /\ numEvents + 1 <= e
      BY <1>0, <2>1
    <3> QED BY <1>0, <2>2, <3>1 DEF Sorted
  <2>6. \A s \in numSamples + 1 .. Len(samples) :
          samples[s] \in Int /\ t <= samples[s]
    <3> SUFFICES ASSUME NEW s \in numSamples + 1 .. Len(samples)
                 PROVE  samples[s] \in Int /\ t <= samples[s]
      OBVIOUS
    <3>1. numSamples + 1 \in 1 .. Len(samples) /\ s \in 1 .. Len(samples)
      BY <1>0
    <3>2. samples[numSamples + 1] \in Int /\ samples[s] \in Int
      BY <1>0, <3>1
    <3>3. t <= samples[numSamples + 1]
      BY <2>1, <2>3, <3>2 DEF SampleFirst
    <3>4. samples[numSamples + 1] <= samples[s]
      BY <1>0, <2>2, <3>1 DEF Sorted
    <3> QED BY <2>3, <3>2, <3>3, <3>4
  <2>7. TimelineSorted'
    BY <1>0, <2>1, <2>2, <2>3, <2>4, AppendSorted DEF TimelineSorted
  <2>8. \A e \in numEvents + 2 .. Len(events) : \A i \in 1 .. Len(timeline') :
          timeline'[i].timestamp <= events[e]
    <3> SUFFICES ASSUME NEW e \in numEvents + 2 .. Len(events)
                 PROVE  \A i \in 1 .. Len(timeline') :
                          timeline'[i].timestamp <= events[e]
      OBVIOUS
    <3>0. e \in numEvents + 1 .. Len(events)
      BY <1>0
    <3>1. \A i \in 1 .. Len(timeline) : timeline[i].timestamp <= events[e]
      BY <1>0, <2>2, <3>0 DEF NothingEarlierLeft
    <3> HIDE DEF r
    <3> QED BY <1>0, <2>1, <2>3, <2>5, <3>1, AppendBound
  <2>9. \A s \in numSamples + 1 .. Len(samples) : \A i \in 1 .. Len(timeline') :
          timeline'[i].timestamp <= samples[s]
    <3> SUFFICES ASSUME NEW s \in numSamples + 1 .. Len(samples)
                 PROVE  \A i \in 1 .. Len(timeline') :
                          timeline'[i].timestamp <= samples[s]
      OBVIOUS
    <3>1. \A i \in 1 .. Len(timeline) : timeline[i].timestamp <= samples[s]
      BY <1>0, <2>2 DEF NothingEarlierLeft
    <3> HIDE DEF r
    <3> QED BY <1>0, <2>1, <2>3, <2>6, <3>1, AppendBound
  <2> QED BY SMTT(30), <1>0, <2>1, <2>7, <2>8, <2>9 DEF NothingEarlierLeft
<1>4. CASE UNCHANGED vars
  BY <1>0, <1>4 DEF vars, TimelineSorted, NothingEarlierLeft
<1> QED BY <1>1, <1>2, <1>3, <1>4 DEF Next

\* If both logs are in the order of time, so is every prefix of the timeline.
THEOREM OrderCorrect == Spec => []TimelineSorted
<1>1. Init /\ TypeOK => OrderInv
  BY DEF Init, OrderInv, TimelineSorted, NothingEarlierLeft
<1>2. OrderInv => TimelineSorted
  BY DEF OrderInv
<1> QED BY <1>1, <1>2, OrderStep, TypeCorrect, PTL DEF Spec
=============================================================================
