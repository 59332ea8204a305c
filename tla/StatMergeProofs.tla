-------------------------- MODULE StatMergeProofs ---------------------------
(***************************************************************************)
(* Proofs about calculate_2ndstat(), for every log of Caffe and every      *)
(* rawdata file: its types, that the rows are the timeline the module      *)
(* Timeline promises, hence in order, that nothing is left out of them,    *)
(* that the batch summaries partition the summary of the CNN and hold      *)
(* samples of their own batch only, and that the CNN's is off by one event *)
(* at most.  The last two parts are about the parser alone: the CNN ends   *)
(* with the last batch of a well-formed log, and each batch once, in order.*)
(***************************************************************************)
EXTENDS StatMerge, FiniteSetTheorems, TLAPS

-----------------------------------------------------------------------------
(* Counting. *)

\* Counting from 1 on, one more is one more.
LEMMA CountNext ==
  ASSUME NEW n \in Nat, NEW S \in SUBSET (1 .. n)
  PROVE  /\ IsFiniteSet(S) /\ Cardinality(S) \in Nat
         /\ Cardinality(S \cup {n + 1}) = Cardinality(S) + 1
<1>1. IsFiniteSet(1 .. n)
  BY FS_Interval
<1>2. IsFiniteSet(S)
  BY <1>1, FS_Subset
<1>3. n + 1 \notin S
  OBVIOUS
<1> QED BY <1>2, <1>3, FS_CardinalityType, FS_AddElement

-----------------------------------------------------------------------------
(* Types. *)

\* What the parser makes of a line is a parser state and a record.
LEMMA ParserTypes ==
  ASSUME NEW p \in ParserState, NEW line \in Line
  PROVE  NextParser(p, line) \in ParserState /\ ToCaffelog(p, line) \in Caffelog
<1>1. Timestamp(line) \in Int
  BY LogAssumption DEF Timestamp, Line
<1>2. /\ StartsCnn(p, line) \in BOOLEAN /\ ReportsBatch(p, line) \in BOOLEAN
      /\ FinishesBatch(p, line) \in BOOLEAN /\ FinishesCnn(p, line) \in BOOLEAN
      /\ p.cnn_start \in BOOLEAN /\ p.cnn_finish \in BOOLEAN
      /\ p.caffe_start \in BOOLEAN
      /\ p.batch_idx \in Int /\ p.num_batch \in Nat /\ line.n \in Nat
  BY DEF ParserState, Line, StartsCnn, ReportsBatch, FinishesBatch, FinishesCnn
<1>3. FinishesCnn(p, line) => ReportsBatch(p, line)
  BY DEF FinishesCnn
<1>4. NextParser(p, line) \in ParserState
  <2>1. NextParser(p, line).batch_idx \in Int
    BY <1>2, <1>3 DEF NextParser
  <2>2. NextParser(p, line).num_batch \in Nat
    BY <1>2 DEF NextParser
  <2>3. /\ (p.cnn_start \/ StartsCnn(p, line)) \in BOOLEAN
        /\ (p.cnn_finish \/ FinishesCnn(p, line)) \in BOOLEAN
    BY <1>2
  <2> QED BY <2>1, <2>2, <2>3 DEF NextParser, ParserState
<1>5. ToCaffelog(p, line) \in Caffelog
  <2>1. NextParser(p, line).batch_idx \in Int
    BY <1>4 DEF ParserState
  <2>2. ToCaffelog(p, line).batch_idx \in Int
    BY <1>2, <2>1 DEF ToCaffelog
  <2>3. ToCaffelog(p, line).batch_finish \in {0, 1, INFINITE}
    BY <1>2 DEF ToCaffelog
  <2>4. (~p.caffe_start) \in BOOLEAN
    BY <1>2
  <2> QED BY <1>1, <1>2, <2>2, <2>3, <2>4 DEF ToCaffelog, Caffelog
<1> QED BY <1>4, <1>5

LEMMA ParserInitType == ParserInit => ParserTypeOK
<1> SUFFICES ASSUME ParserInit PROVE ParserTypeOK
  OBVIOUS
<1>1. log \in Seq(Line) /\ offset \in -1 .. Len(log) /\ caffelogs \in Seq(Caffelog)
  BY LogAssumption DEF ParserInit
<1>2. caffelog_parser \in ParserState
  BY DEF ParserInit, InitParser, ParserState
<1> QED BY <1>1, <1>2 DEF ParserTypeOK

LEMMA ParserStepType == ParserTypeOK /\ ParseCaffelog => ParserTypeOK'
<1> SUFFICES ASSUME ParserTypeOK, ParseCaffelog PROVE ParserTypeOK'
  OBVIOUS
<1>1. CASE SkipLine
  BY <1>1 DEF ParserTypeOK, SkipLine
<1>2. CASE ParseLine
  <2>1. log[offset + 1] \in Line
    BY <1>2 DEF ParserTypeOK, ParseLine
  <2>2. caffelog_parser' \in ParserState
    BY <1>2, <2>1, ParserTypes DEF ParserTypeOK, ParseLine
  <2>3. ToCaffelog(caffelog_parser, log[offset + 1]) \in Caffelog
    BY <2>1, ParserTypes DEF ParserTypeOK
  <2>4. caffelogs' \in Seq(Caffelog)
    BY <1>2, <2>3 DEF ParserTypeOK, ParseLine
  <2>5. log' \in Seq(Line) /\ offset' \in -1 .. Len(log')
    BY <1>2 DEF ParserTypeOK, ParseLine
  <2> QED BY <2>2, <2>4, <2>5 DEF ParserTypeOK
<1>3. CASE EndOfLog
  BY <1>3 DEF ParserTypeOK, EndOfLog
<1> QED BY <1>1, <1>2, <1>3 DEF ParseCaffelog

\* The parser alone, for every log: no line makes a record or a parser state of
\* another kind, and nothing is read beyond the end (caffelog.c:97-339).
THEOREM ParserTypeCorrect == ParserSpec => []ParserTypeOK
<1>1. ParserTypeOK /\ [ParseCaffelog \/ (Parsed /\ UNCHANGED parserVars)]_parserVars
        => ParserTypeOK'
  <2>1. CASE UNCHANGED parserVars
    BY <2>1 DEF parserVars, ParserTypeOK
  <2> QED BY <2>1, ParserStepType
<1> QED BY <1>1, ParserInitType, PTL DEF ParserSpec

\* The log only grows while it is parsed.
LEMMA ParserGrows ==
  ParserTypeOK /\ ParseCaffelog =>
    \/ caffelogs' = caffelogs
    \/ \E c \in Caffelog : caffelogs' = Append(caffelogs, c)
<1> SUFFICES ASSUME ParserTypeOK, ParseLine
             PROVE  \E c \in Caffelog : caffelogs' = Append(caffelogs, c)
  BY DEF ParseCaffelog, SkipLine, EndOfLog
<1>1. log[offset + 1] \in Line
  BY DEF ParserTypeOK, ParseLine
<1>2. ToCaffelog(caffelog_parser, log[offset + 1]) \in Caffelog
  BY <1>1, ParserTypes DEF ParserTypeOK
<1> QED BY <1>2 DEF ParseLine

LEMMA TypeInit == Init => TypeOK
<1> SUFFICES ASSUME Init PROVE TypeOK
  OBVIOUS
<1>1. ParserTypeOK
  BY ParserInitType DEF Init
<1>2. rawdata \in Seq(Nat) /\ powerlog \in 0 .. Len(rawdata)
  BY RawdataAssumption DEF Init
<1>3. caffelogs = <<>>
  BY DEF Init, ParserInit
<1>4. {summary_caffe, summary_cnn, summary_batch} \subseteq SUBSET Nat
  BY DEF Init
<1>5. printed \in Seq(SUBSET Nat) /\ rows \in Seq(Row)
  BY DEF Init
<1>6. {flag_cnnstart, flag_cnnfinish} \subseteq BOOLEAN
  BY DEF Init
<1>7. pc = "parse" /\ caffelog \in 1 .. Len(caffelogs) + 1
  BY <1>3 DEF Init
<1> QED BY <1>1, <1>2, <1>4, <1>5, <1>6, <1>7 DEF TypeOK

\* Every variable keeps its type; in particular the code never compares a
\* record of rawdata.bin that it has not read, nor a NULL event
\* (power_measurement.c:533-654).
THEOREM TypeCorrect == Spec => []TypeOK
<1>1. TypeOK /\ [Next]_vars => TypeOK'
  <2> SUFFICES ASSUME TypeOK, [Next]_vars PROVE TypeOK'
    OBVIOUS
  <2> USE DEF TypeOK, mergeVars, flagVars, summaryVars
  <2>1. CASE Parse
    <3>1. ParserTypeOK'
      BY <2>1, ParserStepType DEF Parse
    <3>2. Len(caffelogs) <= Len(caffelogs')
      BY <2>1, ParserGrows DEF Parse, ParserTypeOK
    <3>3. caffelogs' \in Seq(Caffelog) /\ caffelogs \in Seq(Caffelog)
      BY <3>1 DEF ParserTypeOK
    <3> QED BY <2>1, <3>1, <3>2, <3>3 DEF Parse
  <2> USE DEF parserVars
  <2>2. CASE StartMerge
    BY <2>2 DEF StartMerge, ParserTypeOK, Parsed
  <2>3. CASE ReadRawdata
    BY <2>3 DEF ReadRawdata, ParserTypeOK, Parsed
  <2>4. CASE WritePowerlog
    <3>1. rawdata[powerlog] \in Nat
      BY <2>4 DEF WritePowerlog
    <3>2. [from |-> "sample", index |-> powerlog, timestamp |-> rawdata[powerlog]]
            \in Row
      BY <2>4, <3>1 DEF WritePowerlog, Row
    <3>3. rows' \in Seq(Row)
      BY <2>4, <3>2 DEF WritePowerlog
    <3> QED BY SMTT(30), <2>4, <3>3 DEF WritePowerlog, ParserTypeOK, Parsed
  <2>5. CASE WriteCaffelog
    <3>1. caffelog \in 1 .. Len(caffelogs)
      BY <2>5 DEF WriteCaffelog, PowerlogFirst, NoCaffelog, ParserTypeOK
    <3>2. caffelogs[caffelog] \in Caffelog
      BY <3>1 DEF ParserTypeOK
    <3>3. [from |-> "event", index |-> caffelog,
           timestamp |-> caffelogs[caffelog].timestamp] \in Row
      BY <3>1, <3>2 DEF Row, Caffelog
    <3>4. rows' \in Seq(Row)
      BY <2>5, <3>3 DEF WriteCaffelog
    <3>5. printed' \in Seq(SUBSET Nat) /\ summary_batch' \in SUBSET Nat
      <4>1. summary_batch \in SUBSET Nat /\ printed \in Seq(SUBSET Nat)
        OBVIOUS
      <4>2. CASE caffelogs[caffelog].batch_finish = INFINITE
        <5>1. printed' = Append(printed, summary_batch) /\ summary_batch' = {}
          BY <2>5, <4>2 DEF WriteCaffelog
        <5>2. Append(printed, summary_batch) \in Seq(SUBSET Nat)
          BY <4>1
        <5> QED BY <5>1, <5>2
      <4>3. CASE caffelogs[caffelog].batch_finish # INFINITE
        BY <2>5, <4>1, <4>3 DEF WriteCaffelog
      <4> QED BY <4>2, <4>3
    <3>6. flag_cnnstart' \in BOOLEAN /\ flag_cnnfinish' \in BOOLEAN
      <4>1. caffelog < Len(caffelogs) =>
              /\ caffelogs[caffelog + 1].cnn_start \in BOOLEAN
              /\ caffelogs[caffelog + 1].cnn_finish \in BOOLEAN
        <5>1. caffelog < Len(caffelogs) => caffelogs[caffelog + 1] \in Caffelog
          BY <3>1 DEF ParserTypeOK
        <5> QED BY <5>1 DEF Caffelog
      <4> QED BY <2>5, <4>1 DEF WriteCaffelog
    <3>7. ParserTypeOK' /\ (pc' # "parse" => Parsed')
      BY <2>5 DEF WriteCaffelog, ParserTypeOK, Parsed
    <3>8. caffelog' \in 1 .. Len(caffelogs') + 1
      BY <2>5, <3>1 DEF WriteCaffelog, ParserTypeOK
    <3> QED BY <2>5, <3>4, <3>5, <3>6, <3>7, <3>8 DEF WriteCaffelog
  <2>6. CASE EndOfRawdata
    BY <2>6 DEF EndOfRawdata, ParserTypeOK, Parsed
  <2>7. CASE UNCHANGED vars
    BY <2>7 DEF vars, ParserTypeOK, Parsed
  <2> QED
    BY <2>1, <2>2, <2>3, <2>4, <2>5, <2>6, <2>7 DEF Next, Done
<1> QED BY <1>1, TypeInit, PTL DEF Spec

-----------------------------------------------------------------------------
(* The rows are a timeline. *)

TP == INSTANCE TimelineProofs WITH
    samples    <- rawdata,
    events     <- EventTimes,
    numSamples <- IF pc = "compare" THEN powerlog - 1 ELSE powerlog,
    numEvents  <- caffelog - 1,
    timeline   <- rows

\* Before the merge starts nothing is read and nothing is written.
Fresh == pc = "parse" => powerlog = 0 /\ caffelog = 1 /\ rows = <<>>

LEMMA FreshAlways == Spec => []Fresh
<1>1. Init => Fresh
  BY DEF Init, Fresh
<1>2. Fresh /\ [Next]_vars => Fresh'
  BY DEF Fresh, Next, vars, Parse, StartMerge, ReadRawdata, WritePowerlog,
         WriteCaffelog, EndOfRawdata, Done, mergeVars
<1> QED BY <1>1, <1>2, PTL DEF Spec

LEMMA EventTimesTypes ==
  ASSUME TypeOK
  PROVE  /\ EventTimes \in Seq(Int)
         /\ Len(EventTimes) = Len(caffelogs)
         /\ \A i \in 1 .. Len(caffelogs) :
              EventTimes[i] = caffelogs[i].timestamp
<1>1. caffelogs \in Seq(Caffelog)
  BY DEF TypeOK, ParserTypeOK
<1>2. \A i \in 1 .. Len(caffelogs) : caffelogs[i].timestamp \in Int
  <2> SUFFICES ASSUME NEW i \in 1 .. Len(caffelogs)
               PROVE  caffelogs[i].timestamp \in Int
    OBVIOUS
  <2>1. caffelogs[i] \in Caffelog
    BY <1>1
  <2> QED BY <2>1 DEF Caffelog
<1> QED BY <1>1, <1>2 DEF EventTimes

LEMMA MergeInit == Init => Merged!Init
<1> SUFFICES ASSUME Init PROVE Merged!Init
  OBVIOUS
<1>1. rawdata \in Seq(Int)
  BY RawdataAssumption DEF Init
<1>2. EventTimes = <<>>
  BY DEF Init, ParserInit, EventTimes
<1> QED BY <1>1, <1>2 DEF Init, Merged!Init

LEMMA MergeStep ==
  ASSUME TypeOK, TypeOK', Fresh, [Next]_vars
  PROVE  [Merged!Next]_(Merged!vars)
<1> USE DEF mergeVars, flagVars, summaryVars
<1>1. CASE Parse
  <2>1. CASE caffelogs' = caffelogs
    BY <1>1, <2>1 DEF Parse, Merged!vars, EventTimes
  <2>2. CASE \E c \in Caffelog : caffelogs' = Append(caffelogs, c)
    <3>1. PICK c \in Caffelog : caffelogs' = Append(caffelogs, c)
      BY <2>2
    <3>2. caffelogs \in Seq(Caffelog) /\ c.timestamp \in Int
      BY DEF TypeOK, ParserTypeOK, Caffelog
    <3>3. EventTimes' = Append(EventTimes, c.timestamp)
      BY <3>1, <3>2 DEF EventTimes
    <3>4. /\ Len(EventTimes') = Len(EventTimes) + 1
          /\ EventTimes'[Len(EventTimes) + 1] = c.timestamp
      BY <3>3, EventTimesTypes
    <3>5. Merged!LearnEvent
      BY <1>1, <3>2, <3>3, <3>4 DEF Parse, Fresh, Merged!LearnEvent
    <3> QED BY <3>5 DEF Merged!Next
  <2> QED BY <1>1, <2>1, <2>2, ParserGrows DEF Parse, TypeOK
<1>2. caffelogs' = caffelogs => EventTimes' = EventTimes
  BY DEF EventTimes
<1> USE DEF parserVars
<1>3. CASE StartMerge
  BY <1>2, <1>3 DEF StartMerge, Merged!vars
<1>4. CASE ReadRawdata
  BY <1>2, <1>4 DEF ReadRawdata, Merged!vars, TypeOK
<1>5. CASE WritePowerlog
  <2>1. /\ pc = "compare" /\ pc' = "read" /\ powerlog' = powerlog
        /\ powerlog \in 1 .. Len(rawdata) /\ caffelog' = caffelog
        /\ rawdata' = rawdata /\ EventTimes' = EventTimes
    BY <1>2, <1>5 DEF WritePowerlog, TypeOK
  <2>2. Merged!SampleFirst
    <3> SUFFICES ASSUME caffelog - 1 < Len(EventTimes)
                 PROVE  rawdata[powerlog] < EventTimes[caffelog]
      BY <2>1 DEF Merged!SampleFirst, TypeOK
    <3>0. Len(EventTimes) = Len(caffelogs)
      BY EventTimesTypes
    <3>1. caffelog \in 1 .. Len(caffelogs)
      BY <3>0 DEF TypeOK, ParserTypeOK
    <3> QED
      BY <1>5, <3>1, EventTimesTypes DEF WritePowerlog, PowerlogFirst, NoCaffelog
  <2>3. Merged!AddSample
    BY <1>5, <2>1, <2>2 DEF WritePowerlog, Merged!AddSample
  <2> QED BY <2>3 DEF Merged!Next
<1>6. CASE WriteCaffelog
  <2>1. /\ pc = "compare" /\ pc' = pc /\ powerlog' = powerlog
        /\ powerlog \in 1 .. Len(rawdata) /\ caffelog' = caffelog + 1
        /\ rawdata' = rawdata /\ EventTimes' = EventTimes
    BY <1>2, <1>6 DEF WriteCaffelog, TypeOK
  <2>2. /\ caffelog \in 1 .. Len(caffelogs)
        /\ ~(rawdata[powerlog] < caffelogs[caffelog].timestamp)
    BY <1>6 DEF WriteCaffelog, PowerlogFirst, NoCaffelog, TypeOK, ParserTypeOK
  <2>3. /\ caffelog - 1 < Len(EventTimes)
        /\ EventTimes[caffelog] = caffelogs[caffelog].timestamp
        /\ caffelog - 1 + 1 = caffelog /\ powerlog - 1 + 1 = powerlog
    BY <2>1, <2>2, EventTimesTypes
  <2>4. ~Merged!SampleFirst
    BY <2>1, <2>2, <2>3 DEF Merged!SampleFirst
  <2>5. Merged!AddEvent
    BY SMTT(30), <1>6, <2>1, <2>2, <2>3, <2>4 DEF WriteCaffelog, Merged!AddEvent
  <2> QED BY <2>5 DEF Merged!Next
<1>7. CASE EndOfRawdata
  BY <1>2, <1>7 DEF EndOfRawdata, Merged!vars
<1>8. CASE UNCHANGED vars
  BY <1>2, <1>8 DEF vars, Merged!vars
<1> QED BY <1>1, <1>3, <1>4, <1>5, <1>6, <1>7, <1>8 DEF Next, Done

\* Whatever the logs and the clock, the statistics file is the timeline of
\* Timeline: parsing teaches it the events, each row written is its next row,
\* and everything else leaves it alone (power_measurement.c:503-654).
THEOREM Implements == Spec => ImplementsTimeline
<1>1. TypeOK /\ TypeOK' /\ Fresh /\ [Next]_vars => [Merged!Next]_(Merged!vars)
  BY MergeStep
<1> QED
  BY <1>1, MergeInit, TypeCorrect, FreshAlways, PTL
     DEF Spec, Merged!Spec, ImplementsTimeline

\* With a clock that is not set back and a log that does not go past midnight
\* the rows are in the order of time (power_measurement.c:545-550).
THEOREM RowsInOrder == Spec => []RowsSorted
<1>1. TP!Spec => []TP!TimelineSorted
  BY TP!OrderCorrect
<1>2. Merged!Spec => TP!Spec
  BY DEF Merged!Spec, TP!Spec, Merged!Init, TP!Init, Merged!Next, TP!Next,
         Merged!vars, TP!vars, Merged!LearnEvent, TP!LearnEvent,
         Merged!AddSample, TP!AddSample, Merged!AddEvent, TP!AddEvent,
         Merged!SampleFirst, TP!SampleFirst
<1>3. TP!TimelineSorted => RowsSorted
  BY DEF TP!TimelineSorted, RowsSorted, Merged!Sorted, TP!Sorted
<1> QED BY <1>1, <1>2, <1>3, Implements, PTL DEF ImplementsTimeline

-----------------------------------------------------------------------------
(* The batch summaries partition the summary of the CNN.  For that to be     *)
(* inductive, the sample that is about to be counted must be a new one.      *)

Counted == IF pc = "compare" THEN powerlog - 1 ELSE powerlog

BatchInv == BatchesPartitionCnn /\ summary_cnn \subseteq 1 .. Counted

LEMMA UnionOfPrinted ==
  ASSUME NEW p \in Seq(SUBSET Nat)
  PROVE  UNION ToSet(p) = {x \in Nat : \E i \in 1 .. Len(p) : x \in p[i]}
<1>1. ToSet(p) = {p[i] : i \in 1 .. Len(p)}
  BY DEF ToSet
<1>2. \A i \in 1 .. Len(p) : p[i] \subseteq Nat
  OBVIOUS
<1> QED BY <1>1, <1>2

LEMMA BatchStep ==
  ASSUME TypeOK, TypeOK', BatchInv, [Next]_vars
  PROVE  BatchInv'
<1> USE DEF mergeVars, flagVars, summaryVars
<1>0. /\ printed \in Seq(SUBSET Nat) /\ printed' \in Seq(SUBSET Nat)
      /\ DOMAIN printed = 1 .. Len(printed)
      /\ DOMAIN printed' = 1 .. Len(printed')
      /\ summary_cnn \subseteq Nat /\ summary_batch \subseteq Nat
      /\ powerlog \in Nat
  BY SMTT(30) DEF TypeOK
<1>1. /\ summary_cnn = (UNION ToSet(printed)) \cup summary_batch
      /\ \A i \in 1 .. Len(printed) : printed[i] \cap summary_batch = {}
      /\ \A i, j \in 1 .. Len(printed) : i # j => printed[i] \cap printed[j] = {}
      /\ summary_cnn \subseteq 1 .. Counted
  BY <1>0 DEF BatchInv, BatchesPartitionCnn
<1>2. \A i \in 1 .. Len(printed) : printed[i] \subseteq summary_cnn
  BY <1>0, <1>1, UnionOfPrinted
<1>3. ASSUME UNCHANGED <<summary_cnn, summary_batch, printed>>,
             Counted' = Counted \/ Counted' = Counted + 1
      PROVE  BatchInv'
  <2>1. 1 .. Counted \subseteq 1 .. Counted'
    BY <1>0, <1>3 DEF Counted
  <2> QED BY <1>0, <1>1, <1>3, <2>1 DEF BatchInv, BatchesPartitionCnn
<1>4. CASE WritePowerlog
  <2>1. /\ Counted' = powerlog /\ Counted = powerlog - 1 /\ printed' = printed
        /\ powerlog \in 1 .. Len(rawdata)
    BY <1>4 DEF WritePowerlog, Counted, TypeOK
  <2>2. CASE UNCHANGED <<summary_cnn, summary_batch>>
    BY <1>0, <1>3, <2>1, <2>2
  <2>3. CASE /\ summary_cnn' = summary_cnn \cup {powerlog}
             /\ summary_batch' = summary_batch \cup {powerlog}
    <3>1. powerlog \notin summary_cnn
      BY <1>0, <1>1, <2>1
    <3>2. summary_cnn' = (UNION ToSet(printed')) \cup summary_batch'
      BY <1>1, <2>1, <2>3
    <3>3. \A i \in 1 .. Len(printed) : printed[i] \cap summary_batch' = {}
      BY <1>1, <1>2, <2>3, <3>1
    <3>4. summary_cnn' \subseteq 1 .. Counted'
      BY <1>0, <1>1, <2>1, <2>3
    <3> QED
      BY <1>0, <1>1, <2>1, <3>2, <3>3, <3>4 DEF BatchInv, BatchesPartitionCnn
  <2> QED BY <1>4, <2>2, <2>3 DEF WritePowerlog
<1>5. CASE WriteCaffelog
  <2>1. Counted' = Counted /\ summary_cnn' = summary_cnn
    BY <1>5 DEF WriteCaffelog, Counted
  <2>2. CASE UNCHANGED <<printed, summary_batch>>
    BY <1>3, <2>1, <2>2
  <2>3. CASE printed' = Append(printed, summary_batch) /\ summary_batch' = {}
    <3>1. /\ Len(printed') = Len(printed) + 1
          /\ printed'[Len(printed) + 1] = summary_batch
          /\ \A i \in 1 .. Len(printed) : printed'[i] = printed[i]
      BY <1>0, <2>3
    <3>2. summary_cnn' = (UNION ToSet(printed')) \cup summary_batch'
      <4>1. UNION ToSet(printed') = (UNION ToSet(printed)) \cup summary_batch
        BY SMTT(30), <1>0, <3>1, UnionOfPrinted
      <4> QED BY <1>1, <2>1, <2>3, <4>1
    <3>3. \A i, j \in 1 .. Len(printed') :
            i # j => printed'[i] \cap printed'[j] = {}
      <4> SUFFICES ASSUME NEW i \in 1 .. Len(printed'),
                          NEW j \in 1 .. Len(printed'), i # j
                   PROVE  printed'[i] \cap printed'[j] = {}
        OBVIOUS
      <4>1. CASE i \in 1 .. Len(printed) /\ j \in 1 .. Len(printed)
        BY <1>1, <3>1, <4>1
      <4>2. CASE i \in 1 .. Len(printed) /\ j = Len(printed) + 1
        BY <1>1, <3>1, <4>2
      <4>3. CASE i = Len(printed) + 1 /\ j \in 1 .. Len(printed)
        BY <1>1, <3>1, <4>3
      <4> QED BY <1>0, <3>1, <4>1, <4>2, <4>3
    <3> QED
      BY <1>0, <1>1, <2>1, <2>3, <3>2, <3>3 DEF BatchInv, BatchesPartitionCnn
  <2> QED BY <1>5, <2>2, <2>3 DEF WriteCaffelog
<1>6. CASE Parse
  BY <1>3, <1>6 DEF Parse, Counted
<1>7. CASE StartMerge
  BY <1>3, <1>7 DEF StartMerge, Counted
<1>8. CASE ReadRawdata
  <2>1. Counted' = Counted
    BY <1>0, <1>8 DEF ReadRawdata, Counted
  <2> QED BY <1>3, <1>8, <2>1 DEF ReadRawdata
<1>9. CASE EndOfRawdata
  BY <1>3, <1>9 DEF EndOfRawdata, Counted
<1>10. CASE UNCHANGED vars
  BY <1>3, <1>10 DEF vars, Counted
<1> QED
  BY <1>4, <1>5, <1>6, <1>7, <1>8, <1>9, <1>10 DEF Next, Done

\* Every sample counted for the CNN is counted for exactly one batch, printed or
\* current, whatever the logs say (power_measurement.c:553-556, 620-632).
THEOREM BatchesPartition == Spec => []BatchesPartitionCnn
<1>1. Init => BatchInv
  <2> SUFFICES ASSUME Init PROVE BatchInv
    OBVIOUS
  <2>1. printed = <<>> /\ summary_cnn = {} /\ summary_batch = {}
    BY DEF Init
  <2>2. ToSet(printed) = {}
    BY <2>1 DEF ToSet
  <2> QED BY <2>1, <2>2 DEF BatchInv, BatchesPartitionCnn
<1>2. BatchInv => BatchesPartitionCnn
  BY DEF BatchInv
<1>3. TypeOK /\ TypeOK' /\ BatchInv /\ [Next]_vars => BatchInv'
  BY BatchStep
<1> QED BY <1>1, <1>2, <1>3, TypeCorrect, PTL DEF Spec

-----------------------------------------------------------------------------
(* The CNN's summary is off by one event at most.                            *)

\* The first record cannot finish the CNN, since none has started it.
FinishNotFirst ==
  /\ caffelog_parser.cnn_start => Len(caffelogs) > 0
  /\ \A i \in CnnFinishes : i > 1

\* Nothing has happened before the merge starts.
Unstarted ==
  pc = "parse" => /\ powerlog = 0 /\ caffelog = 1 /\ rows = <<>>
                  /\ summary_cnn = {} /\ ~flag_cnnstart /\ ~flag_cnnfinish

\* The flags tell of the events up to the next one, except for the first event.
FlagsKnow ==
  /\ \A i \in CnnStarts : i > 1 /\ i <= caffelog => flag_cnnstart
  /\ flag_cnnstart => \E i \in CnnStarts : i > 1 /\ i <= caffelog
  /\ \A i \in CnnFinishes : i > 1 /\ i <= caffelog => flag_cnnfinish
  /\ flag_cnnfinish => \E i \in CnnFinishes : i > 1 /\ i <= caffelog

Ordered == Merged!Sorted(rawdata) /\ Merged!Sorted(EventTimes)

\* The events that have been written are no later than the latest sample.
WrittenArePast ==
  Ordered => \A e \in 1 .. caffelog - 1 :
               powerlog > 0 /\ rawdata[powerlog] >= caffelogs[e].timestamp

WithinInv == /\ FinishNotFirst /\ Unstarted /\ FlagsKnow /\ WrittenArePast
             /\ CnnSummaryWithinOneEvent

LEMMA OrderedTimes ==
  ASSUME TypeOK, Ordered
  PROVE  /\ \A i, j \in 1 .. Len(rawdata) : i <= j => rawdata[i] <= rawdata[j]
         /\ \A i, j \in 1 .. Len(caffelogs) :
              i <= j => caffelogs[i].timestamp <= caffelogs[j].timestamp
BY EventTimesTypes DEF Ordered, Merged!Sorted

LEMMA TimeTypes ==
  ASSUME TypeOK
  PROVE  /\ caffelogs \in Seq(Caffelog) /\ DOMAIN caffelogs = 1 .. Len(caffelogs)
         /\ Len(caffelogs) \in Nat /\ caffelog \in 1 .. Len(caffelogs) + 1
         /\ powerlog \in 0 .. Len(rawdata) /\ Len(rawdata) \in Nat
         /\ \A i \in 1 .. Len(caffelogs) : caffelogs[i].timestamp \in Int
         /\ \A i \in 1 .. Len(rawdata) : rawdata[i] \in Int
<1>1. caffelogs \in Seq(Caffelog)
  BY DEF TypeOK, ParserTypeOK
<1>2. \A i \in 1 .. Len(caffelogs) : caffelogs[i].timestamp \in Int
  <2> SUFFICES ASSUME NEW i \in 1 .. Len(caffelogs)
               PROVE  caffelogs[i].timestamp \in Int
    OBVIOUS
  <2>1. caffelogs[i] \in Caffelog
    BY <1>1
  <2> QED BY <2>1 DEF Caffelog
<1> QED BY <1>1, <1>2 DEF TypeOK

LEMMA WithinInit == Init => WithinInv
<1> SUFFICES ASSUME Init PROVE WithinInv
  OBVIOUS
<1>1. /\ caffelogs = <<>> /\ ~caffelog_parser.cnn_start /\ caffelog = 1
      /\ rows = <<>> /\ summary_cnn = {} /\ ~flag_cnnstart /\ ~flag_cnnfinish
      /\ powerlog = 0
  BY DEF Init, ParserInit, InitParser
<1>2. CnnStarts = {} /\ CnnFinishes = {}
  BY <1>1 DEF CnnStarts, CnnFinishes
<1> QED
  BY <1>1, <1>2 DEF WithinInv, FinishNotFirst, Unstarted, FlagsKnow,
                    WrittenArePast, CnnSummaryWithinOneEvent

\* While the log is parsed nothing but FinishNotFirst is at stake.
LEMMA WithinParse ==
  ASSUME TypeOK, TypeOK', WithinInv, Parse
  PROVE  WithinInv'
<1> USE DEF mergeVars, flagVars, summaryVars
<1>1. /\ pc = "parse" /\ pc' = "parse" /\ powerlog' = 0 /\ caffelog' = 1
      /\ rows' = <<>> /\ summary_cnn' = {} /\ ~flag_cnnstart' /\ ~flag_cnnfinish'
  BY DEF Parse, WithinInv, Unstarted
<1>2. FinishNotFirst'
  <2>1. CASE SkipLine \/ EndOfLog
    BY <2>1 DEF SkipLine, EndOfLog, WithinInv, FinishNotFirst, CnnFinishes
  <2>2. CASE ParseLine
    <3> DEFINE p == caffelog_parser
               line == log[offset + 1]
               c == ToCaffelog(p, line)
    <3>1. /\ caffelogs' = Append(caffelogs, c)
          /\ caffelogs \in Seq(Caffelog)
          /\ Len(caffelogs') = Len(caffelogs) + 1
          /\ DOMAIN caffelogs' = 1 .. Len(caffelogs) + 1
          /\ caffelogs'[Len(caffelogs) + 1] = c
          /\ \A i \in 1 .. Len(caffelogs) : caffelogs'[i] = caffelogs[i]
      BY <2>2 DEF ParseLine, TypeOK, ParserTypeOK
    <3>2. c.cnn_finish => p.cnn_start
      BY DEF ToCaffelog, FinishesCnn, ReportsBatch
    <3>3. c.cnn_finish => Len(caffelogs) > 0
      BY <3>2 DEF WithinInv, FinishNotFirst
    <3>4. \A i \in CnnFinishes : i > 1
      BY DEF WithinInv, FinishNotFirst
    <3>5. \A i \in CnnFinishes' : i > 1
      <4> SUFFICES ASSUME NEW i \in 1 .. Len(caffelogs) + 1, caffelogs'[i].cnn_finish
                   PROVE  i > 1
        BY <3>1 DEF CnnFinishes
      <4>1. CASE i \in 1 .. Len(caffelogs)
        BY <3>1, <3>4, <4>1 DEF CnnFinishes
      <4>2. CASE i = Len(caffelogs) + 1
        BY <3>1, <3>3, <4>2
      <4> QED BY <4>1, <4>2
    <3> QED BY <3>1, <3>5 DEF FinishNotFirst
  <2> QED BY <2>1, <2>2 DEF Parse, ParseCaffelog
<1>3. Unstarted' /\ FlagsKnow' /\ WrittenArePast'
  <2>1. /\ CnnStarts' \subseteq DOMAIN caffelogs'
        /\ CnnFinishes' \subseteq DOMAIN caffelogs'
        /\ DOMAIN caffelogs' \subseteq Int
    <3>1. caffelogs' \in Seq(Caffelog)
      BY DEF TypeOK, ParserTypeOK
    <3>2. DOMAIN caffelogs' \subseteq Int
      BY <3>1
    <3> QED BY <3>2 DEF CnnStarts, CnnFinishes
  <2> QED BY <1>1, <2>1 DEF Unstarted, FlagsKnow, WrittenArePast
<1>4. CnnSummaryWithinOneEvent'
  BY <1>1 DEF CnnSummaryWithinOneEvent
<1> QED BY <1>2, <1>3, <1>4 DEF WithinInv

\* The two halves of the property, of a counted sample and of a row.
CountedRightly(s) ==
  /\ \E i \in CnnStarts : i > 1 /\ rawdata[s] >= caffelogs[i - 1].timestamp
  /\ \A i \in CnnFinishes : rawdata[s] < caffelogs[i].timestamp

MustBeCounted(row) ==
  /\ row.from = "sample"
  /\ \E i \in CnnStarts :
       /\ i > 1
       /\ row.timestamp >= caffelogs[i].timestamp
       /\ \A j \in CnnFinishes :
            j > 1 /\ row.timestamp < caffelogs[j - 1].timestamp

LEMMA WithinHalves ==
  CnnSummaryWithinOneEvent <=>
    (Ordered => /\ \A s \in summary_cnn : CountedRightly(s)
                /\ \A r \in DOMAIN rows :
                     MustBeCounted(rows[r]) => rows[r].index \in summary_cnn)
BY DEF CnnSummaryWithinOneEvent, Ordered, CountedRightly, MustBeCounted

\* A sample that is written while the CNN is known to run is counted rightly, and
\* one that must be counted is written while the CNN is known to run.
LEMMA CountedWhileRunning ==
  ASSUME TypeOK, WithinInv, Ordered, pc = "compare", PowerlogFirst
  PROVE  /\ flag_cnnstart /\ ~flag_cnnfinish => CountedRightly(powerlog)
         /\ MustBeCounted([from |-> "sample", index |-> powerlog,
                           timestamp |-> rawdata[powerlog]])
              => flag_cnnstart /\ ~flag_cnnfinish
<1>1. /\ DOMAIN caffelogs = 1 .. Len(caffelogs) /\ Len(caffelogs) \in Nat
      /\ caffelog \in 1 .. Len(caffelogs) + 1
      /\ powerlog \in 1 .. Len(rawdata) /\ Len(rawdata) \in Nat
      /\ \A i \in 1 .. Len(caffelogs) : caffelogs[i].timestamp \in Int
      /\ rawdata[powerlog] \in Int
  BY TimeTypes DEF TypeOK
<1>2. \A i, j \in 1 .. Len(caffelogs) :
        i <= j => caffelogs[i].timestamp <= caffelogs[j].timestamp
  BY OrderedTimes
<1>3. CnnStarts \subseteq 1 .. Len(caffelogs) /\ CnnFinishes \subseteq 1 .. Len(caffelogs)
  BY <1>1 DEF CnnStarts, CnnFinishes
<1>4. \A e \in 1 .. caffelog - 1 : rawdata[powerlog] >= caffelogs[e].timestamp
  BY DEF WithinInv, WrittenArePast
<1>5. \A e \in 1 .. Len(caffelogs) :
        e >= caffelog => rawdata[powerlog] < caffelogs[e].timestamp
  <2> SUFFICES ASSUME NEW e \in 1 .. Len(caffelogs), e >= caffelog
               PROVE  rawdata[powerlog] < caffelogs[e].timestamp
    OBVIOUS
  <2>1. caffelog \in 1 .. Len(caffelogs)
    BY <1>1
  <2>2. rawdata[powerlog] < caffelogs[caffelog].timestamp
    BY <1>1, <2>1 DEF PowerlogFirst, NoCaffelog
  <2>3. caffelogs[caffelog].timestamp <= caffelogs[e].timestamp
    BY <1>2, <2>1
  <2> QED BY <1>1, <2>1, <2>2, <2>3
<1>6. ASSUME flag_cnnstart, ~flag_cnnfinish PROVE CountedRightly(powerlog)
  <2>1. PICK i \in CnnStarts : i > 1 /\ i <= caffelog
    BY <1>6 DEF WithinInv, FlagsKnow
  <2>2. i - 1 \in 1 .. caffelog - 1
    BY <1>1, <1>3, <2>1
  <2>3. \A j \in CnnFinishes : j > caffelog
    BY <1>1, <1>3, <1>6 DEF WithinInv, FlagsKnow, FinishNotFirst
  <2>4. \A j \in CnnFinishes : rawdata[powerlog] < caffelogs[j].timestamp
    BY <1>1, <1>3, <1>5, <2>3
  <2> QED BY <1>4, <2>1, <2>2, <2>4 DEF CountedRightly
<1>7. ASSUME MustBeCounted([from |-> "sample", index |-> powerlog,
                            timestamp |-> rawdata[powerlog]])
      PROVE  flag_cnnstart /\ ~flag_cnnfinish
  <2>1. PICK i \in CnnStarts :
          /\ i > 1 /\ rawdata[powerlog] >= caffelogs[i].timestamp
          /\ \A j \in CnnFinishes :
               j > 1 /\ rawdata[powerlog] < caffelogs[j - 1].timestamp
    BY <1>7 DEF MustBeCounted
  <2>2. i < caffelog
    BY <1>1, <1>3, <1>5, <2>1
  <2>3. flag_cnnstart
    BY <1>1, <1>3, <2>1, <2>2 DEF WithinInv, FlagsKnow
  <2>4. ASSUME flag_cnnfinish PROVE FALSE
    <3>1. PICK j \in CnnFinishes : j > 1 /\ j <= caffelog
      BY <2>4 DEF WithinInv, FlagsKnow
    <3>2. j - 1 \in 1 .. caffelog - 1 /\ j - 1 \in 1 .. Len(caffelogs)
      BY <1>1, <1>3, <3>1
    <3>3. rawdata[powerlog] >= caffelogs[j - 1].timestamp
      BY <1>4, <3>2
    <3> QED BY <1>1, <2>1, <3>2, <3>3
  <2> QED BY <2>3, <2>4
<1> QED BY <1>6, <1>7

LEMMA WithinStep ==
  ASSUME TypeOK, TypeOK', WithinInv, [Next]_vars
  PROVE  WithinInv'
<1> USE DEF mergeVars, flagVars, summaryVars
<1>0. /\ DOMAIN caffelogs = 1 .. Len(caffelogs) /\ Len(caffelogs) \in Nat
      /\ caffelog \in 1 .. Len(caffelogs) + 1
      /\ powerlog \in 0 .. Len(rawdata) /\ Len(rawdata) \in Nat
      /\ \A i \in 1 .. Len(caffelogs) : caffelogs[i].timestamp \in Int
      /\ \A i \in 1 .. Len(rawdata) : rawdata[i] \in Int
      /\ rows \in Seq(Row)
  BY TimeTypes DEF TypeOK
<1> DEFINE Known == UNCHANGED <<caffelogs, caffelog_parser, rawdata>>
<1>1. ASSUME Known
      PROVE  /\ CnnStarts' = CnnStarts /\ CnnFinishes' = CnnFinishes
             /\ Ordered' = Ordered /\ FinishNotFirst'
             /\ \A s : CountedRightly(s)' = CountedRightly(s)
             /\ \A row : MustBeCounted(row)' = MustBeCounted(row)
  <2>1. CnnStarts' = CnnStarts /\ CnnFinishes' = CnnFinishes
    BY <1>1 DEF CnnStarts, CnnFinishes
  <2>2. Ordered' = Ordered
    BY <1>1 DEF Ordered, Merged!Sorted, EventTimes
  <2>3. FinishNotFirst'
    BY <1>1, <2>1 DEF WithinInv, FinishNotFirst
  <2>4. \A s : CountedRightly(s)' = CountedRightly(s)
    BY <1>1, <2>1 DEF CountedRightly
  <2>5. \A row : MustBeCounted(row)' = MustBeCounted(row)
    BY <1>1, <2>1 DEF MustBeCounted
  <2> QED BY <2>1, <2>2, <2>3, <2>4, <2>5
<1>2. ASSUME Known, UNCHANGED <<caffelog, flag_cnnstart, flag_cnnfinish>>
      PROVE  FlagsKnow'
  BY <1>1, <1>2 DEF WithinInv, FlagsKnow
<1>3. ASSUME Known, UNCHANGED <<rows, summary_cnn>>
      PROVE  CnnSummaryWithinOneEvent'
  BY <1>3 DEF WithinInv, CnnSummaryWithinOneEvent, Merged!Sorted, EventTimes,
              CnnStarts, CnnFinishes
<1>4. ASSUME Known, UNCHANGED <<powerlog, caffelog>>
      PROVE  WrittenArePast'
  BY <1>1, <1>4 DEF WithinInv, WrittenArePast
<1>4a. ASSUME Known
       PROVE  CnnSummaryWithinOneEvent' <=>
                (Ordered => /\ \A s \in summary_cnn' : CountedRightly(s)
                            /\ \A r \in DOMAIN rows' :
                                 MustBeCounted(rows'[r]) => rows'[r].index \in summary_cnn')
  <2>1. CnnStarts' = CnnStarts /\ CnnFinishes' = CnnFinishes /\ EventTimes' = EventTimes
    BY <1>4a DEF CnnStarts, CnnFinishes, EventTimes
  <2>2. caffelogs' = caffelogs /\ rawdata' = rawdata
    BY <1>4a
  <2> HIDE DEF Known
  <2> QED
    BY <2>1, <2>2 DEF CnnSummaryWithinOneEvent, Ordered, Merged!Sorted,
                      CountedRightly, MustBeCounted
<1> USE DEF parserVars
<1>5. CASE Parse
  BY <1>5, WithinParse
<1>6. CASE StartMerge \/ EndOfRawdata
  <2>1. Known /\ Unstarted'
    BY <1>6 DEF StartMerge, EndOfRawdata, WithinInv, Unstarted
  <2> HIDE DEF Known
  <2> QED
    BY <1>1, <1>2, <1>3, <1>4, <1>6, <2>1 DEF StartMerge, EndOfRawdata, WithinInv
<1>7. CASE ReadRawdata
  <2>1. Known /\ Unstarted'
    BY <1>7 DEF ReadRawdata, Unstarted
  <2>2. WrittenArePast'
    <3> SUFFICES ASSUME Ordered, NEW e \in 1 .. caffelog - 1
                 PROVE  /\ powerlog + 1 > 0
                        /\ rawdata[powerlog + 1] >= caffelogs[e].timestamp
      BY <1>1, <1>7, <2>1 DEF ReadRawdata, WrittenArePast
    <3>1. powerlog > 0 /\ rawdata[powerlog] >= caffelogs[e].timestamp
      BY DEF WithinInv, WrittenArePast
    <3>2. powerlog \in 1 .. Len(rawdata) /\ powerlog + 1 \in 1 .. Len(rawdata)
      BY <1>0, <1>7, <3>1 DEF ReadRawdata
    <3>3. rawdata[powerlog] <= rawdata[powerlog + 1]
      BY <1>0, <3>2, OrderedTimes
    <3>4. e \in 1 .. Len(caffelogs)
      BY <1>0
    <3> QED BY <1>0, <3>1, <3>2, <3>3, <3>4
  <2> HIDE DEF Known
  <2> QED BY <1>1, <1>2, <1>3, <1>7, <2>1, <2>2 DEF ReadRawdata, WithinInv
<1>8. CASE WritePowerlog
  <2>1. Known /\ Unstarted'
    BY <1>8 DEF WritePowerlog, Unstarted
  <2> DEFINE row == [from |-> "sample", index |-> powerlog,
                     timestamp |-> rawdata[powerlog]]
  <2>2. /\ rows' = Append(rows, row) /\ row.index = powerlog
        /\ DOMAIN rows' = 1 .. Len(rows) + 1 /\ DOMAIN rows = 1 .. Len(rows)
        /\ rows'[Len(rows) + 1] = row
        /\ \A i \in 1 .. Len(rows) : rows'[i] = rows[i]
    BY <1>0, <1>8 DEF WritePowerlog
  <2>3. /\ flag_cnnstart /\ ~flag_cnnfinish =>
             summary_cnn' = summary_cnn \cup {powerlog}
        /\ ~(flag_cnnstart /\ ~flag_cnnfinish) => summary_cnn' = summary_cnn
    BY <1>8 DEF WritePowerlog
  <2>4. CnnSummaryWithinOneEvent'
    <3> SUFFICES ASSUME Ordered
                 PROVE  /\ \A s \in summary_cnn' : CountedRightly(s)
                        /\ \A r \in DOMAIN rows' :
                             MustBeCounted(rows'[r]) => rows'[r].index \in summary_cnn'
      BY <1>4a, <2>1
    <3>1. /\ \A s \in summary_cnn : CountedRightly(s)
          /\ \A r \in DOMAIN rows :
               MustBeCounted(rows[r]) => rows[r].index \in summary_cnn
      BY WithinHalves DEF WithinInv
    <3>2. /\ flag_cnnstart /\ ~flag_cnnfinish => CountedRightly(powerlog)
          /\ MustBeCounted(row) => flag_cnnstart /\ ~flag_cnnfinish
      BY <1>8, CountedWhileRunning DEF WritePowerlog
    <3> HIDE DEF row
    <3>3. \A s \in summary_cnn' : CountedRightly(s)
      BY <2>3, <3>1, <3>2
    <3>4. ASSUME NEW r \in DOMAIN rows', MustBeCounted(rows'[r])
          PROVE  rows'[r].index \in summary_cnn'
      <4>1. CASE r \in 1 .. Len(rows)
        BY <2>2, <2>3, <3>1, <3>4, <4>1
      <4>2. CASE r = Len(rows) + 1
        BY <2>2, <2>3, <3>2, <3>4, <4>2
      <4> QED BY <1>0, <2>2, <4>1, <4>2
    <3> QED BY <3>3, <3>4
  <2> HIDE DEF Known
  <2> QED BY <1>1, <1>2, <1>4, <1>8, <2>1, <2>4 DEF WritePowerlog, WithinInv
<1>9. CASE WriteCaffelog
  <2>1. Known /\ Unstarted'
    BY <1>9 DEF WriteCaffelog, Unstarted
  <2>2. /\ caffelog \in 1 .. Len(caffelogs) /\ caffelog' = caffelog + 1
        /\ powerlog' = powerlog /\ powerlog > 0
        /\ rawdata[powerlog] >= caffelogs[caffelog].timestamp
    <3>1. /\ caffelog' = caffelog + 1 /\ powerlog' = powerlog /\ pc = "compare"
          /\ ~PowerlogFirst
      BY <1>9 DEF WriteCaffelog
    <3>2. powerlog > 0
      BY <3>1 DEF TypeOK
    <3>3. ~NoCaffelog /\ ~(rawdata[powerlog] < caffelogs[caffelog].timestamp)
      BY <3>1 DEF PowerlogFirst
    <3>4. caffelog \in 1 .. Len(caffelogs) /\ powerlog \in 1 .. Len(rawdata)
      BY <1>0, <3>2, <3>3 DEF NoCaffelog
    <3> QED BY <1>0, <3>1, <3>2, <3>3, <3>4
  <2>3. FlagsKnow'
    <3>1. /\ flag_cnnstart' <=> (flag_cnnstart \/ caffelog + 1 \in CnnStarts)
          /\ flag_cnnfinish' <=> (flag_cnnfinish \/ caffelog + 1 \in CnnFinishes)
      <4>1. /\ flag_cnnstart' = (flag_cnnstart \/
                 (caffelog < Len(caffelogs) /\ caffelogs[caffelog + 1].cnn_start))
            /\ flag_cnnfinish' = (flag_cnnfinish \/
                 (caffelog < Len(caffelogs) /\ caffelogs[caffelog + 1].cnn_finish))
        BY <1>9 DEF WriteCaffelog
      <4>2. caffelog + 1 \in 1 .. Len(caffelogs) <=> caffelog < Len(caffelogs)
        BY <1>0, <2>2
      <4>3. /\ caffelog + 1 \in CnnStarts <=>
                 caffelog < Len(caffelogs) /\ caffelogs[caffelog + 1].cnn_start
            /\ caffelog + 1 \in CnnFinishes <=>
                 caffelog < Len(caffelogs) /\ caffelogs[caffelog + 1].cnn_finish
        BY <1>0, <4>2 DEF CnnStarts, CnnFinishes
      <4> QED BY Zenon, <4>1, <4>3
    <3>2. \A i \in CnnStarts \cup CnnFinishes :
            i <= caffelog + 1 <=> (i <= caffelog \/ i = caffelog + 1)
      BY <1>0, <2>2 DEF CnnStarts, CnnFinishes
    <3>3. caffelog + 1 > 1
      BY <2>2
    <3> HIDE DEF Known
    <3> QED
      BY <1>1, <2>1, <2>2, <3>1, <3>2, <3>3 DEF WithinInv, FlagsKnow
  <2>4. WrittenArePast'
    <3> SUFFICES ASSUME Ordered, NEW e \in 1 .. caffelog
                 PROVE  rawdata[powerlog] >= caffelogs[e].timestamp
      <4>1. caffelog' - 1 = caffelog
        BY <2>2
      <4>2. caffelogs' = caffelogs /\ rawdata' = rawdata
        BY <2>1
      <4>3. Ordered' = Ordered
        BY <1>1, <2>1
      <4> QED BY <2>2, <4>1, <4>2, <4>3 DEF WrittenArePast
    <3>1. CASE e \in 1 .. caffelog - 1
      BY <3>1 DEF WithinInv, WrittenArePast
    <3>2. CASE e = caffelog
      BY <2>2, <3>2
    <3> QED BY <2>2, <3>1, <3>2
  <2> DEFINE row == [from |-> "event", index |-> caffelog,
                     timestamp |-> caffelogs[caffelog].timestamp]
  <2>5. /\ rows' = Append(rows, row) /\ summary_cnn' = summary_cnn
        /\ row.from # "sample"
        /\ DOMAIN rows' = 1 .. Len(rows) + 1 /\ DOMAIN rows = 1 .. Len(rows)
        /\ rows'[Len(rows) + 1] = row
        /\ \A i \in 1 .. Len(rows) : rows'[i] = rows[i]
    BY <1>0, <1>9 DEF WriteCaffelog
  <2>6. CnnSummaryWithinOneEvent'
    <3> SUFFICES ASSUME Ordered
                 PROVE  /\ \A s \in summary_cnn' : CountedRightly(s)
                        /\ \A r \in DOMAIN rows' :
                             MustBeCounted(rows'[r]) => rows'[r].index \in summary_cnn'
      BY <1>4a, <2>1
    <3>1. /\ \A s \in summary_cnn : CountedRightly(s)
          /\ \A r \in DOMAIN rows :
               MustBeCounted(rows[r]) => rows[r].index \in summary_cnn
      BY WithinHalves DEF WithinInv
    <3> HIDE DEF row
    <3>2. ~MustBeCounted(row)
      BY <2>5 DEF MustBeCounted
    <3>3. ASSUME NEW r \in DOMAIN rows', MustBeCounted(rows'[r])
          PROVE  rows'[r].index \in summary_cnn'
      <4>1. CASE r \in 1 .. Len(rows)
        BY <2>5, <3>1, <3>3, <4>1
      <4>2. CASE r = Len(rows) + 1
        BY <2>5, <3>2, <3>3, <4>2
      <4> QED BY <1>0, <2>5, <4>1, <4>2
    <3> QED BY <2>5, <3>1, <3>3
  <2> HIDE DEF Known
  <2> QED BY <1>1, <2>1, <2>3, <2>4, <2>6 DEF WithinInv
<1>10. CASE UNCHANGED vars
  <2>1. Known /\ Unstarted'
    BY <1>10 DEF vars, WithinInv, Unstarted
  <2> HIDE DEF Known
  <2> QED BY <1>1, <1>2, <1>3, <1>4, <1>10, <2>1 DEF vars, WithinInv
<1> QED
  BY <1>5, <1>6, <1>7, <1>8, <1>9, <1>10 DEF Next, Done

LEMMA WithinAlways == Spec => []WithinInv
<1>1. TypeOK /\ TypeOK' /\ WithinInv /\ [Next]_vars => WithinInv'
  BY WithinStep
<1> QED BY <1>1, WithinInit, TypeCorrect, PTL DEF Spec

\* The CNN's summary is off by one event at most, at its start and at its end,
\* for every log and every rawdata file in order (power_measurement.c:545-650).
THEOREM SummaryWithinOneEvent == Spec => []CnnSummaryWithinOneEvent
<1>1. WithinInv => CnnSummaryWithinOneEvent
  BY DEF WithinInv
<1> QED BY <1>1, WithinAlways, PTL

-----------------------------------------------------------------------------
(* The summary of a batch holds samples of its own time only.  For that to   *)
(* be inductive, no sample that was counted is later than an event that is   *)
(* still to be written, and none of the current batch is earlier than an end *)
(* that was written.                                                         *)

WindowInv ==
  /\ pc = "parse" => caffelog = 1 /\ printed = <<>> /\ summary_batch = {}
  /\ Len(printed) = Cardinality(WrittenBatchEnds)
  /\ Ordered =>
       /\ \A s \in summary_batch :
            /\ \A e \in WrittenBatchEnds : rawdata[s] >= caffelogs[e].timestamp
            /\ \A e \in caffelog .. Len(caffelogs) : rawdata[s] < caffelogs[e].timestamp
       /\ \A k \in 1 .. Len(printed) : \A s \in printed[k] :
            \A e \in caffelog .. Len(caffelogs) : rawdata[s] < caffelogs[e].timestamp
  /\ BatchWindow

\* The n-th end that was written is the end of the n-th batch.
LEMMA EndsBeforeNext ==
  ASSUME TypeOK
  PROVE  /\ IsFiniteSet(WrittenBatchEnds) /\ Cardinality(WrittenBatchEnds) \in Nat
         /\ \A e \in WrittenBatchEnds :
              EndsUpTo(e) \in Nat /\ EndsUpTo(e) <= Cardinality(WrittenBatchEnds)
         /\ caffelog \in BatchEnds =>
              /\ EndsUpTo(caffelog) = Cardinality(WrittenBatchEnds) + 1
              /\ Cardinality(WrittenBatchEnds \cup {caffelog})
                   = Cardinality(WrittenBatchEnds) + 1
<1>1. /\ \A i \in BatchEnds : i \in Nat /\ 1 <= i
      /\ caffelog \in Nat /\ 1 <= caffelog
  BY TimeTypes DEF BatchEnds
<1>2. WrittenBatchEnds \in SUBSET (1 .. caffelog - 1) /\ caffelog - 1 \in Nat
  <2>1. \A i \in WrittenBatchEnds : i \in BatchEnds /\ i < caffelog
    BY DEF WrittenBatchEnds
  <2>2. \A i \in WrittenBatchEnds : i \in 1 .. caffelog - 1
    BY <1>1, <2>1
  <2> QED BY <1>1, <2>2
<1>3. IsFiniteSet(WrittenBatchEnds) /\ Cardinality(WrittenBatchEnds) \in Nat
  BY <1>2, CountNext
<1>4. ASSUME NEW e \in WrittenBatchEnds
      PROVE  EndsUpTo(e) \in Nat /\ EndsUpTo(e) <= Cardinality(WrittenBatchEnds)
  <2>1. {j \in BatchEnds : j <= e} \in SUBSET WrittenBatchEnds
    <3>1. e \in BatchEnds /\ e < caffelog
      BY DEF WrittenBatchEnds
    <3>2. \A j \in BatchEnds : j <= e => j < caffelog
      BY <1>1, <3>1
    <3> QED BY <3>2 DEF WrittenBatchEnds
  <2> QED BY <1>3, <2>1, FS_Subset, FS_CardinalityType DEF EndsUpTo
<1>5. ASSUME caffelog \in BatchEnds
      PROVE  {j \in BatchEnds : j <= caffelog} = WrittenBatchEnds \cup {caffelog}
  <2>1. \A j \in BatchEnds : j <= caffelog <=> (j < caffelog \/ j = caffelog)
    BY <1>1
  <2> QED BY <1>5, <2>1 DEF WrittenBatchEnds
<1>6. Cardinality(WrittenBatchEnds \cup {caffelog}) = Cardinality(WrittenBatchEnds) + 1
  <2>1. caffelog - 1 + 1 = caffelog
    BY <1>1
  <2> QED BY <1>2, <2>1, CountNext
<1> QED BY <1>3, <1>4, <1>5, <1>6 DEF EndsUpTo

LEMMA WindowInit == Init => WindowInv
<1> SUFFICES ASSUME Init PROVE WindowInv
  OBVIOUS
<1>1. /\ caffelog = 1 /\ printed = <<>> /\ summary_batch = {} /\ caffelogs = <<>>
  BY DEF Init, ParserInit
<1>2. WrittenBatchEnds = {}
  BY <1>1 DEF WrittenBatchEnds, BatchEnds
<1> QED BY <1>1, <1>2, FS_EmptySet DEF WindowInv, BatchWindow

LEMMA WindowStep ==
  ASSUME TypeOK, TypeOK', WithinInv, WindowInv, [Next]_vars
  PROVE  WindowInv'
<1> USE DEF mergeVars, flagVars, summaryVars
<1>0. /\ DOMAIN caffelogs = 1 .. Len(caffelogs) /\ Len(caffelogs) \in Nat
      /\ caffelog \in 1 .. Len(caffelogs) + 1
      /\ powerlog \in 0 .. Len(rawdata) /\ Len(rawdata) \in Nat
      /\ \A i \in 1 .. Len(caffelogs) : caffelogs[i].timestamp \in Int
      /\ \A i \in 1 .. Len(rawdata) : rawdata[i] \in Int
      /\ printed \in Seq(SUBSET Nat) /\ DOMAIN printed = 1 .. Len(printed)
      /\ Len(printed) \in Nat
  <2>1. printed \in Seq(SUBSET Nat)
    BY DEF TypeOK
  <2>2. DOMAIN printed = 1 .. Len(printed) /\ Len(printed) \in Nat
    BY <2>1
  <2> QED BY <2>1, <2>2, TimeTypes
<1>1. CASE Parse
  <2>1. /\ caffelog' = 1 /\ printed' = <<>> /\ summary_batch' = {}
    BY <1>1 DEF Parse, WindowInv
  <2>2. WrittenBatchEnds' = {}
    <3>1. \A i \in DOMAIN caffelogs' : i \in Nat /\ i >= 1
      <4>1. caffelogs' \in Seq(Caffelog)
        BY DEF TypeOK, ParserTypeOK
      <4> QED BY <4>1
    <3> QED BY <2>1, <3>1 DEF WrittenBatchEnds, BatchEnds
  <2> QED BY <2>1, <2>2, FS_EmptySet DEF WindowInv, BatchWindow
<1> DEFINE Known == UNCHANGED <<caffelogs, rawdata>>
<1>2. ASSUME Known
      PROVE  /\ Ordered' = Ordered /\ BatchEnds' = BatchEnds
             /\ \A e : EndsUpTo(e)' = EndsUpTo(e)
  <2>1. BatchEnds' = BatchEnds
    BY <1>2 DEF BatchEnds
  <2> QED BY <1>2, <2>1 DEF Ordered, Merged!Sorted, EventTimes, EndsUpTo
<1>3. BatchWindow <=>
        (Ordered =>
          \A k \in DOMAIN printed : \A s \in printed[k] : \A e \in WrittenBatchEnds :
            /\ EndsUpTo(e) < k  => rawdata[s] >= caffelogs[e].timestamp
            /\ EndsUpTo(e) >= k => rawdata[s] <  caffelogs[e].timestamp)
  BY DEF BatchWindow, Ordered
<1>4. ASSUME Known
      PROVE  BatchWindow' <=>
        (Ordered =>
          \A k \in DOMAIN printed' : \A s \in printed'[k] : \A e \in WrittenBatchEnds' :
            /\ EndsUpTo(e) < k  => rawdata[s] >= caffelogs[e].timestamp
            /\ EndsUpTo(e) >= k => rawdata[s] <  caffelogs[e].timestamp)
  <2>1. /\ Merged!Sorted(rawdata)' = Merged!Sorted(rawdata)
        /\ Merged!Sorted(EventTimes)' = Merged!Sorted(EventTimes)
    BY <1>4 DEF Merged!Sorted, EventTimes
  <2>2. caffelogs' = caffelogs /\ rawdata' = rawdata
    BY <1>4
  <2>3. \A e : EndsUpTo(e)' = EndsUpTo(e)
    BY <1>2, <1>4
  <2> HIDE DEF Known
  <2> QED BY <2>1, <2>2, <2>3 DEF BatchWindow, Ordered
<1>5. ASSUME Known, UNCHANGED <<caffelog, printed, summary_batch>>,
             pc' = "parse" => pc = "parse"
      PROVE  WindowInv'
  <2>1. WrittenBatchEnds' = WrittenBatchEnds
    BY <1>2, <1>5 DEF WrittenBatchEnds
  <2>2. BatchWindow'
    BY <1>3, <1>4, <1>5, <2>1 DEF WindowInv
  <2> QED BY <1>2, <1>5, <2>1, <2>2 DEF WindowInv
<1> USE DEF parserVars
<1>6. CASE StartMerge \/ ReadRawdata \/ EndOfRawdata
  BY <1>5, <1>6 DEF StartMerge, ReadRawdata, EndOfRawdata
<1>7. CASE WritePowerlog
  <2>1. /\ pc = "compare" /\ pc' = "read" /\ PowerlogFirst
        /\ UNCHANGED <<caffelogs, rawdata, caffelog, printed>>
        /\ \/ summary_batch' = summary_batch
           \/ summary_batch' = summary_batch \cup {powerlog}
        /\ powerlog \in 1 .. Len(rawdata)
    BY <1>0, <1>7 DEF WritePowerlog, TypeOK
  <2>2. WrittenBatchEnds' = WrittenBatchEnds
    BY <1>2, <2>1 DEF WrittenBatchEnds
  <2>3. BatchWindow'
    BY <1>3, <1>4, <2>1, <2>2 DEF WindowInv
  <2>4. ASSUME Ordered
        PROVE  /\ \A e \in WrittenBatchEnds : rawdata[powerlog] >= caffelogs[e].timestamp
               /\ \A e \in caffelog .. Len(caffelogs) :
                    rawdata[powerlog] < caffelogs[e].timestamp
    <3>1. \A e \in 1 .. caffelog - 1 : rawdata[powerlog] >= caffelogs[e].timestamp
      BY <2>4 DEF WithinInv, WrittenArePast
    <3>2. WrittenBatchEnds \subseteq 1 .. caffelog - 1
      BY <1>0 DEF WrittenBatchEnds, BatchEnds
    <3>3. ASSUME NEW e \in caffelog .. Len(caffelogs)
          PROVE  rawdata[powerlog] < caffelogs[e].timestamp
      <4>1. caffelog \in 1 .. Len(caffelogs) /\ e \in 1 .. Len(caffelogs) /\ caffelog <= e
        BY <1>0
      <4>2. rawdata[powerlog] < caffelogs[caffelog].timestamp
        BY <1>0, <2>1, <4>1 DEF PowerlogFirst, NoCaffelog
      <4>3. caffelogs[caffelog].timestamp <= caffelogs[e].timestamp
        BY <2>4, <4>1, OrderedTimes
      <4> QED BY <1>0, <2>1, <4>1, <4>2, <4>3
    <3> QED BY <3>1, <3>2, <3>3
  <2>5. Ordered' = Ordered
    BY <1>2, <2>1
  <2>6. Ordered =>
          /\ \A s \in summary_batch' :
               /\ \A e \in WrittenBatchEnds : rawdata[s] >= caffelogs[e].timestamp
               /\ \A e \in caffelog .. Len(caffelogs) : rawdata[s] < caffelogs[e].timestamp
          /\ \A k \in 1 .. Len(printed) : \A s \in printed[k] :
               \A e \in caffelog .. Len(caffelogs) : rawdata[s] < caffelogs[e].timestamp
    BY <2>1, <2>4 DEF WindowInv
  <2>7. Len(printed) = Cardinality(WrittenBatchEnds)
    BY DEF WindowInv
  <2> QED BY <2>1, <2>2, <2>3, <2>5, <2>6, <2>7 DEF WindowInv
<1>8. CASE WriteCaffelog
  <2>1. /\ pc = "compare" /\ pc' = pc /\ ~PowerlogFirst
        /\ UNCHANGED <<caffelogs, rawdata>> /\ caffelog' = caffelog + 1
        /\ IF caffelogs[caffelog].batch_finish = INFINITE
             THEN /\ printed' = Append(printed, summary_batch) /\ summary_batch' = {}
             ELSE UNCHANGED <<printed, summary_batch>>
    BY <1>8 DEF WriteCaffelog
  <2>2. caffelog \in 1 .. Len(caffelogs)
    BY <1>0, <2>1 DEF PowerlogFirst, NoCaffelog
  <2>3. caffelog + 1 .. Len(caffelogs) \subseteq caffelog .. Len(caffelogs)
        /\ caffelog \in caffelog .. Len(caffelogs)
    BY <2>2, <1>0
  <2>4. Ordered' = Ordered
    BY <1>2, <2>1
  <2>5. CASE caffelogs[caffelog].batch_finish # INFINITE
    <3>1. UNCHANGED <<printed, summary_batch>>
      BY <2>1, <2>5
    <3>2. WrittenBatchEnds' = WrittenBatchEnds
      <4>1. caffelog \notin BatchEnds
        BY <2>5 DEF BatchEnds
      <4>2. \A i \in BatchEnds : i < caffelog + 1 <=> i < caffelog
        BY <1>0, <4>1 DEF BatchEnds
      <4> QED BY <1>2, <2>1, <4>2 DEF WrittenBatchEnds
    <3>3. BatchWindow'
      BY <1>3, <1>4, <2>1, <3>1, <3>2 DEF WindowInv
    <3>4. Ordered =>
            /\ \A s \in summary_batch' :
                 /\ \A e \in WrittenBatchEnds : rawdata[s] >= caffelogs[e].timestamp
                 /\ \A e \in caffelog + 1 .. Len(caffelogs) : rawdata[s] < caffelogs[e].timestamp
            /\ \A k \in 1 .. Len(printed) : \A s \in printed[k] :
                 \A e \in caffelog + 1 .. Len(caffelogs) : rawdata[s] < caffelogs[e].timestamp
      BY <2>3, <3>1 DEF WindowInv
    <3>5. Len(printed) = Cardinality(WrittenBatchEnds)
      BY DEF WindowInv
    <3> QED BY <2>1, <2>4, <3>1, <3>2, <3>3, <3>4, <3>5 DEF WindowInv
  <2>6. CASE caffelogs[caffelog].batch_finish = INFINITE
    <3>1. /\ summary_batch' = {} /\ Len(printed') = Len(printed) + 1
          /\ DOMAIN printed' = 1 .. Len(printed) + 1
          /\ printed'[Len(printed) + 1] = summary_batch
          /\ \A i \in 1 .. Len(printed) : printed'[i] = printed[i]
      <4>1. printed' = Append(printed, summary_batch) /\ summary_batch' = {}
        BY <2>1, <2>6
      <4> QED BY <1>0, <4>1
    <3>2. caffelog \in BatchEnds
      BY <1>0, <2>2, <2>6 DEF BatchEnds
    <3>3. WrittenBatchEnds' = WrittenBatchEnds \cup {caffelog}
      <4>1. \A i \in BatchEnds : i < caffelog + 1 <=> (i < caffelog \/ i = caffelog)
        BY <1>0 DEF BatchEnds
      <4> QED BY <1>2, <2>1, <3>2, <4>1 DEF WrittenBatchEnds
    <3>4. /\ Len(printed) = Cardinality(WrittenBatchEnds)
          /\ \A e \in WrittenBatchEnds : EndsUpTo(e) \in Nat /\ EndsUpTo(e) <= Len(printed)
          /\ EndsUpTo(caffelog) = Len(printed) + 1
          /\ Cardinality(WrittenBatchEnds') = Len(printed) + 1
      BY <3>2, <3>3, EndsBeforeNext DEF WindowInv
    <3>5. ASSUME Ordered, NEW k \in 1 .. Len(printed) + 1, NEW s \in printed'[k]
          PROVE  \A e \in caffelog .. Len(caffelogs) : rawdata[s] < caffelogs[e].timestamp
      <4>1. CASE k \in 1 .. Len(printed)
        BY <3>1, <3>5, <4>1 DEF WindowInv
      <4>2. CASE k = Len(printed) + 1
        BY <3>1, <3>5, <4>2 DEF WindowInv
      <4> QED BY <1>0, <4>1, <4>2
    <3>6. ASSUME Ordered, NEW k \in 1 .. Len(printed) + 1, NEW s \in printed'[k],
                 NEW e \in WrittenBatchEnds'
          PROVE  /\ EndsUpTo(e) < k  => rawdata[s] >= caffelogs[e].timestamp
                 /\ EndsUpTo(e) >= k => rawdata[s] <  caffelogs[e].timestamp
      <4>1. CASE e = caffelog
        <5>1. ~(EndsUpTo(e) < k)
          BY <1>0, <3>4, <4>1
        <5> QED BY <2>3, <3>5, <3>6, <4>1, <5>1
      <4>2. CASE e \in WrittenBatchEnds /\ k \in 1 .. Len(printed)
        BY <1>0, <1>3, <3>1, <3>6, <4>2 DEF WindowInv
      <4>3. CASE e \in WrittenBatchEnds /\ k = Len(printed) + 1
        <5>1. ~(EndsUpTo(e) >= k)
          BY <1>0, <3>4, <4>3
        <5>2. s \in summary_batch
          BY <3>1, <3>6, <4>3
        <5> QED BY <3>6, <4>3, <5>1, <5>2 DEF WindowInv
      <4> QED BY <1>0, <3>3, <4>1, <4>2, <4>3
    <3>7. BatchWindow'
      BY <1>4, <2>1, <3>1, <3>6
    <3>8. Ordered => \A k \in 1 .. Len(printed') : \A s \in printed'[k] :
                       \A e \in caffelog + 1 .. Len(caffelogs) :
                         rawdata[s] < caffelogs[e].timestamp
      BY <2>3, <3>1, <3>5
    <3> QED BY <2>1, <2>4, <3>1, <3>4, <3>7, <3>8 DEF WindowInv
  <2> QED BY <2>5, <2>6
<1>9. CASE UNCHANGED vars
  BY <1>5, <1>9 DEF vars
<1> QED
  BY <1>1, <1>6, <1>7, <1>8, <1>9 DEF Next, Done

\* For every log and every rawdata file in order, the summary printed for the k-th
\* batch holds samples from between the end of the batch before it and its own end
\* only (power_measurement.c:553-556, 620-632).
THEOREM BatchWindowAlways == Spec => []BatchWindow
<1>1. TypeOK /\ TypeOK' /\ WithinInv /\ WindowInv /\ [Next]_vars => WindowInv'
  BY WindowStep
<1>2. WindowInv => BatchWindow
  BY DEF WindowInv
<1> QED BY <1>1, <1>2, WindowInit, TypeCorrect, WithinAlways, PTL DEF Spec

-----------------------------------------------------------------------------
(* Everything is written.                                                    *)

\* A row of another kind leaves the rows of a kind the first n ...
LEMMA OtherRow ==
  ASSUME NEW rs \in Seq(Row), NEW new \in Row, NEW kind, NEW n, NEW times,
         AreFirst(rs, kind, n, times), new.from # kind
  PROVE  AreFirst(Append(rs, new), kind, n, times)
<1> DEFINE ext == Append(rs, new)
           len == Len(rs)
           UpTo(r) == {q \in 1 .. r : rs[q].from = kind}
           ExtUpTo(r) == {q \in 1 .. r : ext[q].from = kind}
<1>1. /\ len \in Nat /\ Len(ext) = len + 1 /\ ext[len + 1] = new
      /\ \A q \in 1 .. len : ext[q] = rs[q]
  OBVIOUS
<1>2. /\ Cardinality(UpTo(len)) = n
      /\ \A r \in UpTo(len) : /\ rs[r].index = Cardinality(UpTo(r))
                              /\ rs[r].timestamp = times[rs[r].index]
  BY DEF AreFirst
<1> HIDE DEF ext, len
<1>3. \A r \in 1 .. len : ExtUpTo(r) = UpTo(r)
  BY <1>1
<1>4. ExtUpTo(len + 1) = UpTo(len)
  <2>1. 1 .. len + 1 = (1 .. len) \cup {len + 1}
    BY <1>1
  <2> QED BY <1>1, <2>1
<1>5. \A r \in UpTo(len) : r \in 1 .. len
  OBVIOUS
<1> HIDE DEF UpTo, ExtUpTo
<1>6. /\ Cardinality(ExtUpTo(Len(ext))) = n
      /\ \A r \in ExtUpTo(Len(ext)) : /\ ext[r].index = Cardinality(ExtUpTo(r))
                                      /\ ext[r].timestamp = times[ext[r].index]
  BY <1>1, <1>2, <1>3, <1>4, <1>5
<1> QED BY <1>6 DEF AreFirst, ExtUpTo, ext

\* ... and the next one of the kind makes it the first n + 1.
LEMMA NextRow ==
  ASSUME NEW rs \in Seq(Row), NEW new \in Row, NEW kind, NEW n, NEW times,
         AreFirst(rs, kind, n, times), new.from = kind,
         new.index = n + 1, new.timestamp = times[n + 1]
  PROVE  AreFirst(Append(rs, new), kind, n + 1, times)
<1> DEFINE ext == Append(rs, new)
           len == Len(rs)
           UpTo(r) == {q \in 1 .. r : rs[q].from = kind}
           ExtUpTo(r) == {q \in 1 .. r : ext[q].from = kind}
<1>1. /\ len \in Nat /\ Len(ext) = len + 1 /\ ext[len + 1] = new
      /\ \A q \in 1 .. len : ext[q] = rs[q]
  OBVIOUS
<1>2. /\ Cardinality(UpTo(len)) = n
      /\ \A r \in UpTo(len) : /\ rs[r].index = Cardinality(UpTo(r))
                              /\ rs[r].timestamp = times[rs[r].index]
  BY DEF AreFirst
<1> HIDE DEF ext, len
<1>3. \A r \in 1 .. len : ExtUpTo(r) = UpTo(r)
  BY <1>1
<1>4. ExtUpTo(len + 1) = UpTo(len) \cup {len + 1}
  <2>1. 1 .. len + 1 = (1 .. len) \cup {len + 1}
    BY <1>1
  <2> QED BY <1>1, <2>1
<1>5. UpTo(len) \in SUBSET (1 .. len)
  OBVIOUS
<1> HIDE DEF UpTo, ExtUpTo
<1>6. Cardinality(ExtUpTo(len + 1)) = n + 1
  BY <1>1, <1>2, <1>4, <1>5, CountNext
<1>7. \A r \in ExtUpTo(Len(ext)) : /\ ext[r].index = Cardinality(ExtUpTo(r))
                                   /\ ext[r].timestamp = times[ext[r].index]
  BY <1>1, <1>2, <1>3, <1>4, <1>5, <1>6
<1> QED BY <1>1, <1>6, <1>7 DEF AreFirst, ExtUpTo, ext

LEMMA NoRows == ASSUME NEW kind, NEW times PROVE AreFirst(<<>>, kind, 0, times)
<1> DEFINE UpTo(r) == {q \in 1 .. r : <<>>[q].from = kind}
<1>1. UpTo(Len(<<>>)) = {}
  OBVIOUS
<1> HIDE DEF UpTo
<1>2. Cardinality(UpTo(Len(<<>>))) = 0
  BY <1>1, FS_EmptySet
<1> QED BY <1>1, <1>2 DEF AreFirst, UpTo

\* What is written at any time, and that no event is due before the sample that
\* was written last.
WrittenInv ==
  /\ AreFirst(rows, "sample", Counted, rawdata)
  /\ AreFirst(rows, "event", caffelog - 1, EventTimes)
  /\ pc \in {"read", "done"} /\ powerlog > 0 /\ ~NoCaffelog =>
       caffelogs[caffelog].timestamp > rawdata[powerlog]
  /\ pc = "done" => powerlog = Len(rawdata)

LEMMA WrittenInit == Init => WrittenInv
<1> SUFFICES ASSUME Init PROVE WrittenInv
  OBVIOUS
<1>1. /\ pc = "parse" /\ powerlog = 0 /\ caffelog = 1 /\ rows = <<>>
  BY DEF Init
<1>2. Counted = 0 /\ caffelog - 1 = 0
  BY <1>1 DEF Counted
<1> QED BY <1>1, <1>2, NoRows DEF WrittenInv

LEMMA WrittenStep ==
  ASSUME TypeOK, TypeOK', Fresh, WrittenInv, [Next]_vars
  PROVE  WrittenInv'
<1> USE DEF mergeVars, flagVars, summaryVars
<1>0. /\ AreFirst(rows, "sample", Counted, rawdata)
      /\ AreFirst(rows, "event", caffelog - 1, EventTimes)
      /\ rows \in Seq(Row) /\ powerlog \in 0 .. Len(rawdata) /\ Len(rawdata) \in Nat
      /\ caffelog \in 1 .. Len(caffelogs) + 1 /\ Len(caffelogs) \in Nat
      /\ pc \in {"parse", "read", "compare", "done"}
  BY TimeTypes DEF WrittenInv, TypeOK
<1>1. CASE Parse
  <2>1. /\ pc' = "parse" /\ rows' = <<>> /\ powerlog' = 0 /\ caffelog' - 1 = 0
    BY <1>1 DEF Parse, Fresh
  <2>2. Counted' = 0
    BY <2>1 DEF Counted
  <2> QED BY <2>1, <2>2, NoRows DEF WrittenInv
<1>2. caffelogs' = caffelogs => EventTimes' = EventTimes
  BY DEF EventTimes
<1> USE DEF parserVars
<1>3. ASSUME UNCHANGED <<rows, rawdata, caffelog, caffelogs>>, Counted' = Counted
      PROVE  /\ AreFirst(rows', "sample", Counted', rawdata')
             /\ AreFirst(rows', "event", caffelog' - 1, EventTimes')
  BY <1>0, <1>2, <1>3
<1>4. CASE StartMerge
  <2>1. /\ UNCHANGED <<rows, rawdata, caffelog, caffelogs, powerlog>>
        /\ pc = "parse" /\ pc' = "read" /\ powerlog = 0 /\ Counted' = Counted
    BY <1>4 DEF StartMerge, Fresh, Counted
  <2> QED BY <1>3, <2>1 DEF WrittenInv
<1>5. CASE ReadRawdata
  <2>1. /\ UNCHANGED <<rows, rawdata, caffelog, caffelogs>> /\ pc' = "compare"
        /\ pc = "read" /\ powerlog' = powerlog + 1
    BY <1>5 DEF ReadRawdata
  <2>2. Counted' = Counted
    BY <1>0, <2>1 DEF Counted
  <2> QED BY <1>3, <2>1, <2>2 DEF WrittenInv
<1>6. CASE WritePowerlog
  <2> DEFINE new == [from |-> "sample", index |-> powerlog, timestamp |-> rawdata[powerlog]]
  <2>1. /\ rows' = Append(rows, new) /\ pc = "compare" /\ pc' = "read" /\ PowerlogFirst
        /\ UNCHANGED <<rawdata, caffelog, caffelogs, powerlog>>
        /\ powerlog \in 1 .. Len(rawdata)
    BY <1>0, <1>6 DEF WritePowerlog, TypeOK
  <2>2. Counted = powerlog - 1 /\ Counted' = powerlog /\ Counted + 1 = powerlog
    BY <1>0, <2>1 DEF Counted
  <2>3. new \in Row /\ new.from = "sample" /\ new.index = powerlog
        /\ new.timestamp = rawdata[powerlog] /\ new.from # "event"
    <3>1. rawdata[powerlog] \in Int
      BY <2>1, TimeTypes
    <3> QED BY <2>1, <3>1 DEF Row
  <2> HIDE DEF new
  <2>4. AreFirst(Append(rows, new), "sample", powerlog, rawdata)
    BY <1>0, <2>2, <2>3, NextRow
  <2>5. AreFirst(Append(rows, new), "event", caffelog - 1, EventTimes)
    BY <1>0, <2>3, OtherRow
  <2>6. ~NoCaffelog' => caffelogs'[caffelog'].timestamp > rawdata'[powerlog']
    <3> SUFFICES ASSUME ~NoCaffelog PROVE caffelogs[caffelog].timestamp > rawdata[powerlog]
      BY <2>1 DEF NoCaffelog
    <3>1. caffelog \in 1 .. Len(caffelogs)
      BY <1>0 DEF NoCaffelog
    <3>2. caffelogs[caffelog].timestamp \in Int /\ rawdata[powerlog] \in Int
      BY <2>1, <3>1, TimeTypes
    <3> QED BY <2>1, <3>2 DEF PowerlogFirst
  <2>7. /\ AreFirst(rows', "sample", Counted', rawdata')
        /\ AreFirst(rows', "event", caffelog' - 1, EventTimes')
    BY <1>2, <2>1, <2>2, <2>4, <2>5
  <2> QED BY <2>1, <2>6, <2>7 DEF WrittenInv
<1>7. CASE WriteCaffelog
  <2> DEFINE new == [from |-> "event", index |-> caffelog,
                     timestamp |-> caffelogs[caffelog].timestamp]
  <2>1. /\ rows' = Append(rows, new) /\ pc = "compare" /\ pc' = "compare" /\ ~PowerlogFirst
        /\ UNCHANGED <<rawdata, caffelogs, powerlog>> /\ caffelog' = caffelog + 1
    BY <1>7 DEF WriteCaffelog
  <2>2. caffelog \in 1 .. Len(caffelogs)
    BY <1>0, <2>1 DEF PowerlogFirst, NoCaffelog
  <2>3. /\ new \in Row /\ new.from = "event" /\ new.index = caffelog
        /\ new.timestamp = EventTimes[caffelog] /\ new.from # "sample"
    <3>1. /\ caffelogs[caffelog].timestamp \in Int
          /\ EventTimes[caffelog] = caffelogs[caffelog].timestamp
      BY <2>2, TimeTypes, EventTimesTypes
    <3> QED BY <2>2, <3>1 DEF Row
  <2> HIDE DEF new
  <2>4. AreFirst(Append(rows, new), "sample", Counted, rawdata)
    BY <1>0, <2>3, OtherRow
  <2>5. caffelog - 1 + 1 = caffelog /\ caffelog' - 1 = caffelog
    BY <2>1, <2>2
  <2>6. AreFirst(Append(rows, new), "event", caffelog, EventTimes)
    BY <1>0, <2>3, <2>5, NextRow
  <2>7. Counted' = Counted
    BY <2>1 DEF Counted
  <2>8. /\ AreFirst(rows', "sample", Counted', rawdata')
        /\ AreFirst(rows', "event", caffelog' - 1, EventTimes')
    BY <1>2, <2>1, <2>4, <2>5, <2>6, <2>7
  <2> QED BY <2>1, <2>8 DEF WrittenInv
<1>8. CASE EndOfRawdata
  <2>1. /\ UNCHANGED <<rows, rawdata, caffelog, caffelogs, powerlog>>
        /\ pc = "read" /\ pc' = "done" /\ powerlog = Len(rawdata) /\ Counted' = Counted
    BY <1>8 DEF EndOfRawdata, Counted
  <2> QED BY <1>3, <2>1 DEF WrittenInv, NoCaffelog
<1>9. CASE UNCHANGED vars
  <2>1. /\ UNCHANGED <<rows, rawdata, caffelog, caffelogs, powerlog, pc>>
        /\ Counted' = Counted
    BY <1>9 DEF vars, Counted
  <2> QED BY <1>3, <2>1 DEF WrittenInv, NoCaffelog
<1> QED
  BY <1>1, <1>4, <1>5, <1>6, <1>7, <1>8, <1>9 DEF Next, Done

\* At the end every sample has its row, in order, and so has every event up to
\* the first that is later than the last sample (power_measurement.c:533-656).
THEOREM EverythingIsWritten == Spec => []EverythingWritten
<1>1. TypeOK /\ TypeOK' /\ Fresh /\ WrittenInv /\ [Next]_vars => WrittenInv'
  BY WrittenStep
<1>2. TypeOK /\ WrittenInv => EverythingWritten
  <2> SUFFICES ASSUME TypeOK, WrittenInv, pc = "done" PROVE EverythingWritten
    BY DEF EverythingWritten
  <2>1. Counted = Len(rawdata) /\ powerlog = Len(rawdata)
    BY DEF WrittenInv, Counted
  <2>2. rawdata # <<>> => powerlog > 0
    BY <2>1 DEF TypeOK
  <2> QED BY <2>1, <2>2 DEF WrittenInv, EverythingWritten
<1> QED BY <1>1, <1>2, WrittenInit, TypeCorrect, FreshAlways, PTL DEF Spec

-----------------------------------------------------------------------------
(* The parser alone: the CNN ends with the last batch of a well-formed log.  *)

\* How many lines have been read.
Read == IF Parsed THEN Len(log) ELSE offset

\* What the parser knows of the lines it has read.
KnowsLines ==
  LET p == caffelog_parser
  IN  /\ p.cnn_start <=> \E r \in 1 .. Read : log[r].text = "running"
      /\ \A r \in 1 .. Read : log[r].text = "running" => p.num_batch = log[r].n
      /\ \A i \in 1 .. Read :
           log[i].text = "batch" /\ log[i].n + 1 = p.num_batch => p.cnn_finish
      /\ p.cnn_finish => p.cnn_start
      /\ ~p.cnn_start => p.batch_idx < 0
      /\ ~p.cnn_finish => p.batch_idx < p.num_batch

\* What the records tell of the end.
RecordsEnd ==
  /\ \A i \in DOMAIN caffelogs : caffelogs[i].cnn_finish =>
       /\ caffelog_parser.cnn_finish
       /\ i \in BatchEnds
       /\ caffelogs[i].batch_idx = caffelog_parser.num_batch
       /\ \A j \in BatchEnds : j <= i
  /\ caffelog_parser.cnn_finish =>
       \E i \in DOMAIN caffelogs : caffelogs[i].cnn_finish

EndInv == WellFormed(log) => KnowsLines /\ RecordsEnd

LEMMA EndInit == ParserInit => EndInv
<1> SUFFICES ASSUME ParserInit PROVE KnowsLines /\ RecordsEnd
  BY DEF EndInv
<1>1. /\ caffelogs = <<>> /\ offset = 0
      /\ ~caffelog_parser.cnn_start /\ ~caffelog_parser.cnn_finish
      /\ caffelog_parser.batch_idx = -2 /\ caffelog_parser.num_batch = 0
  BY DEF ParserInit, InitParser
<1>2. Read = 0
  BY <1>1 DEF Read, Parsed
<1> QED BY <1>1, <1>2 DEF KnowsLines, RecordsEnd

\* In a well-formed log a batch line follows the line that starts the CNN, the
\* only one of its kind, and its number is below the announced one.
LEMMA BatchLines ==
  ASSUME WellFormed(log), NEW i \in DOMAIN log
  PROVE  /\ log[i].text = "batch" =>
              \E r \in DOMAIN log :
                log[r].text = "running" /\ r < i /\ log[i].n < log[r].n
         /\ log[i].text = "running" =>
              \A r \in DOMAIN log : log[r].text = "running" => r = i
BY DEF WellFormed

\* What a line of a well-formed log can be for the parser that gets to it.
LEMMA NextLine ==
  ASSUME ParserTypeOK, WellFormed(log), KnowsLines,
         offset \in 0 .. Len(log) - 1
  PROVE  LET line == log[offset + 1]
             p == caffelog_parser
         IN  /\ line.text = "running" => ~p.cnn_start
             /\ line.text = "batch" => p.cnn_start /\ line.n < p.num_batch
             /\ FinishesCnn(p, line) => line.n + 1 = p.num_batch
<1> DEFINE k == offset + 1
           line == log[k]
           p == caffelog_parser
<1>1. /\ k \in 1 .. Len(log) /\ Len(log) \in Nat /\ DOMAIN log = 1 .. Len(log)
      /\ line \in Line /\ p \in ParserState /\ Read = offset
  BY DEF ParserTypeOK, Read, Parsed
<1>2. line.n \in Nat /\ p.num_batch \in Nat
  BY <1>1 DEF Line, ParserState
<1>3. line.text = "running" => ~p.cnn_start
  <2> SUFFICES ASSUME line.text = "running", NEW r \in 1 .. offset,
                      log[r].text = "running"
               PROVE  FALSE
    BY <1>1 DEF KnowsLines
  <2>1. r \in DOMAIN log /\ r # k
    BY <1>1
  <2> QED BY <1>1, <2>1, BatchLines
<1>4. line.text = "batch" => p.cnn_start /\ line.n < p.num_batch
  <2> SUFFICES ASSUME line.text = "batch"
               PROVE  p.cnn_start /\ line.n < p.num_batch
    OBVIOUS
  <2>1. PICK r \in DOMAIN log : log[r].text = "running" /\ r < k /\ line.n < log[r].n
    BY <1>1, BatchLines
  <2>2. r \in 1 .. offset
    BY <1>1, <2>1
  <2> QED BY <1>1, <2>1, <2>2 DEF KnowsLines
<1>5. FinishesCnn(p, line) => line.n + 1 = p.num_batch
  BY <1>2, <1>4 DEF FinishesCnn, ReportsBatch
<1> QED BY <1>3, <1>4, <1>5

LEMMA ParserMoves ==
  ASSUME NEW p, NEW line
  PROVE  LET q == NextParser(p, line)
         IN  /\ q.cnn_start = (p.cnn_start \/ StartsCnn(p, line))
             /\ q.cnn_finish = (p.cnn_finish \/ FinishesCnn(p, line))
             /\ q.num_batch = IF StartsCnn(p, line) THEN line.n ELSE p.num_batch
             /\ FinishesCnn(p, line) => q.batch_idx = -1
             /\ ReportsBatch(p, line) /\ ~FinishesCnn(p, line)
                  => q.batch_idx = line.n + 1
             /\ ~ReportsBatch(p, line) => q.batch_idx = p.batch_idx
<1> DEFINE idx == CASE FinishesCnn(p, line)  -> -1
                    [] ReportsBatch(p, line) /\ ~FinishesCnn(p, line)
                                             -> line.n + 1
                    [] ~ReportsBatch(p, line) -> p.batch_idx
           q == NextParser(p, line)
<1>1. /\ FinishesCnn(p, line) => idx = -1
      /\ ReportsBatch(p, line) /\ ~FinishesCnn(p, line) => idx = line.n + 1
      /\ ~ReportsBatch(p, line) => idx = p.batch_idx
  <2>1. FinishesCnn(p, line) => ReportsBatch(p, line)
    BY DEF FinishesCnn
  <2> QED BY Zenon, <2>1
<1> HIDE DEF idx
<1>2. /\ q.cnn_start = (p.cnn_start \/ StartsCnn(p, line))
      /\ q.cnn_finish = (p.cnn_finish \/ FinishesCnn(p, line))
      /\ q.num_batch = IF StartsCnn(p, line) THEN line.n ELSE p.num_batch
      /\ q.batch_idx = idx
  BY DEF NextParser, idx
<1> HIDE DEF q
<1> QED BY <1>1, <1>2 DEF q

\* What the record of a line tells of the ends.
LEMMA RecordMade ==
  ASSUME NEW p, NEW line
  PROVE  LET c == ToCaffelog(p, line)
         IN  /\ c.cnn_finish = FinishesCnn(p, line)
             /\ FinishesBatch(p, line) => c.batch_idx = line.n + 1
             /\ c.batch_finish = INFINITE <=> FinishesBatch(p, line)
<1> DEFINE c == ToCaffelog(p, line)
           bf == CASE StartsCnn(p, line)     -> 1
                   [] FinishesBatch(p, line) -> INFINITE
                   [] ~StartsCnn(p, line) /\ ~FinishesBatch(p, line) -> 0
           bi == CASE StartsCnn(p, line)     -> 1
                   [] FinishesBatch(p, line) -> line.n + 1
                   [] ~StartsCnn(p, line) /\ ~FinishesBatch(p, line)
                        -> NextParser(p, line).batch_idx
<1>1. FinishesBatch(p, line) => ~StartsCnn(p, line)
  BY DEF FinishesBatch, ReportsBatch, StartsCnn
<1>2. /\ FinishesBatch(p, line) => bf = INFINITE /\ bi = line.n + 1
      /\ ~FinishesBatch(p, line) => bf = 1 \/ bf = 0
  BY Zenon, <1>1
<1> HIDE DEF bf, bi
<1>3. c.cnn_finish = FinishesCnn(p, line) /\ c.batch_finish = bf /\ c.batch_idx = bi
  BY DEF ToCaffelog, bf, bi
<1>4. INFINITE # 0 /\ INFINITE # 1
  BY DEF INFINITE
<1> HIDE DEF c
<1> QED BY <1>2, <1>3, <1>4 DEF c

\* The records after a line that has one, and which of them end a batch.
LEMMA RecordAdded ==
  ASSUME ParserTypeOK, ParseLine
  PROVE  LET m == Len(caffelogs) + 1
             line == log[offset + 1]
         IN  /\ DOMAIN caffelogs = 1 .. Len(caffelogs) /\ Len(caffelogs) \in Nat
             /\ DOMAIN caffelogs' = 1 .. m
             /\ caffelogs'[m] = ToCaffelog(caffelog_parser, line)
             /\ \A i \in 1 .. Len(caffelogs) : caffelogs'[i] = caffelogs[i]
             /\ BatchEnds \in SUBSET (1 .. Len(caffelogs))
             /\ BatchEnds' = BatchEnds \cup
                  (IF FinishesBatch(caffelog_parser, line) THEN {m} ELSE {})
<1> DEFINE m == Len(caffelogs) + 1
           line == log[offset + 1]
           c == ToCaffelog(caffelog_parser, line)
<1>1. caffelogs \in Seq(Caffelog) /\ caffelogs' = Append(caffelogs, c)
  BY DEF ParseLine, ParserTypeOK
<1>2. c.batch_finish = INFINITE <=> FinishesBatch(caffelog_parser, line)
  BY RecordMade
<1> HIDE DEF c
<1>3. /\ DOMAIN caffelogs = 1 .. Len(caffelogs) /\ Len(caffelogs) \in Nat
      /\ DOMAIN caffelogs' = 1 .. m /\ caffelogs'[m] = c
      /\ \A i \in 1 .. Len(caffelogs) : caffelogs'[i] = caffelogs[i]
  BY <1>1
<1>4. BatchEnds = {i \in 1 .. Len(caffelogs) : caffelogs[i].batch_finish = INFINITE}
  BY <1>3 DEF BatchEnds
<1>5. BatchEnds' = {i \in 1 .. m : caffelogs'[i].batch_finish = INFINITE}
  BY <1>3 DEF BatchEnds
<1>6. 1 .. m = (1 .. Len(caffelogs)) \cup {m}
  BY <1>3
<1> HIDE DEF m, line
<1> QED BY <1>2, <1>3, <1>4, <1>5, <1>6 DEF c, m, line

LEMMA EndParseLine ==
  ASSUME ParserTypeOK, EndInv, ParseLine
  PROVE  EndInv'
<1> DEFINE k == offset + 1
           line == log[k]
           p == caffelog_parser
           q == NextParser(p, line)
           c == ToCaffelog(p, line)
           m == Len(caffelogs) + 1
<1>1. /\ offset \in 0 .. Len(log) - 1 /\ Len(log) \in Nat
      /\ k \in 1 .. Len(log) /\ DOMAIN log = 1 .. Len(log)
      /\ line \in Line /\ p \in ParserState /\ log' = log
      /\ caffelog_parser' = q /\ caffelogs \in Seq(Caffelog)
      /\ Read = offset
  BY DEF ParseLine, ParserTypeOK, Read, Parsed
<1>2. Read' = k
  <2>1. offset' = k /\ k # -1
    BY <1>1 DEF ParseLine
  <2> HIDE DEF k
  <2> QED BY <2>1 DEF Read, Parsed
<1> SUFFICES ASSUME WellFormed(log) PROVE KnowsLines' /\ RecordsEnd'
  BY <1>1 DEF EndInv
<1>3. KnowsLines /\ RecordsEnd
  BY DEF EndInv
<1>4. /\ line.n \in Nat /\ p.num_batch \in Nat /\ p.batch_idx \in Int
      /\ {p.cnn_start, p.cnn_finish} \subseteq BOOLEAN
  BY <1>1 DEF Line, ParserState
<1>5. /\ line.text = "running" => ~p.cnn_start
      /\ line.text = "batch" => p.cnn_start /\ line.n < p.num_batch
      /\ FinishesCnn(p, line) => line.n + 1 = p.num_batch
  BY <1>1, <1>3, NextLine
<1>6. /\ q.cnn_start = (p.cnn_start \/ StartsCnn(p, line))
      /\ q.cnn_finish = (p.cnn_finish \/ FinishesCnn(p, line))
      /\ q.num_batch = IF StartsCnn(p, line) THEN line.n ELSE p.num_batch
      /\ ReportsBatch(p, line) /\ ~FinishesCnn(p, line) => q.batch_idx = line.n + 1
      /\ ~ReportsBatch(p, line) => q.batch_idx = p.batch_idx
  BY ParserMoves
<1>7. c.cnn_finish = FinishesCnn(p, line) /\ (FinishesBatch(p, line) => c.batch_idx = line.n + 1)
  BY RecordMade
<1>8. /\ DOMAIN caffelogs = 1 .. Len(caffelogs) /\ Len(caffelogs) \in Nat
      /\ DOMAIN caffelogs' = 1 .. m /\ caffelogs'[m] = c
      /\ \A i \in 1 .. Len(caffelogs) : caffelogs'[i] = caffelogs[i]
      /\ BatchEnds' = BatchEnds \cup (IF FinishesBatch(p, line) THEN {m} ELSE {})
  BY RecordAdded
<1> HIDE DEF q, c
<1>9. KnowsLines'
  <2>1. q.cnn_start <=> \E r \in 1 .. k : log[r].text = "running"
    <3>1. StartsCnn(p, line) <=> line.text = "running"
      BY <1>5 DEF StartsCnn
    <3>2. p.cnn_start <=> \E r \in 1 .. offset : log[r].text = "running"
      BY <1>1, <1>3 DEF KnowsLines
    <3>3. 1 .. k = (1 .. offset) \cup {k}
      BY <1>1
    <3>4. q.cnn_start <=> (p.cnn_start \/ line.text = "running")
      BY <1>6, <3>1
    <3> HIDE DEF k
    <3> QED BY <3>2, <3>3, <3>4 DEF line
  <2>2. \A r \in 1 .. k : log[r].text = "running" => q.num_batch = log[r].n
    <3>1. CASE line.text = "running"
      <4>1. \A r \in 1 .. k : log[r].text = "running" => r = k
        BY <1>1, <3>1, BatchLines
      <4> QED BY <1>5, <1>6, <3>1, <4>1 DEF StartsCnn
    <3>2. CASE line.text # "running"
      <4>1. q.num_batch = p.num_batch
        BY <1>6, <3>2 DEF StartsCnn
      <4> QED BY <1>1, <1>3, <3>2, <4>1 DEF KnowsLines
    <3> QED BY <3>1, <3>2
  <2>3. ASSUME NEW i \in 1 .. k, log[i].text = "batch", log[i].n + 1 = q.num_batch
        PROVE  q.cnn_finish
    <3>0. i \in DOMAIN log
      BY <1>1
    <3>1. PICK r \in DOMAIN log : log[r].text = "running" /\ r < i
      BY <2>3, <3>0, BatchLines
    <3>2. r \in 1 .. offset
      BY <1>1, <3>1
    <3>3. p.cnn_start
      BY <1>1, <1>3, <3>1, <3>2 DEF KnowsLines
    <3>4. q.num_batch = p.num_batch
      BY <1>6, <3>3 DEF StartsCnn
    <3>5. CASE i = k
      <4>1. line.text = "batch" /\ line.n + 1 >= p.num_batch
        BY <1>4, <2>3, <3>4, <3>5
      <4>2. p.cnn_finish \/ FinishesCnn(p, line)
        BY <3>3, <4>1 DEF FinishesCnn, ReportsBatch
      <4> QED BY <1>6, <4>2
    <3>6. CASE i \in 1 .. offset
      BY <1>1, <1>3, <1>6, <2>3, <3>4, <3>6 DEF KnowsLines
    <3>7. i = k \/ i \in 1 .. offset
      BY <1>1
    <3> QED BY <3>5, <3>6, <3>7
  <2>4. q.cnn_finish => q.cnn_start
    BY <1>3, <1>6 DEF KnowsLines, FinishesCnn, ReportsBatch
  <2>5. ASSUME ~q.cnn_start PROVE q.batch_idx < 0
    <3>1. ~p.cnn_start /\ ~ReportsBatch(p, line)
      BY <1>6, <2>5 DEF ReportsBatch
    <3> QED BY <1>3, <1>6, <3>1 DEF KnowsLines
  <2>6. ASSUME ~q.cnn_finish PROVE q.batch_idx < q.num_batch
    <3>1. ~p.cnn_finish /\ ~FinishesCnn(p, line) /\ p.batch_idx < p.num_batch
      BY <1>3, <1>6, <2>6 DEF KnowsLines
    <3>2. CASE ReportsBatch(p, line)
      <4>1. line.n + 1 < p.num_batch /\ ~StartsCnn(p, line)
        BY <1>4, <3>1, <3>2 DEF FinishesCnn, ReportsBatch, StartsCnn
      <4> QED BY <1>6, <3>1, <3>2, <4>1
    <3>3. CASE ~ReportsBatch(p, line)
      <4>1. CASE StartsCnn(p, line)
        <5>1. p.batch_idx < 0
          BY <1>3, <4>1 DEF KnowsLines, StartsCnn
        <5> QED BY <1>4, <1>6, <3>3, <4>1, <5>1
      <4>2. CASE ~StartsCnn(p, line)
        BY <1>6, <3>1, <3>3, <4>2
      <4> QED BY <4>1, <4>2
    <3> QED BY <3>2, <3>3
  <2> HIDE DEF k
  <2> QED BY <1>1, <1>2, <2>1, <2>2, <2>3, <2>4, <2>5, <2>6 DEF KnowsLines
<1>10. RecordsEnd'
  <2>1. BatchEnds' = BatchEnds \cup (IF FinishesBatch(p, line) THEN {m} ELSE {})
    BY <1>8
  <2>2. \A i \in BatchEnds : i \in 1 .. Len(caffelogs)
    BY <1>8 DEF BatchEnds
  <2>3. CASE FinishesCnn(p, line)
    <3>1. /\ ~p.cnn_finish /\ p.cnn_start /\ q.cnn_finish /\ c.cnn_finish
          /\ q.num_batch = p.num_batch /\ ReportsBatch(p, line)
      BY <1>6, <1>7, <2>3 DEF FinishesCnn, ReportsBatch, StartsCnn
    <3>2. FinishesBatch(p, line) /\ c.batch_idx = q.num_batch
      <4>1. p.batch_idx < p.num_batch /\ line.n + 1 = p.num_batch
        BY <1>3, <1>5, <2>3, <3>1 DEF KnowsLines
      <4> QED BY <1>7, <3>1, <4>1 DEF FinishesBatch
    <3>3. \A i \in 1 .. Len(caffelogs) : ~caffelogs[i].cnn_finish
      BY <1>3, <1>8, <3>1 DEF RecordsEnd
    <3>4. \A i \in 1 .. m : caffelogs'[i].cnn_finish => i = m
      BY <1>8, <3>3
    <3>5. \A j \in BatchEnds' : j <= m
      BY <1>8, <2>1, <2>2
    <3>6. m \in BatchEnds' /\ m \in 1 .. m
      BY <1>8, <2>1, <3>2
    <3> HIDE DEF m
    <3> QED BY <1>1, <1>8, <3>1, <3>2, <3>4, <3>5, <3>6 DEF RecordsEnd
  <2>4. CASE ~FinishesCnn(p, line)
    <3>1. q.cnn_finish = p.cnn_finish /\ ~c.cnn_finish
      BY <1>4, <1>6, <1>7, <2>4
    <3>2. CASE p.cnn_finish
      <4>1. ~FinishesBatch(p, line) /\ q.num_batch = p.num_batch
        BY <1>3, <1>6, <3>2 DEF FinishesBatch, ReportsBatch, StartsCnn, KnowsLines
      <4>2. BatchEnds' = BatchEnds
        BY <2>1, <4>1
      <4>3. /\ \A i \in 1 .. Len(caffelogs) : caffelogs[i].cnn_finish =>
                 /\ i \in BatchEnds
                 /\ caffelogs[i].batch_idx = p.num_batch
                 /\ \A j \in BatchEnds : j <= i
            /\ \E i \in 1 .. Len(caffelogs) : caffelogs[i].cnn_finish
        BY <1>3, <1>8, <3>2 DEF RecordsEnd
      <4>4. 1 .. m = (1 .. Len(caffelogs)) \cup {m}
        BY <1>8
      <4> HIDE DEF m
      <4> QED BY <1>1, <1>8, <3>1, <3>2, <4>1, <4>2, <4>3, <4>4 DEF RecordsEnd
    <3>3. CASE ~p.cnn_finish
      <4>1. \A i \in 1 .. Len(caffelogs) : ~caffelogs[i].cnn_finish
        BY <1>3, <1>8, <3>3 DEF RecordsEnd
      <4>2. \A i \in 1 .. m : ~caffelogs'[i].cnn_finish
        BY <1>8, <3>1, <4>1
      <4> QED BY <1>1, <1>8, <3>1, <3>3, <4>2 DEF RecordsEnd
    <3> QED BY <3>2, <3>3
  <2> QED BY <2>3, <2>4
<1> QED BY <1>9, <1>10

LEMMA EndStep ==
  ParserTypeOK /\ EndInv
    /\ [ParseCaffelog \/ (Parsed /\ UNCHANGED parserVars)]_parserVars => EndInv'
<1> SUFFICES ASSUME ParserTypeOK, EndInv,
                    [ParseCaffelog \/ (Parsed /\ UNCHANGED parserVars)]_parserVars
             PROVE  EndInv'
  OBVIOUS
<1>1. ASSUME UNCHANGED <<log, caffelog_parser, caffelogs>>,
             \/ Read' = Read
             \/ /\ Read' = Read + 1 /\ Read' \in 1 .. Len(log)
                /\ log[Read'].text = "noise"
      PROVE  EndInv'
  <2>0. Read \in Int
    BY DEF ParserTypeOK, Read, Parsed
  <2>1. \A r \in 1 .. Read' : r \in 1 .. Read \/ log[r].text = "noise"
    BY <1>1, <2>0
  <2>2. 1 .. Read \subseteq 1 .. Read'
    BY <1>1, <2>0
  <2>3. WellFormed(log) => KnowsLines'
    BY <1>1, <2>1, <2>2 DEF EndInv, KnowsLines
  <2>4. WellFormed(log) => RecordsEnd'
    BY <1>1 DEF EndInv, RecordsEnd, BatchEnds
  <2> QED BY <1>1, <2>3, <2>4 DEF EndInv
<1>2. CASE SkipLine
  <2>1. Read = offset /\ Read' = offset + 1 /\ offset + 1 \in 1 .. Len(log)
    BY <1>2 DEF SkipLine, Read, Parsed, ParserTypeOK
  <2> QED BY <1>1, <1>2, <2>1 DEF SkipLine
<1>3. CASE ParseLine
  BY <1>3, EndParseLine
<1>4. CASE EndOfLog
  <2>1. Read = Len(log) /\ Read' = Len(log)
    BY <1>4 DEF EndOfLog, Read, Parsed, ParserTypeOK
  <2> QED BY <1>1, <1>4, <2>1 DEF EndOfLog
<1>5. CASE UNCHANGED parserVars
  BY <1>1, <1>5 DEF parserVars, Read, Parsed
<1> QED BY <1>2, <1>3, <1>4, <1>5 DEF ParseCaffelog

\* Whatever else a well-formed log holds, and wherever it stops, the CNN ends once,
\* with the end of the announced last batch, no batch ends afterwards, and a log
\* that reports the last batch ends the CNN (caffelog.c:133-186).
THEOREM CnnEndsAlways == ParserSpec => []CnnEndsWithLastBatch
<1>1. ParserTypeOK /\ EndInv => CnnEndsWithLastBatch
  <2> SUFFICES ASSUME ParserTypeOK, EndInv, WellFormed(log)
               PROVE  /\ \A i \in DOMAIN caffelogs : caffelogs[i].cnn_finish =>
                           /\ i \in BatchEnds
                           /\ caffelogs[i].batch_idx = caffelog_parser.num_batch
                           /\ \A j \in BatchEnds : j <= i
                      /\ Parsed =>
                           \A i, r \in DOMAIN log :
                             log[i].text = "batch" /\ log[r].text = "running"
                               /\ log[i].n + 1 = log[r].n
                             => \E j \in DOMAIN caffelogs : caffelogs[j].cnn_finish
    BY DEF CnnEndsWithLastBatch
  <2>1. KnowsLines /\ RecordsEnd
    BY DEF EndInv
  <2>2. ASSUME Parsed, NEW i \in DOMAIN log, NEW r \in DOMAIN log,
               log[i].text = "batch", log[r].text = "running",
               log[i].n + 1 = log[r].n
        PROVE  \E j \in DOMAIN caffelogs : caffelogs[j].cnn_finish
    <3>1. i \in 1 .. Read /\ r \in 1 .. Read
      BY <2>2 DEF Read, ParserTypeOK
    <3>2. caffelog_parser.cnn_finish
      BY <2>1, <2>2, <3>1 DEF KnowsLines
    <3> QED BY <2>1, <3>2 DEF RecordsEnd
  <2> QED BY <2>1, <2>2 DEF RecordsEnd
<1> QED
  BY <1>1, ParserTypeCorrect, EndInit, EndStep, PTL DEF ParserSpec

-----------------------------------------------------------------------------
(* The parser alone: each batch of a well-formed log ends once, in order.    *)

\* Until the CNN ends, the parser's batch is the last one reported, and as many
\* records end a batch.
KnowsBatches ==
  LET idx == caffelog_parser.batch_idx
  IN  ~caffelog_parser.cnn_finish =>
        /\ \A i \in 1 .. Read : log[i].text = "batch" => log[i].n < idx
        /\ idx >= 0 => \E i \in 1 .. Read : log[i].text = "batch" /\ log[i].n + 1 = idx
        /\ Cardinality(BatchEnds) = IF idx < 0 THEN 0 ELSE idx

EndsCounted == \A i \in BatchEnds : caffelogs[i].batch_idx = EndsUpTo(i)

CountInv == WellFormed(log) => KnowsBatches /\ EndsCounted

LEMMA CountInit == ParserInit => CountInv
<1> SUFFICES ASSUME ParserInit PROVE KnowsBatches /\ EndsCounted
  BY DEF CountInv
<1>1. caffelogs = <<>> /\ offset = 0 /\ caffelog_parser.batch_idx = -2
  BY DEF ParserInit, InitParser
<1>2. Read = 0 /\ BatchEnds = {}
  BY <1>1 DEF Read, Parsed, BatchEnds
<1> QED BY <1>1, <1>2, FS_EmptySet DEF KnowsBatches, EndsCounted

\* In a well-formed log the batches come in order and none is left out.
LEMMA BatchOrder ==
  ASSUME WellFormed(log), NEW i \in DOMAIN log, log[i].text = "batch"
  PROVE  /\ log[i].n > 0 =>
              \E j \in DOMAIN log :
                log[j].text = "batch" /\ j < i /\ log[j].n = log[i].n - 1
         /\ \A j \in DOMAIN log :
              log[j].text = "batch" /\ j < i => log[j].n <= log[i].n
BY DEF WellFormed

LEMMA CountParseLine ==
  ASSUME ParserTypeOK, EndInv, CountInv, ParseLine
  PROVE  CountInv'
<1> DEFINE k == offset + 1
           line == log[k]
           p == caffelog_parser
           q == NextParser(p, line)
           c == ToCaffelog(p, line)
           m == Len(caffelogs) + 1
<1>1. /\ offset \in 0 .. Len(log) - 1 /\ Len(log) \in Nat
      /\ k \in 1 .. Len(log) /\ DOMAIN log = 1 .. Len(log)
      /\ line \in Line /\ p \in ParserState /\ log' = log
      /\ caffelog_parser' = q /\ Read = offset
  BY DEF ParseLine, ParserTypeOK, Read, Parsed
<1>2. Read' = k
  <2>1. offset' = k /\ k # -1
    BY <1>1 DEF ParseLine
  <2> HIDE DEF k
  <2> QED BY <2>1 DEF Read, Parsed
<1> SUFFICES ASSUME WellFormed(log) PROVE KnowsBatches' /\ EndsCounted'
  BY <1>1 DEF CountInv
<1>3. KnowsLines /\ KnowsBatches /\ EndsCounted
  BY DEF EndInv, CountInv
<1>4. /\ line.n \in Nat /\ p.batch_idx \in Int
      /\ \A i \in 1 .. Len(log) : log[i].n \in Nat
  <2>1. \A i \in 1 .. Len(log) : log[i] \in Line
    BY DEF ParserTypeOK
  <2> QED BY <1>1, <2>1 DEF Line, ParserState
<1>5. line.text = "batch" => p.cnn_start
  BY <1>1, <1>3, NextLine
<1>6. /\ q.cnn_finish = (p.cnn_finish \/ FinishesCnn(p, line))
      /\ ReportsBatch(p, line) /\ ~FinishesCnn(p, line) => q.batch_idx = line.n + 1
      /\ ~ReportsBatch(p, line) => q.batch_idx = p.batch_idx
  BY ParserMoves
<1>7. /\ FinishesBatch(p, line) => c.batch_idx = line.n + 1
      /\ Len(caffelogs) \in Nat /\ caffelogs'[m] = c
      /\ \A i \in 1 .. Len(caffelogs) : caffelogs'[i] = caffelogs[i]
      /\ BatchEnds \in SUBSET (1 .. Len(caffelogs))
      /\ BatchEnds' = BatchEnds \cup (IF FinishesBatch(p, line) THEN {m} ELSE {})
  BY RecordMade, RecordAdded
<1> HIDE DEF q, c
<1>8. Cardinality(BatchEnds) \in Nat /\ Cardinality(BatchEnds \cup {m}) = Cardinality(BatchEnds) + 1
  BY <1>7, CountNext
\* The line before the end of a batch, if any, is of the batch before.
<1>9. ASSUME ReportsBatch(p, line)
      PROVE  /\ line.text = "batch" /\ ~p.cnn_finish
             /\ p.batch_idx < 0 \/ p.batch_idx > 0
             /\ p.batch_idx <= line.n + 1
             /\ p.batch_idx < 0 => line.n = 0
             /\ p.batch_idx >= line.n \/ p.batch_idx < 0
             /\ \A i \in 1 .. offset : log[i].text = "batch" => log[i].n <= line.n
  <2>1. line.text = "batch" /\ ~p.cnn_finish
    BY <1>9 DEF ReportsBatch
  <2>2. /\ \A i \in 1 .. offset : log[i].text = "batch" => log[i].n < p.batch_idx
        /\ p.batch_idx >= 0 =>
             \E i \in 1 .. offset : log[i].text = "batch" /\ log[i].n + 1 = p.batch_idx
    BY <1>1, <1>3, <2>1 DEF KnowsBatches
  <2>3. \A i \in 1 .. offset : log[i].text = "batch" => log[i].n <= line.n
    BY <1>1, <2>1, BatchOrder
  <2>4. line.n > 0 => \E j \in 1 .. offset : log[j].text = "batch" /\ log[j].n = line.n - 1
    BY <1>1, <2>1, BatchOrder
  <2>5. 1 .. offset \subseteq 1 .. Len(log)
    BY <1>1
  <2>6. p.batch_idx >= 0 => p.batch_idx > 0 /\ p.batch_idx <= line.n + 1
    BY <1>4, <2>2, <2>3, <2>5
  <2>7. line.n > 0 => line.n <= p.batch_idx
    BY <1>4, <2>2, <2>4, <2>5
  <2> HIDE DEF k, line, p
  <2> QED BY <1>4, <2>1, <2>3, <2>6, <2>7
<1>10. FinishesBatch(p, line) => Cardinality(BatchEnds) = line.n
  <2> SUFFICES ASSUME FinishesBatch(p, line) PROVE Cardinality(BatchEnds) = line.n
    OBVIOUS
  <2>1. ReportsBatch(p, line) /\ p.batch_idx < line.n + 1
    BY DEF FinishesBatch
  <2>2. Cardinality(BatchEnds) = IF p.batch_idx < 0 THEN 0 ELSE p.batch_idx
    BY <1>3, <1>9, <2>1 DEF KnowsBatches
  <2> HIDE DEF k, line, p
  <2> QED BY <1>4, <1>9, <2>1, <2>2
<1>11. EndsCounted'
  <2> SUFFICES ASSUME NEW i \in BatchEnds'
               PROVE  caffelogs'[i].batch_idx = Cardinality({j \in BatchEnds' : j <= i})
    BY DEF EndsCounted, EndsUpTo
  <2>1. CASE i \in BatchEnds
    <3>1. i \in 1 .. Len(caffelogs) /\ caffelogs'[i] = caffelogs[i]
      BY <1>7, <2>1
    <3>2. {j \in BatchEnds' : j <= i} = {j \in BatchEnds : j <= i}
      BY <1>7, <3>1
    <3> QED BY <1>3, <2>1, <3>1, <3>2 DEF EndsCounted, EndsUpTo
  <2>2. CASE FinishesBatch(p, line) /\ i = m
    <3>1. BatchEnds' = BatchEnds \cup {m}
      BY <1>7, <2>2
    <3>2. {j \in BatchEnds' : j <= i} = BatchEnds \cup {m}
      <4>1. /\ m \in Nat /\ \A j \in BatchEnds : j \in Nat /\ j <= m
        BY <1>7
      <4> HIDE DEF m
      <4> QED BY <2>2, <3>1, <4>1
    <3> HIDE DEF m, line, p
    <3> QED BY <1>7, <1>8, <1>10, <2>2, <3>2
  <2> QED BY <1>7, <2>1, <2>2
<1>12. KnowsBatches'
  <2> SUFFICES ASSUME ~q.cnn_finish
               PROVE  /\ \A i \in 1 .. k : log[i].text = "batch" => log[i].n < q.batch_idx
                      /\ q.batch_idx >= 0 =>
                           \E i \in 1 .. k : log[i].text = "batch" /\ log[i].n + 1 = q.batch_idx
                      /\ Cardinality(BatchEnds') = IF q.batch_idx < 0 THEN 0 ELSE q.batch_idx
    BY <1>1, <1>2 DEF KnowsBatches
  <2>1. ~p.cnn_finish /\ ~FinishesCnn(p, line)
    BY <1>6
  <2>2. /\ \A i \in 1 .. offset : log[i].text = "batch" => log[i].n < p.batch_idx
        /\ p.batch_idx >= 0 =>
             \E i \in 1 .. offset : log[i].text = "batch" /\ log[i].n + 1 = p.batch_idx
        /\ Cardinality(BatchEnds) = IF p.batch_idx < 0 THEN 0 ELSE p.batch_idx
    BY <1>1, <1>3, <2>1 DEF KnowsBatches
  <2>3. 1 .. k = (1 .. offset) \cup {k}
    BY <1>1
  <2>4. CASE ReportsBatch(p, line)
    <3>1. q.batch_idx = line.n + 1 /\ line.text = "batch"
      BY <1>6, <1>9, <2>1, <2>4
    <3>2. Cardinality(BatchEnds') = line.n + 1
      <4>1. CASE FinishesBatch(p, line)
        <5>1. BatchEnds' = BatchEnds \cup {m}
          BY <1>7, <4>1
        <5>2. Cardinality(BatchEnds') = Cardinality(BatchEnds) + 1
          BY Zenon, <1>8, <5>1
        <5> QED BY <1>10, <4>1, <5>2
      <4>2. CASE ~FinishesBatch(p, line)
        <5>1. BatchEnds' = BatchEnds
          BY <1>7, <4>2
        <5>2. ~(p.batch_idx < line.n + 1)
          BY <2>4, <4>2 DEF FinishesBatch
        <5> HIDE DEF m, line, p
        <5> QED BY <1>4, <1>9, <2>2, <2>4, <5>1, <5>2
      <4> QED BY <4>1, <4>2
    <3>3. \A i \in 1 .. k : log[i].text = "batch" => log[i].n < q.batch_idx
      <4>1. \A i \in 1 .. offset : log[i].text = "batch" => log[i].n <= line.n
        BY <1>9, <2>4
      <4>2. \A i \in 1 .. k : log[i].n \in Nat
        BY <1>1, <1>4
      <4> HIDE DEF k, p
      <4> QED BY <1>4, <2>3, <3>1, <4>1, <4>2 DEF line
    <3>4. k \in 1 .. k
      BY <1>1
    <3> QED BY <1>4, <3>1, <3>2, <3>3, <3>4
  <2>5. CASE ~ReportsBatch(p, line)
    <3>1. line.text # "batch" /\ q.batch_idx = p.batch_idx
      BY <1>5, <1>6, <2>1, <2>5 DEF ReportsBatch
    <3>2. BatchEnds' = BatchEnds
      BY <1>7, <2>5 DEF FinishesBatch
    <3> HIDE DEF k, p
    <3> QED BY <2>2, <2>3, <3>1, <3>2 DEF line
  <2> QED BY <2>4, <2>5
<1> QED BY <1>11, <1>12

LEMMA CountStep ==
  ParserTypeOK /\ EndInv /\ CountInv
    /\ [ParseCaffelog \/ (Parsed /\ UNCHANGED parserVars)]_parserVars => CountInv'
<1> SUFFICES ASSUME ParserTypeOK, EndInv, CountInv,
                    [ParseCaffelog \/ (Parsed /\ UNCHANGED parserVars)]_parserVars
             PROVE  CountInv'
  OBVIOUS
<1>1. ASSUME UNCHANGED <<log, caffelog_parser, caffelogs>>,
             \/ Read' = Read
             \/ /\ Read' = Read + 1 /\ Read' \in 1 .. Len(log)
                /\ log[Read'].text = "noise"
      PROVE  CountInv'
  <2>0. Read \in Int
    BY DEF ParserTypeOK, Read, Parsed
  <2>1. \A r \in 1 .. Read' : r \in 1 .. Read \/ log[r].text = "noise"
    BY <1>1, <2>0
  <2>2. 1 .. Read \subseteq 1 .. Read'
    BY <1>1, <2>0
  <2>3. BatchEnds' = BatchEnds
    BY <1>1 DEF BatchEnds
  <2>4. WellFormed(log) => KnowsBatches'
    BY <1>1, <2>1, <2>2, <2>3 DEF CountInv, KnowsBatches
  <2>5. WellFormed(log) => EndsCounted'
    BY <1>1, <2>3 DEF CountInv, EndsCounted, EndsUpTo
  <2> QED BY <1>1, <2>4, <2>5 DEF CountInv
<1>2. CASE SkipLine
  <2>1. Read = offset /\ Read' = offset + 1 /\ offset + 1 \in 1 .. Len(log)
    BY <1>2 DEF SkipLine, Read, Parsed, ParserTypeOK
  <2> QED BY <1>1, <1>2, <2>1 DEF SkipLine
<1>3. CASE ParseLine
  BY <1>3, CountParseLine
<1>4. CASE EndOfLog
  <2>1. Read = Len(log) /\ Read' = Len(log)
    BY <1>4 DEF EndOfLog, Read, Parsed, ParserTypeOK
  <2> QED BY <1>1, <1>4, <2>1 DEF EndOfLog
<1>5. CASE UNCHANGED parserVars
  BY <1>1, <1>5 DEF parserVars, Read, Parsed
<1> QED BY <1>2, <1>3, <1>4, <1>5 DEF ParseCaffelog

\* However many lines a well-formed log has for a batch and wherever it stops,
\* the records end each batch once, and in order (caffelog.c:160-179).
THEOREM BatchesEndAlways == ParserSpec => []BatchesEndOnceInOrder
<1>1. CountInv => BatchesEndOnceInOrder
  BY DEF CountInv, EndsCounted, BatchesEndOnceInOrder
<1> QED
  BY <1>1, ParserTypeCorrect, EndInit, EndStep, CountInit, CountStep, PTL DEF ParserSpec
=============================================================================
