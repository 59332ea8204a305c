------------------------ MODULE CaffelogReaderProofs ------------------------
(***************************************************************************)
(* That reading Caffe's log by the buffer is reading it line by line, for  *)
(* every file and every size of the buffer; that the search for a newline  *)
(* leaves the buffer in no other case than the two the module names; and   *)
(* that what is proved of the parser holds for what the reader gives it.   *)
(*                                                                         *)
(* A newline that pread() did not read can be the first one in the buffer  *)
(* only behind the last byte of the file: the offset is past the file's    *)
(* end then, and up to there the two histories are what the parser made.   *)
(***************************************************************************)
EXTENDS CaffelogReader, FiniteSetTheorems, WellFoundedInduction, TLAPS

ReaderInv ==
  /\ ReaderTypeOK
  /\ new_offset \in 0 .. file.size =>
       complete = [parser |-> caffelog_parser, caffelogs |-> caffelogs]

-----------------------------------------------------------------------------
(* Newlines. *)

\* The first of some places is there.
LEMMA FirstExists ==
  ASSUME NEW S, S \subseteq Nat, S # {}
  PROVE  First(S) \in S /\ \A q \in S : First(S) <= q
<1> DEFINE R == OpToRel(<, Nat)
<1>1. IsWellFoundedOn(R, Nat)
  BY NatLessThanWellFounded
<1>2. \A x, y \in Nat : <<y, x>> \in R <=> y < x
  BY DEF OpToRel
<1> HIDE DEF R
<1>3. PICK x \in S : \A y \in S : <<y, x>> \notin R
  BY <1>1, WFMin
<1>4. ASSUME NEW y \in S PROVE x <= y
  <2>1. x \in Nat /\ y \in Nat /\ ~(y < x)
    BY <1>2, <1>3
  <2> QED BY <2>1
<1> QED BY <1>4 DEF First

\* A file has as many lines as newlines, and these are in it.
LEMMA FileTypes ==
  ASSUME file \in Files
  PROVE  /\ file.size \in Nat /\ file.log \in Logs /\ file.log \in Seq(Lines!Line)
         /\ \A n \in file.newlines : n \in Nat /\ n < file.size
         /\ IsFiniteSet(file.newlines)
         /\ Len(file.log) = Cardinality(file.newlines) /\ Len(file.log) \in Nat
<1>1. /\ file.size \in Nat /\ file.newlines \subseteq 0 .. file.size - 1
      /\ file.log \in Logs /\ Len(file.log) = Cardinality(file.newlines)
      /\ Logs \subseteq Seq(Lines!Line)
  BY ReaderAssumption
<1>2. IsFiniteSet(file.newlines)
  <2>1. IsFiniteSet(0 .. file.size - 1)
    <3>1. 0 \in Int /\ file.size - 1 \in Int
      BY <1>1
    <3> QED BY <3>1, FS_Interval
  <2> QED BY <1>1, <2>1, FS_Subset
<1>3. \A n \in file.newlines : n \in Nat /\ n < file.size
  BY <1>1
<1>4. file.log \in Seq(Lines!Line) /\ Len(file.log) \in Nat
  BY <1>1
<1> QED BY <1>1, <1>2, <1>3, <1>4

\* How many lines end before some place: none before the first place, no more
\* than there are, and at the next newline one more.
LEMMA LinesBefore ==
  ASSUME file \in Files, NEW o \in Int
  PROVE  /\ Cardinality({n \in file.newlines : n < o}) \in 0 .. Len(file.log)
         /\ (\A n \in file.newlines : n < o) =>
              Cardinality({n \in file.newlines : n < o}) = Len(file.log)
         /\ o <= 0 => Cardinality({n \in file.newlines : n < o}) = 0
         /\ \A p \in file.newlines :
              /\ p >= o
              /\ \A m \in file.newlines : m >= o => p <= m
              => /\ Cardinality({n \in file.newlines : n < p + 1})
                      = Cardinality({n \in file.newlines : n < o}) + 1
                 /\ Cardinality({n \in file.newlines : n < o}) < Len(file.log)
<1> DEFINE before == {n \in file.newlines : n < o}
<1>1. before \subseteq file.newlines
  OBVIOUS
<1>2. IsFiniteSet(before) /\ Cardinality(before) \in Nat
      /\ Cardinality(before) <= Len(file.log)
  BY <1>1, FileTypes, FS_Subset, FS_CardinalityType
<1>3. (\A n \in file.newlines : n < o) => before = file.newlines
  OBVIOUS
<1>4. o <= 0 => before = {}
  BY FileTypes
<1>5. ASSUME NEW p \in file.newlines, p >= o,
             \A m \in file.newlines : m >= o => p <= m
      PROVE  /\ Cardinality({n \in file.newlines : n < p + 1}) = Cardinality(before) + 1
             /\ Cardinality(before) < Len(file.log)
  <2> DEFINE upto == {n \in file.newlines : n < p + 1}
  <2>1. \A n \in file.newlines : n < p + 1 <=> n < o \/ n = p
    BY <1>5, FileTypes
  <2>2. upto = before \cup {p} /\ p \notin before
    BY <1>5, <2>1, FileTypes
  <2>3. upto \subseteq file.newlines
    OBVIOUS
  <2> HIDE DEF upto, before
  <2>4. Cardinality(upto) = Cardinality(before) + 1
    BY <1>2, <2>2, FS_AddElement
  <2>5. Cardinality(upto) <= Len(file.log)
    BY <2>3, FileTypes, FS_Subset
  <2>6. Len(file.log) \in Nat
    BY FileTypes
  <2>7. Cardinality(before) < Len(file.log)
    BY <1>2, <2>4, <2>5, <2>6
  <2> QED BY <2>4, <2>7 DEF upto
<1> HIDE DEF before
<1>6. Cardinality(before) \in 0 .. Len(file.log)
  BY <1>2, FileTypes
<1>7. /\ (\A n \in file.newlines : n < o) => Cardinality(before) = Len(file.log)
      /\ o <= 0 => Cardinality(before) = 0
  BY <1>3, <1>4, FileTypes, FS_EmptySet
<1> QED BY <1>5, <1>6, <1>7 DEF before

-----------------------------------------------------------------------------
(* The search. *)

LEMMA ReadBytesType ==
  ASSUME file.size \in Nat, new_offset \in Nat
  PROVE  /\ ReadBytes \in Int /\ ReadBytes <= BUFF_SIZE
         /\ new_offset + ReadBytes <= file.size
         /\ ReadBytes < BUFF_SIZE => new_offset + ReadBytes = file.size
         /\ ReadBytes <= 0 <=> new_offset >= file.size
BY ReaderAssumption DEF ReadBytes

\* A newline that is found is in the buffer; it is the next one of the file, or
\* the file has none left and the offset goes behind its last byte.
LEMMA Found ==
  ASSUME ReaderTypeOK, new_offset >= 0, ReadBytes > 0,
         NEW stale \in Stale, Newlines(stale) # {}
  PROVE  LET p == First(Newlines(stale))
         IN  /\ Newlines(stale) \subseteq 0 .. BUFF_SIZE - 1
             /\ p \in 0 .. BUFF_SIZE - 1
             /\ new_offset \in 0 .. file.size
             /\ p < ReadBytes =>
                  /\ new_offset + p \in file.newlines
                  /\ \A m \in file.newlines : m >= new_offset => new_offset + p <= m
             /\ p >= ReadBytes =>
                  /\ \A n \in file.newlines : n < new_offset
                  /\ new_offset + p + 1 > file.size
<1> DEFINE p == First(Newlines(stale))
<1>1. /\ file \in Files /\ new_offset \in Nat /\ buff \subseteq 0 .. BUFF_SIZE - 1
      /\ BUFF_SIZE \in Nat \ {0}
  BY ReaderAssumption DEF ReaderTypeOK
<1>2. /\ file.size \in Nat /\ \A n \in file.newlines : n \in Nat /\ n < file.size
  BY <1>1, FileTypes
<1>3. /\ ReadBytes \in Int /\ ReadBytes <= BUFF_SIZE
      /\ new_offset + ReadBytes <= file.size
      /\ ReadBytes < BUFF_SIZE => new_offset + ReadBytes = file.size
      /\ ~(new_offset >= file.size)
  BY <1>1, <1>2, ReadBytesType
<1>4. stale \subseteq 0 .. BUFF_SIZE - 1
  BY <1>1 DEF Stale
<1>5. \A q : q \in Newlines(stale) <=>
        \/ \E n \in file.newlines : n - new_offset \in 0 .. ReadBytes - 1 /\ q = n - new_offset
        \/ q \in stale /\ q >= ReadBytes
  BY DEF Newlines
<1>6. Newlines(stale) \subseteq 0 .. BUFF_SIZE - 1
  <2> SUFFICES ASSUME NEW q \in Newlines(stale) PROVE q \in 0 .. BUFF_SIZE - 1
    OBVIOUS
  <2>1. q \in 0 .. ReadBytes - 1 \/ q \in stale
    BY <1>5
  <2>2. CASE q \in 0 .. ReadBytes - 1
    BY <1>1, <1>3, <2>2
  <2>3. CASE q \in stale
    BY <1>4, <2>3
  <2> QED BY <2>1, <2>2, <2>3
<1>7. p \in Newlines(stale) /\ \A q \in Newlines(stale) : p <= q
  <2>1. Newlines(stale) \subseteq Nat
    BY <1>1, <1>6
  <2> QED BY <2>1, FirstExists
<1> HIDE DEF p
<1>8. p \in 0 .. BUFF_SIZE - 1 /\ new_offset \in 0 .. file.size
  BY <1>1, <1>2, <1>3, <1>6, <1>7
<1>9. ASSUME p < ReadBytes
      PROVE  /\ new_offset + p \in file.newlines
             /\ \A m \in file.newlines : m >= new_offset => new_offset + p <= m
  <2>1. PICK n \in file.newlines : p = n - new_offset
    BY <1>3, <1>5, <1>7, <1>8, <1>9
  <2>2. new_offset + p = n
    BY <1>1, <1>2, <2>1
  <2>3. ASSUME NEW m \in file.newlines, m >= new_offset
        PROVE  new_offset + p <= m
    <3>1. CASE m - new_offset \in 0 .. ReadBytes - 1
      <4>1. p <= m - new_offset
        BY <1>5, <1>7, <3>1
      <4> QED BY <1>1, <1>2, <1>8, <4>1
    <3>2. CASE m - new_offset >= ReadBytes
      BY <1>1, <1>2, <1>3, <1>8, <1>9, <3>2
    <3> QED BY <1>1, <1>2, <1>3, <2>3, <3>1, <3>2
  <2> QED BY <2>2, <2>3
<1>10. ASSUME p >= ReadBytes
       PROVE  /\ \A n \in file.newlines : n < new_offset
              /\ new_offset + p + 1 > file.size
  <2>1. ReadBytes < BUFF_SIZE
    BY <1>1, <1>3, <1>8, <1>10
  <2>2. new_offset + ReadBytes = file.size
    BY <1>3, <2>1
  <2>3. ASSUME NEW n \in file.newlines, n >= new_offset
        PROVE  FALSE
    <3>1. n - new_offset \in 0 .. ReadBytes - 1
      BY <1>1, <1>2, <1>3, <2>2, <2>3
    <3>2. p <= n - new_offset
      BY <1>5, <1>7, <3>1
    <3> QED BY <1>1, <1>2, <1>3, <1>8, <1>10, <3>1, <3>2
  <2>4. \A n \in file.newlines : n < new_offset
    BY <1>1, <1>2, <2>3
  <2>5. new_offset + p + 1 > file.size
    BY <1>1, <1>2, <1>3, <1>8, <1>10, <2>2
  <2> QED BY <2>4, <2>5
<1> QED BY <1>6, <1>8, <1>9, <1>10 DEF p

-----------------------------------------------------------------------------
(* The parser.  The reader is the first phase of calculate_2ndstat(), which   *)
(* StatMerge models; its samples and what it writes do not matter here.       *)

Merge == INSTANCE StatMergeProofs WITH
    log             <- file.log,
    offset          <- IF new_offset = -1 THEN -1 ELSE LinesRead,
    caffelog_parser <- complete.parser,
    caffelogs       <- complete.caffelogs,
    Rawdata         <- {},
    pc              <- "parse",
    rawdata         <- <<>>,
    powerlog        <- 0,
    caffelog        <- 1,
    flag_cnnstart   <- FALSE,
    flag_cnnfinish  <- FALSE,
    summary_caffe   <- {},
    summary_cnn     <- {},
    summary_batch   <- {},
    printed         <- <<>>,
    rows            <- <<>>

\* The two modules mean the same by the parser.
LEMMA SameOperators ==
  ASSUME NEW p, NEW line
  PROVE  /\ Merge!NextParser(p, line) = Lines!NextParser(p, line)
         /\ Merge!ToCaffelog(p, line) = Lines!ToCaffelog(p, line)
         /\ Merge!Line = Lines!Line /\ Merge!ParserState = Lines!ParserState
         /\ Merge!Caffelog = Lines!Caffelog
<1>1. /\ Merge!StartsCnn(p, line) = Lines!StartsCnn(p, line)
      /\ Merge!ReportsBatch(p, line) = Lines!ReportsBatch(p, line)
      /\ Merge!FinishesBatch(p, line) = Lines!FinishesBatch(p, line)
      /\ Merge!FinishesCnn(p, line) = Lines!FinishesCnn(p, line)
  BY DEF Merge!FinishesCnn, Lines!FinishesCnn, Merge!FinishesBatch, Lines!FinishesBatch,
   Merge!ReportsBatch, Lines!ReportsBatch, Merge!StartsCnn, Lines!StartsCnn
<1>2. Merge!Timestamp(line) = Lines!Timestamp(line) /\ Merge!INFINITE = Lines!INFINITE
  BY DEF Merge!Timestamp, Lines!Timestamp, Merge!INFINITE, Lines!INFINITE
<1>3. Merge!NextParser(p, line) = Lines!NextParser(p, line)
  BY <1>1 DEF Merge!NextParser, Lines!NextParser
<1>4. Merge!ToCaffelog(p, line) = Lines!ToCaffelog(p, line)
  <2>1. CASE Lines!StartsCnn(p, line)
    BY <1>1, <1>2, <1>3, <2>1 DEF Merge!ToCaffelog, Lines!ToCaffelog
  <2>2. CASE ~Lines!StartsCnn(p, line) /\ Lines!FinishesBatch(p, line)
    BY <1>1, <1>2, <1>3, <2>2 DEF Merge!ToCaffelog, Lines!ToCaffelog
  <2>3. CASE ~Lines!StartsCnn(p, line) /\ ~Lines!FinishesBatch(p, line)
    BY <1>1, <1>2, <1>3, <2>3 DEF Merge!ToCaffelog, Lines!ToCaffelog
  <2> QED BY <2>1, <2>2, <2>3
<1>5. /\ Merge!Line = Lines!Line /\ Merge!ParserState = Lines!ParserState
      /\ Merge!Caffelog = Lines!Caffelog
  BY <1>2 DEF Merge!Line, Lines!Line, Merge!ParserState, Lines!ParserState,
     Merge!Caffelog, Lines!Caffelog
<1> QED BY <1>3, <1>4, <1>5

LEMMA SameCardinality ==
  ASSUME NEW S
  PROVE  Merge!Cardinality(S) = Lines!Cardinality(S)
BY Zenon DEF Merge!Cardinality, Lines!Cardinality

LEMMA MergeAssumptions ==
  /\ {} \subseteq Seq(Nat)
  /\ Day \in Nat \ {0} /\ StartTime \in Nat /\ Logs \subseteq Seq(Merge!Line)
BY SameOperators, ReaderAssumption

LEMMA LineTypes ==
  ASSUME NEW p \in Lines!ParserState, NEW line \in Lines!Line
  PROVE  /\ Lines!NextParser(p, line) \in Lines!ParserState
         /\ Lines!ToCaffelog(p, line) \in Lines!Caffelog
<1>1. p \in Merge!ParserState /\ line \in Merge!Line
  BY SameOperators
<1>2. Merge!NextParser(p, line) \in Merge!ParserState
      /\ Merge!ToCaffelog(p, line) \in Merge!Caffelog
  BY <1>1, MergeAssumptions, Merge!ParserTypes
<1> QED BY <1>2, SameOperators

LEMMA SameParser == Lines!ParserSpec => Merge!ParserSpec
<1>1. Lines!ParserInit => Merge!ParserInit
  BY DEF Lines!ParserInit, Merge!ParserInit, Lines!InitParser, Merge!InitParser
<1>2. [Lines!ParseCaffelog \/ (Lines!Parsed /\ UNCHANGED Lines!parserVars)]_Lines!parserVars
      => [Merge!ParseCaffelog \/ (Merge!Parsed /\ UNCHANGED Merge!parserVars)]_Merge!parserVars
  BY SameOperators DEF Lines!ParseCaffelog, Merge!ParseCaffelog, Lines!SkipLine, Merge!SkipLine,
     Lines!ParseLine, Merge!ParseLine, Lines!EndOfLog, Merge!EndOfLog,
     Lines!Parsed, Merge!Parsed, Lines!parserVars, Merge!parserVars
<1> QED BY <1>1, <1>2, PTL DEF Lines!ParserSpec, Merge!ParserSpec

LEMMA ParserProperties ==
  Lines!ParserSpec => [](BatchesEndOnceInOrder /\ CnnEndsWithLastBatch)
<1>1. Merge!ParserSpec => []Merge!BatchesEndOnceInOrder
  BY MergeAssumptions, Merge!BatchesEndAlways
<1>2. Merge!ParserSpec => []Merge!CnnEndsWithLastBatch
  BY MergeAssumptions, Merge!CnnEndsAlways
<1>3. Merge!WellFormed(file.log) <=> Lines!WellFormed(file.log)
  BY Zenon DEF Merge!WellFormed, Lines!WellFormed
<1>4. Merge!BatchEnds = Lines!BatchEnds
  BY DEF Merge!BatchEnds, Lines!BatchEnds, Merge!INFINITE, Lines!INFINITE
<1>5. Merge!BatchesEndOnceInOrder => BatchesEndOnceInOrder
  BY <1>3, <1>4, SameCardinality DEF Merge!BatchesEndOnceInOrder, BatchesEndOnceInOrder,
    Lines!BatchesEndOnceInOrder, Merge!EndsUpTo, Lines!EndsUpTo
<1>6. Merge!CnnEndsWithLastBatch => CnnEndsWithLastBatch
  BY <1>3, <1>4 DEF Merge!CnnEndsWithLastBatch, CnnEndsWithLastBatch,
    Lines!CnnEndsWithLastBatch, Merge!Parsed, Lines!Parsed
<1> QED BY <1>1, <1>2, <1>5, <1>6, SameParser, PTL

-----------------------------------------------------------------------------
(* The invariant. *)

\* What a newline that was found delimits: the next line of the file, which is
\* then read, or behind all of them a torn one.
LEMMA FoundLine ==
  ASSUME ReaderTypeOK, new_offset >= 0, ReadBytes > 0,
         NEW stale \in Stale, Newlines(stale) # {}, Advance(Newlines(stale)),
         file' = file
  PROVE  LET p == First(Newlines(stale))
         IN  /\ Texts(Newlines(stale)) \subseteq Lines!Line
             /\ new_offset' \in Nat
             /\ p < ReadBytes =>
                  /\ Texts(Newlines(stale)) = {file.log[LinesRead + 1]}
                  /\ LinesRead \in 0 .. Len(file.log) - 1
                  /\ LinesRead' = LinesRead + 1
             /\ p >= ReadBytes =>
                  /\ ~(new_offset' \in 0 .. file.size)
                  /\ LinesRead = Len(file.log)
                  /\ LinesRead' = LinesRead
<1> DEFINE p == First(Newlines(stale))
<1>1. /\ p \in 0 .. BUFF_SIZE - 1
      /\ new_offset \in 0 .. file.size
      /\ p < ReadBytes =>
           /\ new_offset + p \in file.newlines
           /\ \A m \in file.newlines : m >= new_offset => new_offset + p <= m
      /\ p >= ReadBytes =>
           /\ \A n \in file.newlines : n < new_offset
           /\ new_offset + p + 1 > file.size
  BY Found
<1>2. new_offset' = new_offset + p + 1 /\ file' = file
  BY DEF Advance
<1>3. p < ReadBytes => Texts(Newlines(stale)) = {file.log[LinesRead + 1]}
  BY DEF Texts
<1>4. ~(p < ReadBytes) => Texts(Newlines(stale)) = TornLines
  BY DEF Texts
<1> HIDE DEF p
<1>5. /\ file \in Files /\ new_offset \in Nat /\ file.size \in Nat
      /\ \A n \in file.newlines : n \in Nat
      /\ file.log \in Seq(Lines!Line) /\ Len(file.log) \in Nat
      /\ ReadBytes \in Int /\ BUFF_SIZE \in Nat
  BY <1>1, FileTypes, ReadBytesType, ReaderAssumption DEF ReaderTypeOK
<1>6. new_offset' \in Nat /\ new_offset' = (new_offset + p) + 1
  BY <1>1, <1>2, <1>5
<1>7. LinesRead' = Cardinality({n \in file.newlines : n < new_offset'})
  BY <1>2 DEF LinesRead
<1>8. ASSUME p < ReadBytes
      PROVE  LinesRead \in 0 .. Len(file.log) - 1 /\ LinesRead' = LinesRead + 1
  <2>1. new_offset + p >= new_offset
    BY <1>1, <1>5
  <2> DEFINE q == new_offset + p
  <2>2. /\ q \in file.newlines /\ q >= new_offset
        /\ \A m \in file.newlines : m >= new_offset => q <= m
    BY <1>1, <1>8, <2>1
  <2> HIDE DEF q
  <2>3. /\ LinesRead \in 0 .. Len(file.log) /\ LinesRead < Len(file.log)
        /\ Cardinality({n \in file.newlines : n < q + 1}) = LinesRead + 1
    <3>1. new_offset \in Int
      BY <1>5
    <3> QED BY <1>5, <2>2, <3>1, LinesBefore DEF LinesRead
  <2>4. LinesRead' = LinesRead + 1
    BY <1>6, <1>7, <2>3 DEF q
  <2> QED BY <1>5, <2>3, <2>4
<1>9. ASSUME p >= ReadBytes
      PROVE  /\ ~(new_offset' \in 0 .. file.size)
             /\ LinesRead = Len(file.log) /\ LinesRead' = LinesRead
  <2>1. \A n \in file.newlines : n < new_offset
    BY <1>1, <1>9
  <2>2. \A n \in file.newlines : n < new_offset'
    BY <1>1, <1>5, <1>6, <2>1
  <2>3. LinesRead = Len(file.log)
    BY <1>5, <2>1, LinesBefore DEF LinesRead
  <2>4. LinesRead' = Len(file.log)
    <3>1. \A o \in Int : (\A n \in file.newlines : n < o) =>
            Cardinality({n \in file.newlines : n < o}) = Len(file.log)
      BY <1>5, LinesBefore
    <3>2. new_offset' \in Int
      BY <1>6
    <3> QED BY <1>7, <2>2, <3>1, <3>2
  <2>5. ~(new_offset' \in 0 .. file.size)
    BY <1>1, <1>5, <1>6, <1>9
  <2> QED BY <2>3, <2>4, <2>5
<1>10. Texts(Newlines(stale)) \subseteq Lines!Line
  <2>1. CASE p < ReadBytes
    <3>1. LinesRead + 1 \in 1 .. Len(file.log)
      BY <1>5, <1>8, <2>1
    <3>2. file.log[LinesRead + 1] \in Lines!Line
      BY <1>5, <3>1
    <3> QED BY <1>3, <2>1, <3>2
  <2>2. CASE ~(p < ReadBytes)
    BY <1>4, <2>2, ReaderAssumption
  <2> QED BY <2>1, <2>2
<1> QED BY <1>3, <1>6, <1>8, <1>9, <1>10 DEF p

LEMMA InitInv == ReaderInit => ReaderInv
<1> SUFFICES ASSUME ReaderInit PROVE ReaderInv
  OBVIOUS
<1>1. Lines!InitParser \in Lines!ParserState
  BY DEF Lines!InitParser, Lines!ParserState
<1>2. <<>> \in Seq(Lines!Caffelog)
  OBVIOUS
<1> QED BY <1>1, <1>2 DEF ReaderInit, ReaderInv, ReaderTypeOK

LEMMA StepInv == ReaderInv /\ [ReaderNext]_readerVars => ReaderInv'
<1> SUFFICES ASSUME ReaderInv, [ReaderNext]_readerVars PROVE ReaderInv'
  OBVIOUS
<1>1. /\ ReaderTypeOK /\ file \in Files /\ new_offset \in Nat \cup {-1}
      /\ buff \subseteq 0 .. BUFF_SIZE - 1 /\ goto \in BOOLEAN
      /\ caffelog_parser \in Lines!ParserState /\ caffelogs \in Seq(Lines!Caffelog)
      /\ new_offset \in 0 .. file.size =>
           complete = [parser |-> caffelog_parser, caffelogs |-> caffelogs]
  BY DEF ReaderInv, ReaderTypeOK
<1>2. CASE ReadALine
  <2>1. PICK stale \in Stale :
          /\ Newlines(stale) # {}
          /\ PassOver(Newlines(stale)) \/ Return(Newlines(stale))
    BY <1>2 DEF ReadALine
  <2> DEFINE N == Newlines(stale)
  <2>2. new_offset >= 0 /\ ReadBytes > 0 /\ Advance(N) /\ file' = file
    BY <1>2, <2>1 DEF ReadALine, PassOver, Return
  <2>3. N \subseteq 0 .. BUFF_SIZE - 1 /\ new_offset \in 0 .. file.size
        /\ First(N) \in Int
    BY <1>1, <2>1, <2>2, Found
  <2>4. /\ Texts(N) \subseteq Lines!Line /\ new_offset' \in Nat
        /\ First(N) >= ReadBytes => ~(new_offset' \in 0 .. file.size)
    BY <1>1, <2>1, <2>2, FoundLine
  <2>5. First(N) >= ReadBytes \/ First(N) < ReadBytes
    <3>1. file.size \in Nat
      BY <1>1, FileTypes
    <3>2. ReadBytes \in Int
      BY <1>1, <2>3, <3>1, ReadBytesType
    <3> QED BY <2>3, <3>2
  <2>6. complete = [parser |-> caffelog_parser, caffelogs |-> caffelogs]
    BY <1>1, <2>3
  <2> HIDE DEF N
  <2>7. CASE PassOver(N)
    <3>1. /\ buff' \subseteq 0 .. BUFF_SIZE - 1 /\ goto' = TRUE
          /\ UNCHANGED <<file, caffelog_parser, caffelogs, complete>>
      BY <2>3, <2>7 DEF PassOver
    <3> QED BY <1>1, <2>4, <2>6, <3>1 DEF ReaderInv, ReaderTypeOK
  <2>8. CASE Return(N)
    <3>1. PICK line \in Texts(N) :
            /\ caffelog_parser' = Lines!NextParser(caffelog_parser, line)
            /\ caffelogs' = Append(caffelogs, Lines!ToCaffelog(caffelog_parser, line))
      BY <2>8 DEF Return
    <3>2. caffelog_parser' \in Lines!ParserState /\ caffelogs' \in Seq(Lines!Caffelog)
      <4>1. line \in Lines!Line
        BY <2>4
      <4>2. /\ caffelog_parser' \in Lines!ParserState
            /\ Lines!ToCaffelog(caffelog_parser, line) \in Lines!Caffelog
        BY <1>1, <3>1, <4>1, LineTypes
      <4> QED BY <1>1, <3>1, <4>2
    <3>3. /\ buff' = {} /\ goto' = FALSE /\ file' = file
          /\ First(N) < ReadBytes =>
               complete' = [parser |-> caffelog_parser', caffelogs |-> caffelogs']
      BY <2>8 DEF Return
    <3>4. ReaderTypeOK'
      BY <1>1, <2>4, <3>2, <3>3 DEF ReaderTypeOK
    <3>5. new_offset' \in 0 .. file'.size =>
            complete' = [parser |-> caffelog_parser', caffelogs |-> caffelogs']
      BY <2>4, <2>5, <3>3
    <3> QED BY <3>4, <3>5 DEF ReaderInv
  <2> QED BY <2>1, <2>7, <2>8 DEF N
<1>3. CASE EndOfFile
  BY <1>1, <1>3 DEF EndOfFile, ReaderInv, ReaderTypeOK
<1>4. CASE Overrun \/ ReaderEnded \/ UNCHANGED readerVars
  <2>1. UNCHANGED readerVars
    BY <1>4 DEF Overrun, ReaderEnded
  <2> QED BY <1>1, <2>1 DEF readerVars, ReaderInv, ReaderTypeOK
<1> QED BY <1>2, <1>3, <1>4 DEF ReaderNext

LEMMA Invariance == ReaderSpec => []ReaderInv
BY InitInv, StepInv, PTL DEF ReaderSpec

\* The offset is a number, or -1 at the log's end (caffelog.c:234-242), the buffer's
\* newlines lie in the buffer, and the parser's state and records keep their types,
\* whatever a torn line is taken for.
THEOREM ReaderTypeCorrect == ReaderSpec => []ReaderTypeOK
<1>1. ReaderInv => ReaderTypeOK
  BY DEF ReaderInv
<1> QED BY <1>1, Invariance, PTL

-----------------------------------------------------------------------------
(* What the reader promises. *)

LEMMA InitImplements == ReaderInit => Lines!ParserInit
<1> SUFFICES ASSUME ReaderInit PROVE Lines!ParserInit
  OBVIOUS
<1>1. file \in Files /\ new_offset = 0
      /\ complete.parser = Lines!InitParser /\ complete.caffelogs = <<>>
  BY DEF ReaderInit
<1>2. file.log \in Logs
  BY <1>1, FileTypes
<1>3. LinesRead = 0
  <2>1. \A o \in Int : o <= 0 => Cardinality({n \in file.newlines : n < o}) = 0
    BY <1>1, LinesBefore
  <2>2. new_offset \in Int /\ new_offset <= 0
    BY <1>1
  <2> QED BY <2>1, <2>2 DEF LinesRead
<1>4. (IF new_offset = -1 THEN -1 ELSE LinesRead) = 0
  BY <1>1, <1>3
<1> QED BY <1>1, <1>2, <1>4 DEF Lines!ParserInit

LEMMA StepImplements ==
  ASSUME ReaderInv, ReaderInv', [ReaderNext]_readerVars
  PROVE  [Lines!ParseCaffelog \/ (Lines!Parsed /\ UNCHANGED Lines!parserVars)]_Lines!parserVars
<1>1. /\ ReaderTypeOK /\ file \in Files /\ new_offset \in Nat \cup {-1}
      /\ new_offset \in 0 .. file.size =>
           complete = [parser |-> caffelog_parser, caffelogs |-> caffelogs]
  BY DEF ReaderInv, ReaderTypeOK
<1>2. CASE ReadALine
  <2>1. PICK stale \in Stale :
          /\ Newlines(stale) # {}
          /\ PassOver(Newlines(stale)) \/ Return(Newlines(stale))
    BY <1>2 DEF ReadALine
  <2> DEFINE N == Newlines(stale)
             next == file.log[LinesRead + 1]
  <2>2. new_offset >= 0 /\ ReadBytes > 0 /\ Advance(N) /\ file' = file
    BY <1>2, <2>1 DEF ReadALine, PassOver, Return
  <2>3. new_offset \in 0 .. file.size /\ First(N) \in Int
    BY <1>1, <2>1, <2>2, Found
  <2>4. /\ new_offset' \in Nat
        /\ First(N) < ReadBytes =>
             /\ Texts(N) = {next}
             /\ LinesRead \in 0 .. Len(file.log) - 1
             /\ LinesRead' = LinesRead + 1
        /\ First(N) >= ReadBytes => LinesRead' = LinesRead
    BY <1>1, <2>1, <2>2, FoundLine
  <2>5. First(N) >= ReadBytes \/ First(N) < ReadBytes
    <3>1. file.size \in Nat
      BY <1>1, FileTypes
    <3>2. ReadBytes \in Int
      BY <1>1, <2>3, <3>1, ReadBytesType
    <3> QED BY <2>3, <3>2
  <2>6. /\ complete.parser = caffelog_parser /\ complete.caffelogs = caffelogs
    BY <1>1, <2>3
  <2>7. /\ (IF new_offset = -1 THEN -1 ELSE LinesRead) = LinesRead
        /\ (IF new_offset = -1 THEN -1 ELSE LinesRead)' = LinesRead'
    BY <2>2, <2>3, <2>4
  <2>8. (PassOver(N) \/ Return(N)) /\ file' = file
    BY <2>1, <2>2
  <2> HIDE DEF N, next
  <2>9. CASE First(N) < ReadBytes
    <3>1. CASE PassOver(N)
      <4>1. next.text = "noise" /\ complete' = complete
        BY <2>4, <2>9, <3>1 DEF PassOver
      <4>2. Lines!SkipLine
        BY <2>4, <2>7, <2>8, <2>9, <4>1 DEF Lines!SkipLine, next
      <4> QED BY <4>2 DEF Lines!ParseCaffelog
    <3>2. CASE Return(N)
      <4>1. /\ next.text # "noise"
            /\ complete'.parser = Lines!NextParser(complete.parser, next)
            /\ complete'.caffelogs
                 = Append(complete.caffelogs, Lines!ToCaffelog(complete.parser, next))
        BY <2>4, <2>6, <2>9, <3>2 DEF Return
      <4>2. Lines!ParseLine
        BY <2>4, <2>7, <2>8, <2>9, <4>1 DEF Lines!ParseLine, next
      <4> QED BY <4>2 DEF Lines!ParseCaffelog
    <3> QED BY <2>8, <3>1, <3>2
  <2>10. CASE First(N) >= ReadBytes
    <3>1. complete' = complete
      <4>1. ~(First(N) < ReadBytes)
        <5>1. file.size \in Nat
          BY <1>1, FileTypes
        <5>2. ReadBytes \in Int
          BY <1>1, <2>3, <5>1, ReadBytesType
        <5> QED BY <2>3, <2>10, <5>2
      <4> QED BY <2>8, <4>1 DEF PassOver, Return
    <3> QED BY <2>4, <2>7, <2>8, <2>10, <3>1 DEF Lines!parserVars
  <2> QED BY <2>5, <2>9, <2>10
<1>3. CASE EndOfFile
  <2>1. /\ new_offset \in Nat /\ ReadBytes <= 0 /\ new_offset' = -1
        /\ UNCHANGED <<file, complete>>
    BY <1>1, <1>3 DEF EndOfFile
  <2>2. new_offset >= file.size /\ file.size \in Nat
        /\ \A n \in file.newlines : n \in Nat /\ n < file.size
    BY <1>1, <2>1, FileTypes, ReadBytesType
  <2>3. LinesRead = Len(file.log)
    <3>1. \A n \in file.newlines : n < new_offset
      BY <2>1, <2>2
    <3>2. \A o \in Int : (\A n \in file.newlines : n < o) =>
            Cardinality({n \in file.newlines : n < o}) = Len(file.log)
      BY <1>1, LinesBefore
    <3>3. new_offset \in Int
      BY <2>1
    <3> QED BY <3>1, <3>2, <3>3 DEF LinesRead
  <2>4. /\ (IF new_offset = -1 THEN -1 ELSE LinesRead) = Len(file.log)
        /\ (IF new_offset = -1 THEN -1 ELSE LinesRead)' = -1
    BY <2>1, <2>3
  <2>5. Lines!EndOfLog
    BY <2>1, <2>4 DEF Lines!EndOfLog
  <2> QED BY <2>5 DEF Lines!ParseCaffelog
<1>4. CASE Overrun \/ ReaderEnded \/ UNCHANGED readerVars
  <2>1. UNCHANGED <<file, new_offset, complete>>
    BY <1>4 DEF Overrun, ReaderEnded, readerVars
  <2> QED BY <2>1 DEF Lines!parserVars, LinesRead
<1> QED BY <1>2, <1>3, <1>4 DEF ReaderNext

\* parse_caffelog()'s buffer makes no difference: a call that answers a line is a
\* step of the line-wise parser, and a torn line is none (caffelog.c:233-270).
THEOREM ReaderImplementsParser == ReaderSpec => ImplementsParser
BY InitImplements, StepImplements, Invariance, PTL
   DEF ReaderSpec, ImplementsParser, Lines!ParserSpec

\* Hence the batches end once and in order, for every size of the buffer.
THEOREM ReadBatchesEndAlways == ReaderSpec => []BatchesEndOnceInOrder
BY ReaderImplementsParser, ParserProperties, PTL DEF ImplementsParser

\* And the CNN ends with the last batch that was announced.
THEOREM ReadCnnEndsAlways == ReaderSpec => []CnnEndsWithLastBatch
BY ReaderImplementsParser, ParserProperties, PTL DEF ImplementsParser
=============================================================================
