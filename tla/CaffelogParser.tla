--------------------------- MODULE CaffelogParser ---------------------------
(***************************************************************************)
(* The parser of Caffe's log, caffelog.c.  calculate_2ndstat() calls       *)
(* parse_caffelog() until the end of the file and keeps one record per     *)
(* line that carries a timestamp; parse_batch_event() recognizes the start *)
(* of the CNN, the end of each batch and the end of the CNN from a state   *)
(* that lives in the static caffelog_parser.                               *)
(*                                                                         *)
(* A line is abstracted to what the regular expressions tell apart:        *)
(*   "noise"    no timestamp: CAFFELOG_BASIC_REGEX does not match,         *)
(*   "running"  "... Running for n iterations.",                           *)
(*   "batch"    "... Batch n, accuracy = 0.79",                            *)
(*   "other"    any other line with a timestamp.                           *)
(* t is the time Caffe wrote it.                                           *)
(***************************************************************************)
EXTENDS Integers, Sequences, FiniteSets

CONSTANTS
    Day,        \* how many time units a day has
    StartTime,  \* when the measurement was started: info.start_time
    Logs        \* the logs Caffe may have written

Line == [t : Nat, text : {"noise", "running", "batch", "other"}, n : Nat]

ASSUME LogAssumption ==
    /\ Day \in Nat \ {0}
    /\ StartTime \in Nat
    /\ Logs \subseteq Seq(Line)

VARIABLES
    log,              \* the file's lines
    offset,           \* how many lines are read; -1 when the end was met
    caffelog_parser,  \* the parser's static state
    caffelogs         \* list_caffelog, in file order

parserVars == <<log, offset, caffelog_parser, caffelogs>>

INFINITE == 1000000

ParserState == [batch_idx : Int, num_batch : Nat,
                caffe_start : BOOLEAN, cnn_start : BOOLEAN, cnn_finish : BOOLEAN]

Caffelog == [timestamp : Int, caffe_start : BOOLEAN, cnn_start : BOOLEAN,
             cnn_finish : BOOLEAN, batch_finish : {0, 1, INFINITE},
             batch_idx : Int]

InitParser == [batch_idx |-> -2, num_batch |-> 0,
               caffe_start |-> FALSE, cnn_start |-> FALSE, cnn_finish |-> FALSE]

\* A line shows the time of day only; the date is the one of the start.
Timestamp(line) == (StartTime \div Day) * Day + (line.t % Day)

\* Mutants: a line is not compared with the batch before it, and the index of the
\* last batch is off by one.
FinishesAnyBatch(p, line) == p.cnn_start /\ ~p.cnn_finish /\ line.text = "batch"

FinishesCnnLate(p, line) ==
    p.cnn_start /\ ~p.cnn_finish /\ line.text = "batch" /\ line.n >= p.num_batch

\* The line that starts the CNN, the lines taken for the end of a batch, and
\* among these the first for its batch and the one that ends the CNN.
StartsCnn(p, line) == ~p.cnn_start /\ line.text = "running"

ReportsBatch(p, line) == p.cnn_start /\ ~p.cnn_finish /\ line.text = "batch"

FinishesBatch(p, line) == ReportsBatch(p, line) /\ p.batch_idx < line.n + 1

FinishesCnn(p, line) == ReportsBatch(p, line) /\ line.n + 1 >= p.num_batch

\* The parser after a line, and the record it makes of the line.
NextParser(p, line) ==
    [batch_idx   |-> CASE FinishesCnn(p, line)  -> -1
                       [] ReportsBatch(p, line) /\ ~FinishesCnn(p, line)
                                                -> line.n + 1
                       [] ~ReportsBatch(p, line) -> p.batch_idx,
     num_batch   |-> IF StartsCnn(p, line) THEN line.n ELSE p.num_batch,
     caffe_start |-> TRUE,
     cnn_start   |-> p.cnn_start \/ StartsCnn(p, line),
     cnn_finish  |-> p.cnn_finish \/ FinishesCnn(p, line)]

ToCaffelog(p, line) ==
    [timestamp    |-> Timestamp(line),
     caffe_start  |-> ~p.caffe_start,
     cnn_start    |-> StartsCnn(p, line),
     cnn_finish   |-> FinishesCnn(p, line),
     batch_finish |-> CASE StartsCnn(p, line)     -> 1
                        [] FinishesBatch(p, line) -> INFINITE
                        [] ~StartsCnn(p, line) /\ ~FinishesBatch(p, line) -> 0,
     batch_idx    |-> CASE StartsCnn(p, line)     -> 1
                        [] FinishesBatch(p, line) -> line.n + 1
                        [] ~StartsCnn(p, line) /\ ~FinishesBatch(p, line)
                             -> NextParser(p, line).batch_idx]

ParserInit ==
    /\ log \in Logs
    /\ offset = 0
    /\ caffelog_parser = InitParser
    /\ caffelogs = <<>>

\* parse_caffelog(): lines without a timestamp are passed over ...
SkipLine ==
    /\ offset \in 0 .. Len(log) - 1
    /\ log[offset + 1].text = "noise"
    /\ offset' = offset + 1
    /\ UNCHANGED <<log, caffelog_parser, caffelogs>>

\* ... the next one with a timestamp becomes a record ...
ParseLine ==
    /\ offset \in 0 .. Len(log) - 1
    /\ log[offset + 1].text # "noise"
    /\ offset' = offset + 1
    /\ caffelogs' = Append(caffelogs, ToCaffelog(caffelog_parser, log[offset + 1]))
    /\ caffelog_parser' = NextParser(caffelog_parser, log[offset + 1])
    /\ UNCHANGED log

\* ... and at the end of the file the answer is -1.
EndOfLog ==
    /\ offset = Len(log)
    /\ offset' = -1
    /\ UNCHANGED <<log, caffelog_parser, caffelogs>>

ParseCaffelog == SkipLine \/ ParseLine \/ EndOfLog

Parsed == offset = -1

ParserSpec ==
    ParserInit /\ [][ParseCaffelog \/ (Parsed /\ UNCHANGED parserVars)]_parserVars

-----------------------------------------------------------------------------
ParserTypeOK ==
    /\ log \in Seq(Line)
    /\ offset \in -1 .. Len(log)
    /\ caffelog_parser \in ParserState
    /\ caffelogs \in Seq(Caffelog)

\* What Caffe's test tool writes: one "Running for N iterations", then for each
\* batch from 0 to N - 1, in order, one line per output blob; other lines come
\* anywhere, and the log may stop anywhere, when Caffe is killed.
WellFormed(lines) ==
    LET batch == {i \in DOMAIN lines : lines[i].text = "batch"}
        run   == {i \in DOMAIN lines : lines[i].text = "running"}
    IN  /\ \A i, j \in run : i = j
        /\ \A i \in batch :
             /\ \E r \in run : r < i /\ lines[i].n < lines[r].n
             /\ lines[i].n > 0 =>
                  \E j \in batch : j < i /\ lines[j].n = lines[i].n - 1
             /\ \A j \in batch : j < i => lines[j].n <= lines[i].n

\* The indices of the records that end a batch.
BatchEnds == {i \in DOMAIN caffelogs : caffelogs[i].batch_finish = INFINITE}

\* How many batches the first i records end.
EndsUpTo(i) == Cardinality({j \in BatchEnds : j <= i})

\* Of the several lines Caffe prints per batch exactly one ends it, and the
\* batches end in order, numbered from 1 without a gap (caffelog.c:160-179: the
\* comparison with the parser's last batch is all that prevents duplicates).
BatchesEndOnceInOrder ==
    WellFormed(log) =>
      \A i \in BatchEnds : caffelogs[i].batch_idx = EndsUpTo(i)

\* The CNN finishes at most once, with the end of the announced last batch, and
\* no batch ends afterwards; a log that reports the last batch does finish it.
CnnEndsWithLastBatch ==
    WellFormed(log) =>
      /\ \A i \in DOMAIN caffelogs : caffelogs[i].cnn_finish =>
           /\ i \in BatchEnds
           /\ caffelogs[i].batch_idx = caffelog_parser.num_batch
           /\ \A j \in BatchEnds : j <= i
      /\ Parsed =>
           \A i, r \in DOMAIN log :
             log[i].text = "batch" /\ log[r].text = "running"
               /\ log[i].n + 1 = log[r].n
             => \E j \in DOMAIN caffelogs : caffelogs[j].cnn_finish
=============================================================================
