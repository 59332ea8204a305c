----------------------------- MODULE StatMerge ------------------------------
(***************************************************************************)
(* calculate_2ndstat() in power_measurement.c: it parses all of Caffe's    *)
(* log, then reads the samples of rawdata.bin one by one and writes them   *)
(* and the Caffe events to the statistics file, the earlier one first.     *)
(* Meanwhile it accumulates three summaries: of the whole measurement, of  *)
(* the CNN, and of the current batch, which is printed and begun anew at   *)
(* each end of a batch.                                                    *)
(*                                                                         *)
(* A sample is abstracted to its timestamp and a summary to the set of     *)
(* samples update_summary() was called with; the columns of a row, and the *)
(* text of the summaries, are left out.                                    *)
(***************************************************************************)
EXTENDS CaffelogParser, SequencesExt

CONSTANT Rawdata    \* the rawdata files the measurement may have left

ASSUME RawdataAssumption == Rawdata \subseteq Seq(Nat)

VARIABLES
    pc,              \* "parse", "read", "compare" or "done"
    rawdata,         \* the timestamps of the records in rawdata.bin
    powerlog,        \* which record was read last
    caffelog,        \* which record of caffelogs is next; past the end for NULL
    flag_cnnstart, flag_cnnfinish,
    summary_caffe, summary_cnn, summary_batch,
    printed,         \* the batch summaries written to the summary file
    rows             \* the rows written to the statistics file

flagVars == <<flag_cnnstart, flag_cnnfinish>>
summaryVars == <<summary_caffe, summary_cnn, summary_batch, printed>>
mergeVars == <<rawdata, powerlog, caffelog, flagVars, summaryVars, rows>>
vars == <<pc, parserVars, mergeVars>>

Init ==
    /\ pc = "parse"
    /\ ParserInit
    /\ rawdata \in Rawdata
    /\ powerlog = 0
    /\ caffelog = 1
    /\ flag_cnnstart = FALSE /\ flag_cnnfinish = FALSE
    /\ summary_caffe = {} /\ summary_cnn = {} /\ summary_batch = {}
    /\ printed = <<>>
    /\ rows = <<>>

\* do { ... } while(1) around parse_caffelog().
Parse ==
    /\ pc = "parse"
    /\ ParseCaffelog
    /\ UNCHANGED <<pc, mergeVars>>

StartMerge ==
    /\ pc = "parse"
    /\ Parsed
    /\ pc' = "read"
    /\ UNCHANGED <<parserVars, mergeVars>>

\* Mutant: the end of the file is noticed one record late.
ReadPastEnd ==
    /\ pc = "read"
    /\ powerlog <= Len(rawdata)
    /\ powerlog' = powerlog + 1
    /\ summary_caffe' = summary_caffe \cup {powerlog + 1}
    /\ pc' = "compare"
    /\ UNCHANGED <<parserVars, rawdata, caffelog, flagVars, summary_cnn,
                   summary_batch, printed, rows>>

\* The next record of rawdata.bin; the summary of the whole run has it at once.
ReadRawdata ==
    /\ pc = "read"
    /\ powerlog < Len(rawdata)
    /\ powerlog' = powerlog + 1
    /\ summary_caffe' = summary_caffe \cup {powerlog + 1}
    /\ pc' = "compare"
    /\ UNCHANGED <<parserVars, rawdata, caffelog, flagVars, summary_cnn,
                   summary_batch, printed, rows>>

NoCaffelog == caffelog > Len(caffelogs)

\* Mutants: the later one goes first, and a tie goes to the sample.
LaterFirst ==
    ~NoCaffelog => rawdata[powerlog] > caffelogs[caffelog].timestamp

TieToPowerlog ==
    ~NoCaffelog => rawdata[powerlog] <= caffelogs[caffelog].timestamp

\* flag_powerlog: whether the sample goes before the next event.
PowerlogFirst ==
    ~NoCaffelog => rawdata[powerlog] < caffelogs[caffelog].timestamp

\* Mutant: the summaries go on after the CNN's finish.
WritePowerlogOn ==
    /\ pc = "compare"
    /\ PowerlogFirst
    /\ IF flag_cnnstart
         THEN /\ summary_cnn' = summary_cnn \cup {powerlog}
              /\ summary_batch' = summary_batch \cup {powerlog}
         ELSE UNCHANGED <<summary_cnn, summary_batch>>
    /\ rows' = Append(rows, [from |-> "sample", index |-> powerlog,
                             timestamp |-> rawdata[powerlog]])
    /\ pc' = "read"
    /\ UNCHANGED <<parserVars, rawdata, powerlog, caffelog, flagVars,
                   summary_caffe, printed>>

\* Write the sample; the summaries of the CNN and of the batch have it if the
\* CNN is known to run.
WritePowerlog ==
    /\ pc = "compare"
    /\ PowerlogFirst
    /\ IF flag_cnnstart /\ ~flag_cnnfinish
         THEN /\ summary_cnn' = summary_cnn \cup {powerlog}
              /\ summary_batch' = summary_batch \cup {powerlog}
         ELSE UNCHANGED <<summary_cnn, summary_batch>>
    /\ rows' = Append(rows, [from |-> "sample", index |-> powerlog,
                             timestamp |-> rawdata[powerlog]])
    /\ pc' = "read"
    /\ UNCHANGED <<parserVars, rawdata, powerlog, caffelog, flagVars,
                   summary_caffe, printed>>

\* Mutant: the summary of the batch is not begun anew.
WriteCaffelogKeepsBatch ==
    /\ pc = "compare"
    /\ ~PowerlogFirst
    /\ rows' = Append(rows, [from |-> "event", index |-> caffelog,
                             timestamp |-> caffelogs[caffelog].timestamp])
    /\ printed' = IF caffelogs[caffelog].batch_finish = INFINITE
                    THEN Append(printed, summary_batch) ELSE printed
    /\ caffelog' = caffelog + 1
    /\ flag_cnnstart' = (flag_cnnstart \/
         (caffelog < Len(caffelogs) /\ caffelogs[caffelog + 1].cnn_start))
    /\ flag_cnnfinish' = (flag_cnnfinish \/
         (caffelog < Len(caffelogs) /\ caffelogs[caffelog + 1].cnn_finish))
    /\ UNCHANGED <<pc, parserVars, rawdata, powerlog, summary_caffe,
                   summary_cnn, summary_batch>>

\* Write the event, print the batch that it ends, and go to the next event: the
\* flags are set when an event becomes the next one to write.
WriteCaffelog ==
    /\ pc = "compare"
    /\ ~PowerlogFirst
    /\ rows' = Append(rows, [from |-> "event", index |-> caffelog,
                             timestamp |-> caffelogs[caffelog].timestamp])
    /\ IF caffelogs[caffelog].batch_finish = INFINITE
         THEN /\ printed' = Append(printed, summary_batch)
              /\ summary_batch' = {}
         ELSE UNCHANGED <<printed, summary_batch>>
    /\ caffelog' = caffelog + 1
    /\ flag_cnnstart' = (flag_cnnstart \/
         (caffelog < Len(caffelogs) /\ caffelogs[caffelog + 1].cnn_start))
    /\ flag_cnnfinish' = (flag_cnnfinish \/
         (caffelog < Len(caffelogs) /\ caffelogs[caffelog + 1].cnn_finish))
    /\ UNCHANGED <<pc, parserVars, rawdata, powerlog, summary_caffe,
                   summary_cnn>>

\* rawdata_eof_found: what is left of the events is not written.
EndOfRawdata ==
    /\ pc = "read"
    /\ powerlog = Len(rawdata)
    /\ pc' = "done"
    /\ UNCHANGED <<parserVars, mergeVars>>

Done == pc = "done" /\ UNCHANGED vars

Next == Parse \/ StartMerge \/ ReadRawdata \/ WritePowerlog \/ WriteCaffelog
        \/ EndOfRawdata \/ Done

Spec == Init /\ [][Next]_vars

-----------------------------------------------------------------------------
Row == [from : {"sample", "event"}, index : Nat, timestamp : Int]

TypeOK ==
    /\ ParserTypeOK
    /\ pc \in {"parse", "read", "compare", "done"}
    /\ pc # "parse" => Parsed
    /\ rawdata \in Seq(Nat)
    /\ powerlog \in 0 .. Len(rawdata)
    /\ pc = "compare" => powerlog > 0
    /\ caffelog \in 1 .. Len(caffelogs) + 1
    /\ {flag_cnnstart, flag_cnnfinish} \subseteq BOOLEAN
    /\ {summary_caffe, summary_cnn, summary_batch} \subseteq SUBSET Nat
    /\ printed \in Seq(SUBSET Nat)
    /\ rows \in Seq(Row)

\* The timeline is what the module Timeline promises.
EventTimes == [i \in 1 .. Len(caffelogs) |-> caffelogs[i].timestamp]

Merged == INSTANCE Timeline WITH
    samples    <- rawdata,
    events     <- EventTimes,
    numSamples <- IF pc = "compare" THEN powerlog - 1 ELSE powerlog,
    numEvents  <- caffelog - 1,
    timeline   <- rows

\* Every step of the merge is a step of Timeline or changes nothing it sees.
ImplementsTimeline == Merged!Spec

\* power_measurement.c:547: the rows are in the order of time if the clock was
\* not set back during the measurement and the log does not go past midnight.
RowsSorted ==
    Merged!Sorted(rawdata) /\ Merged!Sorted(EventTimes) =>
      \A i, j \in 1 .. Len(rows) : i <= j => rows[i].timestamp <= rows[j].timestamp

\* The rows of one kind are the first n that were logged, each once and in order.
AreFirst(written, kind, n, times) ==
    LET UpTo(r) == {q \in 1 .. r : written[q].from = kind}
    IN  /\ Cardinality(UpTo(Len(written))) = n
        /\ \A r \in UpTo(Len(written)) :
             /\ written[r].index = Cardinality(UpTo(r))
             /\ written[r].timestamp = times[written[r].index]

\* What the file holds at the end: every sample once, in order; and the events
\* up to the first one that is later than the last sample (656: the rest is
\* dropped; the cooldown is there so that nothing of interest is).
EverythingWritten ==
    pc = "done" =>
      /\ AreFirst(rows, "sample", Len(rawdata), rawdata)
      /\ AreFirst(rows, "event", caffelog - 1, EventTimes)
      /\ ~NoCaffelog =>
           \/ rawdata = <<>>
           \/ caffelogs[caffelog].timestamp > rawdata[Len(rawdata)]

\* The batch summaries cut the CNN summary into disjoint pieces: no sample of the
\* CNN is missing from the batches, and none is counted in two of them.
BatchesPartitionCnn ==
    /\ summary_cnn = (UNION ToSet(printed)) \cup summary_batch
    /\ \A i \in DOMAIN printed :
         /\ printed[i] \cap summary_batch = {}
         /\ \A j \in DOMAIN printed : i # j => printed[i] \cap printed[j] = {}

\* The ends of the batches that were written.
WrittenBatchEnds == {i \in BatchEnds : i < caffelog}

\* The summary printed for a batch holds only samples between the end of the
\* batch before it and its own end.
BatchWindow ==
    Merged!Sorted(rawdata) /\ Merged!Sorted(EventTimes) =>
      \A k \in DOMAIN printed : \A s \in printed[k] : \A e \in WrittenBatchEnds :
        /\ EndsUpTo(e) < k  => rawdata[s] >= caffelogs[e].timestamp
        /\ EndsUpTo(e) >= k => rawdata[s] <  caffelogs[e].timestamp

CnnStarts   == {i \in DOMAIN caffelogs : caffelogs[i].cnn_start}
CnnFinishes == {i \in DOMAIN caffelogs : caffelogs[i].cnn_finish}

\* How far the CNN summary may be off: it holds no sample before the event that
\* precedes the CNN's start nor after the CNN's finish, and it misses none from
\* the start to the last event before the finish, if a line precedes the start.
CnnSummaryWithinOneEvent ==
    Merged!Sorted(rawdata) /\ Merged!Sorted(EventTimes) =>
      /\ \A s \in summary_cnn :
           /\ \E i \in CnnStarts : i > 1 /\ rawdata[s] >= caffelogs[i - 1].timestamp
           /\ \A i \in CnnFinishes : rawdata[s] < caffelogs[i].timestamp
      /\ \A r \in DOMAIN rows : \A i \in CnnStarts :
           /\ rows[r].from = "sample"
           /\ i > 1
           /\ rows[r].timestamp >= caffelogs[i].timestamp
           /\ \A j \in CnnFinishes :
                j > 1 /\ rows[r].timestamp < caffelogs[j - 1].timestamp
           => rows[r].index \in summary_cnn

\* power_measurement.c:552 says "Update summary for CNN inference": the summary
\* of the CNN holds exactly the samples from the CNN's start to its finish.
CnnSummaryIsCnn ==
    pc = "done" /\ Merged!Sorted(rawdata) /\ Merged!Sorted(EventTimes)
      /\ CnnFinishes # {} =>
      summary_cnn = {s \in 1 .. Len(rawdata) :
                       /\ \E i \in CnnStarts : rawdata[s] >= caffelogs[i].timestamp
                       /\ \A i \in CnnFinishes : rawdata[s] < caffelogs[i].timestamp}
=============================================================================
