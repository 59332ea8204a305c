----------------------------- MODULE ResultFiles -----------------------------
(***************************************************************************)
(* The files of one run, in the order in which main() comes to them: the   *)
(* policies' table of frequencies is read from sysfs, the statistics file  *)
(* gets its head and its reserved space, the samples go to rawdata.bin,    *)
(* and when the program under test has ended, they are read back one       *)
(* record at a time, each of which becomes a line of the statistics file   *)
(* before the next one is read.  Caffe's events come before the sample     *)
(* that is later than they are.                                            *)
(***************************************************************************)
EXTENDS FrequencyTable, RawdataRecords, StatFile

filesVars == <<tableVars, recordVars, statVars>>

FilesInit == TableInit /\ RecordsInit /\ StatInit

Registered == stat_at = "register" /\ Len(row) = Len(Rows)

\* The record that was read has not been written yet.
LineDue == num_line["powerlog"] < Len(records)

ReadTable == TableNext /\ UNCHANGED <<recordVars, statVars>>

Prepare ==
    /\ TableRead
    /\ Reserve \/ RegisterRow
    /\ UNCHANGED <<tableVars, recordVars>>

Measure ==
    /\ Registered
    /\ Collect \/ CollectFails \/ CollectSpills \/ StopMeasuring
    /\ UNCHANGED <<tableVars, statVars>>

WriteTable ==
    /\ phase = "calculate"
    /\ OpenStat \/ WriteHeader \/ WriteColumn
    /\ UNCHANGED <<tableVars, recordVars>>

\* The next record is read when the last one is written.
ReadRecord ==
    /\ stat_at = "lines" /\ ~LineDue
    /\ ToPowerlog \/ RawdataEof
    /\ UNCHANGED <<tableVars, statVars>>

WriteLine ==
    /\ phase = "calculate" /\ LineDue
    /\ \E kind \in Kinds : NewLine(kind)
    /\ UNCHANGED <<tableVars, recordVars>>

WriteSummary ==
    /\ phase = "eof"
    /\ Rewind \/ PrintRow \/ StartSummaries \/ PrintSummary \/ CloseStat
    /\ UNCHANGED <<tableVars, recordVars>>

FilesNext ==
    \/ ReadTable \/ Prepare \/ Measure
    \/ WriteTable \/ ReadRecord \/ WriteLine \/ WriteSummary

FilesSpec == FilesInit /\ [][FilesNext]_filesVars /\ WF_filesVars(ReadTable)
=============================================================================
