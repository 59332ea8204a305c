-------------------------- MODULE MCCaffelogReader --------------------------
(* Every well-formed log of up to MaxLines lines, of runs of one or of two  *)
(* batches, written in lines that are all short, or of which some fill or   *)
(* exceed the buffer, and with or without a torn line at the end.           *)
EXTENDS CaffelogReader

LOCAL INSTANCE SequencesExt

CONSTANT MaxLines

\* Of this instance only WellFormed is used, which depends on none of these.
LOCAL Parser == INSTANCE CaffelogParser WITH
    Day <- 1, StartTime <- 0, Logs <- {},
    log <- <<>>, offset <- 0, caffelog_parser <- 0, caffelogs <- <<>>

MCLine ==
    {[t |-> 1, text |-> x, n |-> 0] : x \in {"noise", "other"}}
      \cup {[t |-> 1, text |-> "running", n |-> n] : n \in 1 .. 2}
      \cup {[t |-> 1, text |-> "batch", n |-> n] : n \in 0 .. 1}

MCLogs ==
    {l \in UNION {[1 .. k -> MCLine] : k \in 0 .. MaxLines} : Parser!WellFormed(l)}

\* How many bytes the lines take, their newlines included, and the torn line.
Shapes ==
    {[bytes |-> <<2, 2, 2, 2, 2, 2>>, torn |-> 0],
     [bytes |-> <<4, 1, 3, 4, 2, 1>>, torn |-> 2],
     [bytes |-> <<1, 3, 2, 4, 5, 1>>, torn |-> 5]}

File(l, shape) ==
    LET end(k) == FoldLeft(+, 0, SubSeq(shape.bytes, 1, k))
    IN  [log      |-> l,
         newlines |-> {end(k) - 1 : k \in 1 .. Len(l)},
         size     |-> end(Len(l)) + shape.torn]

MCFiles == {File(l, shape) : l \in MCLogs, shape \in Shapes}

\* A torn line has a time or not; and "Batch 1" is left of "Batch 10".
MCTornLines ==
    {[t |-> 1, text |-> "noise", n |-> 0], [t |-> 1, text |-> "batch", n |-> 1]}
=============================================================================
