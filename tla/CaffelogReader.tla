--------------------------- MODULE CaffelogReader ---------------------------
(***************************************************************************)
(* How parse_caffelog() gets its lines (caffelog.c:233-270): it reads a    *)
(* buffer full from the end of the last line on, looks for a newline,      *)
(* and goes on behind it.  The search is not told how much was read: after *)
(* a last line without a newline, which is what a killed Caffe leaves, it  *)
(* goes on in what the buffer held before, and in a line longer than the   *)
(* buffer it leaves the buffer.                                            *)
(*                                                                         *)
(* The file is the places of its newlines; of the buffer it is known       *)
(* where it holds newlines.  What the lines say is CaffelogParser's log.   *)
(***************************************************************************)
EXTENDS Integers, Sequences, FiniteSets

CONSTANTS
    Day,        \* see CaffelogParser
    StartTime,
    Logs,
    BUFF_SIZE,  \* bytes read at once
    Files,      \* the files that Caffe may leave
    TornLines   \* what a torn line and what lies behind it may be taken for

VARIABLES
    file,            \* the file: its complete lines, its newlines, its size
    new_offset,      \* where the next line begins; -1 when the end was met
    buff,            \* where the buffer holds newlines
    goto,            \* whether this call has passed over a line before
    caffelog_parser, \* the parser's static state
    caffelogs,       \* list_caffelog
    complete         \* history: the two before the line that has no end

readerVars == <<file, new_offset, buff, goto, caffelog_parser, caffelogs, complete>>

\* The lines that have been read to their ends.
LinesRead == Cardinality({n \in file.newlines : n < new_offset})

Lines == INSTANCE CaffelogParser WITH
    log <- file.log,
    offset <- IF new_offset = -1 THEN -1 ELSE LinesRead,
    caffelog_parser <- complete.parser,
    caffelogs <- complete.caffelogs

ASSUME ReaderAssumption ==
    /\ Day \in Nat \ {0} /\ StartTime \in Nat
    /\ BUFF_SIZE \in Nat \ {0}
    /\ \A f \in Files :
         /\ f.size \in Nat
         /\ f.newlines \subseteq 0 .. f.size - 1
         /\ f.log \in Logs /\ Len(f.log) = Cardinality(f.newlines)
    /\ Logs \subseteq Seq(Lines!Line)
    /\ TornLines \subseteq Lines!Line

ReaderInit ==
    /\ file \in Files
    /\ new_offset = 0
    /\ buff = {} /\ goto = FALSE
    /\ caffelog_parser = Lines!InitParser
    /\ caffelogs = <<>>
    /\ complete = [parser |-> caffelog_parser, caffelogs |-> caffelogs]

\* What pread() answers.
ReadBytes ==
    IF file.size - new_offset < BUFF_SIZE THEN file.size - new_offset ELSE BUFF_SIZE

\* The newlines in the buffer after pread(): those it read, and behind them those
\* the buffer held before; in the first turn of a call it holds anything, of which
\* only the first newline counts.
Newlines(stale) ==
    {n - new_offset : n \in {n \in file.newlines : n - new_offset \in 0 .. ReadBytes - 1}}
      \cup {p \in stale : p >= ReadBytes}

Stale == IF goto THEN {buff} ELSE {{}} \cup {{p} : p \in 0 .. BUFF_SIZE - 1}

First(newlines) == CHOOSE p \in newlines : \A q \in newlines : p <= q

\* Mutant: the next call begins behind what was read.
ReadOn(newlines) == new_offset' = new_offset + ReadBytes

Advance(newlines) == new_offset' = new_offset + First(newlines) + 1

\* The line that was found: one of the file's, or the torn one.
Texts(newlines) ==
    IF First(newlines) < ReadBytes THEN {file.log[LinesRead + 1]} ELSE TornLines

\* goto read_a_line: the newline found is now a NUL.
PassOver(newlines) ==
    /\ \E line \in Texts(newlines) : line.text = "noise"
    /\ buff' = newlines \ {First(newlines)} /\ goto' = TRUE
    /\ Advance(newlines)
    /\ UNCHANGED <<file, caffelog_parser, caffelogs, complete>>

Return(newlines) ==
    /\ \E line \in Texts(newlines) :
         /\ line.text # "noise"
         /\ caffelog_parser' = Lines!NextParser(caffelog_parser, line)
         /\ caffelogs' = Append(caffelogs, Lines!ToCaffelog(caffelog_parser, line))
    /\ buff' = {} /\ goto' = FALSE
    /\ Advance(newlines)
    /\ complete' = IF First(newlines) < ReadBytes
                     THEN [parser |-> caffelog_parser', caffelogs |-> caffelogs']
                     ELSE complete
    /\ UNCHANGED file

ReadALine ==
    /\ new_offset >= 0 /\ ReadBytes > 0
    /\ \E stale \in Stale :
         /\ Newlines(stale) # {}
         /\ PassOver(Newlines(stale)) \/ Return(Newlines(stale))

EndOfFile ==
    /\ new_offset >= 0 /\ ReadBytes <= 0
    /\ new_offset' = -1
    /\ UNCHANGED <<file, buff, goto, caffelog_parser, caffelogs, complete>>

\* No newline in the buffer: the search goes on through the stack, and what it
\* comes to then is not followed.
MayOverrun ==
    /\ new_offset >= 0 /\ ReadBytes > 0
    /\ \E stale \in Stale : Newlines(stale) = {}

Overrun == MayOverrun /\ UNCHANGED readerVars

ReaderEnded == new_offset = -1 /\ UNCHANGED readerVars

ReaderNext == ReadALine \/ EndOfFile \/ Overrun \/ ReaderEnded

ReaderSpec == ReaderInit /\ [][ReaderNext]_readerVars

-----------------------------------------------------------------------------
ReaderTypeOK ==
    /\ file \in Files
    /\ new_offset \in Nat \cup {-1}
    /\ buff \subseteq 0 .. BUFF_SIZE - 1
    /\ goto \in BOOLEAN
    /\ caffelog_parser \in Lines!ParserState
    /\ caffelogs \in Seq(Lines!Caffelog)

\* Reading by the buffer and searching in it is reading line by line, however the
\* lines lie to the buffer's end and whatever it held; a torn last line, whatever
\* it is taken for, spoils nothing of what was read before it, and the end is not
\* met before the last complete line (caffelog.c:233-248).
ImplementsParser == Lines!ParserSpec

\* The parser's properties, for the lines that are complete.
BatchesEndOnceInOrder == Lines!BatchesEndOnceInOrder
CnnEndsWithLastBatch == Lines!CnnEndsWithLastBatch
=============================================================================
