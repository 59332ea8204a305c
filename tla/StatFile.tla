------------------------------ MODULE StatFile ------------------------------
(***************************************************************************)
(* Where things are in the statistics file.  prepare_measurement() writes  *)
(* the experiment's data, reserves space behind them for a summary whose   *)
(* rows it has not registered yet, and closes the file.                    *)
(* calculate_2ndstat() writes the table from the end of that space on,     *)
(* column by column at registered widths, then goes back and fills the     *)
(* space with rows and two summaries (power_measurement.c, stat.c,         *)
(* summary.c, and the functions *_to_stat() of log_to_stat.c).  Nothing    *)
(* compares what is written with what was reserved, nor a value with its   *)
(* column.                                                                 *)
(*                                                                         *)
(* Of a text only its length is kept.                                      *)
(***************************************************************************)
EXTENDS Integers, Sequences

CONSTANTS
    Expinfo,       \* how long the experiment's data may be
    Reserved,      \* what each snprintf() of the reservation answers
    GuardBanding,  \* and what is added to them
    Rows,          \* the rows to register
    UnitGarbage,   \* how much may be printed for a unit that nobody wrote
    Columns,       \* the statistics to register
    Summaries,     \* how long the parts of the two summaries may be
    MaxLines       \* bound: lines for samples, and lines for events

Kinds == {"powerlog", "caffelog"}

Logtypes == {"time", "timestamp", "powerlog", "summary", "caffelog"}

\* A message (register_row_message) is a row without data.
Row == [message : Nat, data : SUBSET Nat, unit : Nat]

\* values is how long the function of this column makes what it prints, before it
\* is padded to colwidth.
Column == [colname : Nat, colwidth : Nat, logtype : Logtypes, values : SUBSET Nat]

ASSUME StatAssumption ==
    /\ Expinfo \subseteq Nat
    /\ Reserved \in Seq(Int)
    /\ GuardBanding \in Nat
    /\ Rows \in Seq(Row)
    /\ UnitGarbage \subseteq Nat
    /\ Columns \in Seq(Column) /\ Columns # <<>>
    /\ Summaries \in Seq(SUBSET Nat)
    /\ MaxLines \in Nat

\* What the first n add up to, and all.
Sums(f) == LET s[n \in 0 .. Len(f)] == IF n = 0 THEN 0 ELSE s[n - 1] + f[n]
           IN  s

Total(f) == Sums(f)[Len(f)]

Longest(S) ==
    IF S = {} THEN 0 ELSE CHOOSE length \in S : \A other \in S : other <= length

\* The longest a row, and a part of a summary, may become.
LongestRows ==
    [k \in 1 .. Len(Rows) |->
       Rows[k].message + (IF Rows[k].data = {} THEN Longest(UnitGarbage)
                            ELSE Longest(Rows[k].data) + Rows[k].unit)]

LongestSummaries == [k \in 1 .. Len(Summaries) |-> Longest(Summaries[k])]

\* What the texts of power_measurement.c, stat.c and summary.c come to: the space
\* holds the longest rows and summaries and the newline behind them, if only one
\* of the units that nobody wrote is not the longest there may be.
ASSUME SpaceAssumption ==
    /\ \A S \in {UnitGarbage} \cup {Rows[k].data : k \in 1 .. Len(Rows)}
                            \cup {Summaries[k] : k \in 1 .. Len(Summaries)} :
         S # {} => \E length \in S : \A other \in S : other <= length
    /\ \A unit \in UnitGarbage :
         unit < Longest(UnitGarbage) =>
           Total(LongestRows) + Total(LongestSummaries) + 1
             <= Total(Reserved) + GuardBanding + Longest(UnitGarbage) - unit

VARIABLES
    stat_at,        \* which of the actions below is next
    stat_offset,    \* the offset of stat_fd
    summary_start,  \* where the reserved space begins ...
    metadata_end,   \* ... and where the table does
    row,            \* info.row[], by their indices in Rows
    line,           \* whether the last line is a sample's or an event's
    num_line,       \* and how many there are of each
    cells,          \* history: where the columns of that line end
    printed,        \* how many of the rows, or of the summaries' parts
    garbage         \* history: what was printed for the units of messages

statVars == <<stat_at, stat_offset, summary_start, metadata_end, row, line,
              num_line, cells, printed, garbage>>

\* A text at a width: blanks before it, and nothing is cut off.
Wider(a, b) == IF a < b THEN b ELSE a

StatInit ==
    /\ stat_at = "expinfo"
    /\ stat_offset = 0 /\ summary_start = 0 /\ metadata_end = 0
    /\ row = <<>>
    /\ line = "header" /\ num_line = [k \in Kinds |-> 0] /\ cells = <<>>
    /\ printed = 0 /\ garbage = <<>>

-----------------------------------------------------------------------------
(* prepare_measurement() *)

\* Mutant: without the guard band.
ReserveTight ==
    /\ stat_at = "expinfo"
    /\ \E length \in Expinfo :
         /\ stat_offset' = length + Total(Reserved)
         /\ summary_start' = length
    /\ metadata_end' = stat_offset'
    /\ stat_at' = "register"
    /\ UNCHANGED <<row, line, num_line, cells, printed, garbage>>

\* print_expinfo(), then the reservation, and what lseek() answers.
Reserve ==
    /\ stat_at = "expinfo"
    /\ \E length \in Expinfo :
         /\ stat_offset' = length + Total(Reserved) + GuardBanding
         /\ summary_start' = length
    /\ metadata_end' = stat_offset'
    /\ stat_at' = "register"
    /\ UNCHANGED <<row, line, num_line, cells, printed, garbage>>

\* The rows come after the space for them is settled.
RegisterRow ==
    /\ stat_at = "register" /\ Len(row) < Len(Rows)
    /\ row' = Append(row, Len(row) + 1)
    /\ UNCHANGED <<stat_at, stat_offset, summary_start, metadata_end, line,
                   num_line, cells, printed, garbage>>

-----------------------------------------------------------------------------
(* calculate_2ndstat(): the table. *)

\* The file is opened once more, and written from metadata_end on.
OpenStat ==
    /\ stat_at = "register" /\ Len(row) = Len(Rows)
    /\ stat_offset' = metadata_end + 2
    /\ stat_at' = "cells"
    /\ UNCHANGED <<summary_start, metadata_end, row, line, num_line, cells,
                   printed, garbage>>

\* Which columns a line has a value for; the others are padded (PAD_COLUMN).
HasValue(logtype) ==
    \/ logtype \in {"time", "timestamp"}
    \/ line = "powerlog" /\ logtype \in {"powerlog", "summary"}
    \/ line = "caffelog" /\ logtype = "caffelog"

\* How many characters a column's function may write.  Those that pad the whole
\* value at once write colwidth or more; psum_gpuutil_to_stat() pads the part
\* before the point, to colwidth - 10, and writes eleven characters behind it.
ValueLengths(column) == {Wider(column.colwidth, value) : value \in column.values}

\* Two blanks and the column.
Cell(width) ==
    /\ stat_offset' = stat_offset + 2 + width
    /\ cells' = Append(cells, 2 + width + (IF cells = <<>> THEN 0 ELSE cells[Len(cells)]))
    /\ stat_at' = IF Len(cells') = Len(Columns) THEN "lines" ELSE "cells"
    /\ UNCHANGED <<summary_start, metadata_end, row, line, num_line, printed, garbage>>

WriteHeader ==
    /\ stat_at = "cells" /\ line = "header"
    /\ LET column == Columns[Len(cells) + 1]
       IN  Cell(Wider(column.colwidth, column.colname))

\* Mutant: the blanks of the padding are as many as the column is wide.
WriteColumnOverpadded ==
    /\ stat_at = "cells" /\ line # "header"
    /\ LET column == Columns[Len(cells) + 1]
       IN  IF HasValue(column.logtype) THEN \E width \in ValueLengths(column) : Cell(width)
                                       ELSE Cell(column.colwidth + 4)

WriteColumn ==
    /\ stat_at = "cells" /\ line # "header"
    /\ LET column == Columns[Len(cells) + 1]
       IN  IF HasValue(column.logtype) THEN \E width \in ValueLengths(column) : Cell(width)
                                       ELSE Cell(column.colwidth)

NewLine(kind) ==
    /\ stat_at = "lines" /\ num_line[kind] < MaxLines
    /\ line' = kind
    /\ num_line' = [num_line EXCEPT ![kind] = @ + 1]
    /\ stat_offset' = stat_offset + 1
    /\ cells' = <<>>
    /\ stat_at' = "cells"
    /\ UNCHANGED <<summary_start, metadata_end, row, printed, garbage>>

-----------------------------------------------------------------------------
(* calculate_2ndstat(): the reserved space, and the end of the file. *)

\* print_registered_rows(): back to the start of the space.
Rewind ==
    /\ stat_at = "lines"
    /\ stat_offset' = summary_start
    /\ stat_at' = "rows"
    /\ UNCHANGED <<summary_start, metadata_end, row, line, num_line, cells,
                   printed, garbage>>

\* The unit of a row without data is whatever the stack of main() held
\* (stat.c:77), up to the first NUL, be it in a later row.
PrintRow ==
    /\ stat_at = "rows" /\ printed < Len(row)
    /\ LET this == Rows[row[printed + 1]]
       IN  \/ /\ this.data # {}
              /\ \E data \in this.data :
                   stat_offset' = stat_offset + this.message + data + this.unit
              /\ UNCHANGED garbage
           \/ /\ this.data = {}
              /\ \E unit \in UnitGarbage :
                   /\ stat_offset' = stat_offset + this.message + unit
                   /\ garbage' = Append(garbage, unit)
    /\ printed' = printed + 1
    /\ UNCHANGED <<stat_at, summary_start, metadata_end, row, line, num_line, cells>>

StartSummaries ==
    /\ stat_at = "rows" /\ printed = Len(row)
    /\ stat_at' = "summaries"
    /\ printed' = 0
    /\ UNCHANGED <<stat_offset, summary_start, metadata_end, row, line, num_line,
                   cells, garbage>>

PrintSummary ==
    /\ stat_at = "summaries" /\ printed < Len(Summaries)
    /\ \E length \in Summaries[printed + 1] : stat_offset' = stat_offset + length
    /\ printed' = printed + 1
    /\ UNCHANGED <<stat_at, summary_start, metadata_end, row, line, num_line,
                   cells, garbage>>

CloseStat ==
    /\ stat_at = "summaries" /\ printed = Len(Summaries)
    /\ stat_offset' = stat_offset + 1
    /\ stat_at' = "closed"
    /\ UNCHANGED <<summary_start, metadata_end, row, line, num_line, cells,
                   printed, garbage>>

-----------------------------------------------------------------------------
StatTypeOK ==
    /\ stat_at \in {"expinfo", "register", "cells", "lines", "rows", "summaries", "closed"}
    /\ stat_offset \in Int /\ summary_start \in Nat /\ metadata_end \in Int
    /\ row \in Seq(DOMAIN Rows)
    /\ line \in Kinds \cup {"header"}
    /\ num_line \in [Kinds -> 0 .. MaxLines]
    /\ cells \in Seq(Nat)
    /\ printed \in Nat
    /\ garbage \in Seq(UnitGarbage)

\* What this kind of line has in a column may be longer than the column.
Overlong(column) ==
    IF line = "header" THEN column.colname > column.colwidth
    ELSE HasValue(column.logtype) /\ \E value \in column.values : value > column.colwidth

\* Where the columns end if each is as wide as it was registered.
Places ==
    [j \in 0 .. Len(Columns) |->
       Sums([k \in 1 .. Len(Columns) |-> 2 + Columns[k].colwidth])[j]]

CellEnd(j) == IF j = 0 THEN 0 ELSE cells[j]

\* The header, the lines of samples and the lines of events, which are written by
\* different functions and padded in different columns, have the same columns at
\* the same distances (stat.c:317-340, power_measurement.c:559-611): from the start
\* of a line, or from a text that was longer than its column, to the next such text
\* every column ends where the widths say.
ColumnsAligned ==
    /\ LET overlong == {k \in 1 .. Len(cells) : Overlong(Columns[k])}
       IN  \A i \in {0} \cup overlong : \A j \in i .. Len(cells) :
             (\A k \in overlong : k <= i \/ j < k)
               => CellEnd(j) = CellEnd(i) + Places[j] - Places[i]
    /\ stat_at \in {"lines", "rows", "summaries", "closed"} => Len(cells) = Len(Columns)

\* The summary, whose length is reserved by texts other than those printed and
\* before the rows are registered, ends before the table begins
\* (power_measurement.c:263-288); unless for every message of a row the garbage
\* in its unit was as long as can be.
ReservationHolds ==
    stat_at \in {"rows", "summaries", "closed"} =>
      \/ stat_offset <= metadata_end
      \/ \A i \in DOMAIN garbage : \A g \in UnitGarbage : g <= garbage[i]
=============================================================================
