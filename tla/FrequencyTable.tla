--------------------------- MODULE FrequencyTable ---------------------------
(***************************************************************************)
(* How init_gpugovernor() reads the board's table of frequencies from      *)
(* sysfs (governor.c:37-60): in chunks of buffsize bytes, each of which    *)
(* gives one number to atoi(), after the scan over the chunk has rewound   *)
(* the file to just behind the first number.  The scan rewinds once for    *)
(* every character that is no digit, relative to where the last rewind     *)
(* left the file.                                                          *)
(*                                                                         *)
(* The text is a sequence of digits "d" and separators "s"; a number is    *)
(* the place of its first and its last digit.                              *)
(***************************************************************************)
EXTENDS Integers, Sequences, FiniteSets

CONSTANTS
    buffsize,  \* TX2_SYSFS_GPU_FREQ_MAX_STRLEN
    ListSize,  \* how many numbers freq_list[] has room for
    Texts      \* what available_frequencies may hold

\* What lies before the o-th byte is whole: a chunk that starts there starts
\* with a number.
Boundary(t, o) == o = 0 \/ o = Len(t) \/ t[o] = "s"

\* Where its numbers end.
Ends(t) == {p \in 1 .. Len(t) : t[p] = "d" /\ (p < Len(t) => t[p + 1] = "s")}

\* A text this loop can read: no more numbers than the list has room for, which
\* the loop does not check (their values, below 2^31 as Hz, fit the int of atoi()
\* and are left out); numbers shorter than the buffer, each followed by one
\* separator, except perhaps the last; and in no chunk a second separator before
\* the chunk's last byte, as two short numbers in a row would put there.
Readable(t) ==
    /\ t \in Seq({"d", "s"})
    /\ Cardinality(Ends(t)) <= ListSize
    /\ \A o \in 0 .. Len(t) - 1 : Boundary(t, o) =>
         /\ t[o + 1] = "d"
         /\ o + buffsize <= Len(t) =>
              \E k \in 1 .. buffsize : t[o + k] = "s"
         /\ \A j, k \in 1 .. buffsize - 1 :
              (j < k /\ o + k < Len(t)) => ~(t[o + j] = "s" /\ t[o + k] = "s")

ASSUME TableAssumption ==
    /\ buffsize \in Nat \ {0}
    /\ ListSize \in Nat
    /\ \A t \in Texts : Readable(t)

VARIABLES
    text,       \* the file
    opened,     \* whether open() gave a descriptor
    offset,     \* the descriptor's offset
    buff,       \* where in the file the chunk in the buffer begins
    bufflen,    \* and what read() answered
    ptr,        \* how far the scan for characters that are no digits is
    freq_list,  \* the numbers stored
    at          \* where init_gpugovernor() is: "read", "scan" or "done"

tableVars == <<text, opened, offset, buff, bufflen, ptr, freq_list, at>>

Number == [first : Nat, last : Nat]

TableInit ==
    /\ text \in Texts
    /\ opened \in BOOLEAN
    /\ offset = 0 /\ buff = 0 /\ bufflen = 0 /\ ptr = 0
    /\ freq_list = <<>>
    /\ at = "read"

ReadBytes(o) == IF Len(text) - o < buffsize THEN Len(text) - o ELSE buffsize

ReadChunk ==
    /\ at = "read"
    /\ opened
    /\ buff' = offset
    /\ bufflen' = ReadBytes(offset)
    /\ offset' = offset + ReadBytes(offset)
    /\ ptr' = 0
    /\ at' = "scan"
    /\ UNCHANGED <<text, opened, freq_list>>

\* Without a descriptor read() answers -1, which as a size_t is positive: there
\* is nothing to scan, no number, and no end of the loop.
ReadFails ==
    /\ at = "read"
    /\ ~opened
    /\ UNCHANGED tableVars

\* Mutant: to the separator and not behind it.
ScanToSeparator ==
    /\ at = "scan" /\ ptr < bufflen
    /\ LET target == offset + (ptr - bufflen)
       IN  offset' = IF text[buff + ptr + 1] = "s" /\ target >= 0
                       THEN target ELSE offset
    /\ ptr' = ptr + 1
    /\ UNCHANGED <<text, opened, buff, bufflen, freq_list, at>>

\* One character of the chunk; lseek() refuses to go before the file.
Scan ==
    /\ at = "scan" /\ ptr < bufflen
    /\ LET target == offset + (ptr - bufflen + 1)
       IN  offset' = IF text[buff + ptr + 1] = "s" /\ target >= 0
                       THEN target ELSE offset
    /\ ptr' = ptr + 1
    /\ UNCHANGED <<text, opened, buff, bufflen, freq_list, at>>

\* atoi(buff): the digits after leading separators, up to the first character
\* that is none or to the end of what was read; none if there are no digits.
Atoi ==
    {n \in [first : buff + 1 .. buff + bufflen, last : buff + 1 .. buff + bufflen] :
       /\ n.first <= n.last
       /\ \A i \in buff + 1 .. n.first - 1 : text[i] = "s"
       /\ \A i \in n.first .. n.last : text[i] = "d"
       /\ n.last < buff + bufflen => text[n.last + 1] = "s"}

\* Mutant: a chunk that does not fill the buffer is taken for the last one.
StoreUntilShort ==
    /\ at = "scan" /\ ptr = bufflen
    /\ \/ Atoi = {} /\ UNCHANGED freq_list
       \/ \E n \in Atoi : freq_list' = Append(freq_list, n)
    /\ at' = IF bufflen = buffsize THEN "read" ELSE "done"
    /\ UNCHANGED <<text, opened, offset, buff, bufflen, ptr>>

\* The number is stored unless it is 0, and the loop ends with an empty chunk.
Store ==
    /\ at = "scan" /\ ptr = bufflen
    /\ \/ Atoi = {} /\ UNCHANGED freq_list
       \/ \E n \in Atoi : freq_list' = Append(freq_list, n)
    /\ at' = IF bufflen > 0 THEN "read" ELSE "done"
    /\ UNCHANGED <<text, opened, offset, buff, bufflen, ptr>>

TableNext == ReadChunk \/ ReadFails \/ Scan \/ Store

TableSpec == TableInit /\ [][TableNext]_tableVars

FairTableSpec == TableSpec /\ WF_tableVars(TableNext)

TableRead == at = "done"

-----------------------------------------------------------------------------
TableTypeOK ==
    /\ text \in Seq({"d", "s"})
    /\ opened \in BOOLEAN
    /\ offset \in 0 .. Len(text)
    /\ buff \in 0 .. Len(text)
    /\ bufflen \in 0 .. Len(text) - buff
    /\ ptr \in 0 .. bufflen
    /\ freq_list \in Seq(Number)
    /\ at \in {"read", "scan", "done"}

\* The whole numbers of the text.
Firsts == {p \in 1 .. Len(text) : text[p] = "d" /\ (p > 1 => text[p - 1] = "s")}
Lasts == Ends(text)

Numbers ==
    {n \in [first : Firsts, last : Lasts] :
       n.first <= n.last /\ \A i \in n.first .. n.last : text[i] = "d"}

\* The table holds the numbers of the file up to some place, each once, whole
\* and in the file's order.
HoldsNumbersUpTo(o) ==
    /\ \A i \in 1 .. Len(freq_list) :
         freq_list[i] \in Numbers /\ freq_list[i].last <= o
    /\ \A i, j \in 1 .. Len(freq_list) :
         i < j => freq_list[i].last < freq_list[j].first
    /\ \A n \in Numbers :
         n.last <= o => \E i \in 1 .. Len(freq_list) : freq_list[i] = n

LastStored == IF freq_list = <<>> THEN 0 ELSE freq_list[Len(freq_list)].last

\* For all its rewinding, reading the table loses no frequency, splits none and
\* stores none twice (governor.c:41-55): policies that name a level by its number
\* would otherwise mean another frequency.  So the list has room for what is
\* stored, although the loop does not look (governor.c:33, 53).
FrequenciesRead ==
    /\ HoldsNumbersUpTo(IF TableRead THEN Len(text) ELSE LastStored)
    /\ Len(freq_list) <= ListSize

\* The loop ends if the file can be opened (governor.c:55; if it cannot, read()
\* answers -1 for ever and the program never comes to start the measurement).
ReadingEnds == opened ~> TableRead
=============================================================================
