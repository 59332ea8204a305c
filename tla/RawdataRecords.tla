--------------------------- MODULE RawdataRecords ---------------------------
(***************************************************************************)
(* The records of rawdata.bin.  While the program under test runs, every   *)
(* sample calls one collect function per registered file of sysfs, which   *)
(* writes what the file shows as text, padded to the field's fixed width   *)
(* (rawdata.c); there is no separator and no length.  Afterwards           *)
(* calculate_2ndstat() calls the matching conversions in the same order,   *)
(* each of which takes its width of bytes from where the last one stopped  *)
(* and parses them (powerlog.c).  The two sides agree on where a field is  *)
(* by nothing but the number of bytes written so far.                      *)
(*                                                                         *)
(* A byte of the file is a blank or the pos-th character of what the       *)
(* call-th collect function read; a parsed number is the stretch of        *)
(* characters it was made of.                                              *)
(***************************************************************************)
EXTENDS Integers, Sequences

CONSTANTS
    NumRawdata,  \* info.num_rawdata
    Width,       \* TX2_SYSFS_..._MAX_STRLEN of each field
    Hertz,       \* the fields with frequencies, kept in MHz
    HzDigits,    \* how many digits make Hz of MHz
    Shown,       \* how many characters the file of each field may show, if any
    MaxSamples   \* bound: samples taken in one run

Fields == 1 .. NumRawdata

\* The first field is the time, sixteen bytes that no text is made of.
Time == 1

ASSUME RecordsAssumption ==
    /\ NumRawdata \in Nat \ {0}
    /\ Width \in [Fields -> Nat \ {0}]
    /\ Hertz \subseteq Fields \ {Time}
    /\ HzDigits \in Nat
    /\ Shown \in [Fields -> SUBSET Nat]
    /\ MaxSamples \in Nat

VARIABLES
    phase,      \* "measure", "calculate" or "eof"
    rawdata,    \* the bytes of the file
    size,       \* and their number
    field,      \* whose turn it is, to be collected or to be converted
    sample,     \* the number of the sample being collected
    collected,  \* history: the calls of collect functions
    due,        \* history: the size of the file if each had written its width
    rpos,       \* the offset calculate_2ndstat() has read to
    calls,      \* how many conversions were called
    powerlog,   \* the record being filled
    records     \* the records handed to the merge

recordVars == <<phase, rawdata, size, field, sample, collected, due,
                rpos, calls, powerlog, records>>

FAILED == -1   \* a collect function that could not read
SPILLED == -2  \* one that read nothing and wrote a blank too many

Outcomes == Nat \cup {FAILED, SPILLED}

Blank == [call |-> 0, pos |-> 0]
Byte == [call : Nat, pos : Nat]
Garbage == [call |-> 0, first |-> 0, last |-> 0]
Zero == [call |-> 0, first |-> 1, last |-> 0]
Value == [call : Nat, first : Nat, last : Nat]

FollowingField == IF field = NumRawdata THEN 1 ELSE field + 1

RecordsInit ==
    /\ phase = "measure"
    /\ rawdata = <<>> /\ size = 0
    /\ field = 1 /\ sample = 1
    /\ collected = <<>> /\ due = 0
    /\ rpos = 0 /\ calls = 0
    /\ powerlog = [f \in Fields |-> [call |-> 0, value |-> Garbage]]
    /\ records = <<>>

-----------------------------------------------------------------------------
(* Writing. *)

\* The i-th byte of a field: of a text the characters that fit, then blanks.
\* The newline that ends a text which leaves room for it becomes a blank too.
Written(call, f, chars, i) ==
    IF f = Time \/ i <= chars THEN [call |-> call, pos |-> i] ELSE Blank

Called(chars) ==
    /\ collected' = Append(collected, [sample |-> sample, field |-> field,
                                      chars |-> chars, due |-> due])
    /\ due' = due + Width[field]
    /\ field' = FollowingField
    /\ sample' = IF field = NumRawdata THEN sample + 1 ELSE sample

\* Mutant: the padding is forgotten.
CollectUnpadded ==
    /\ phase = "measure" /\ sample <= MaxSamples
    /\ \E chars \in Shown[field] :
         LET width == IF field # Time /\ chars < Width[field] THEN chars
                                                              ELSE Width[field]
         IN  /\ Called(chars)
             /\ rawdata' = [i \in 1 .. size + width |->
                              IF i <= size THEN rawdata[i]
                              ELSE Written(Len(collected) + 1, field, chars, i - size)]
             /\ size' = size + width
    /\ UNCHANGED <<phase, rpos, calls, powerlog, records>>

Collect ==
    /\ phase = "measure" /\ sample <= MaxSamples
    /\ \E chars \in Shown[field] :
         /\ Called(chars)
         /\ rawdata' = [i \in 1 .. size + Width[field] |->
                          IF i <= size THEN rawdata[i]
                          ELSE Written(Len(collected) + 1, field, chars, i - size)]
    /\ size' = size + Width[field]
    /\ UNCHANGED <<phase, rpos, calls, powerlog, records>>

\* Without a reading, or without a time, nothing is written.
CollectFails ==
    /\ phase = "measure" /\ sample <= MaxSamples
    /\ Called(FAILED)
    /\ UNCHANGED <<phase, rawdata, size, rpos, calls, powerlog, records>>

\* read() answers 0 and the byte before the buffer happens to be a newline, a
\* blank or 0xff: that byte is counted off, write() refuses -1 bytes, and the
\* padding is one blank longer than the field.  If it is none of these, nothing
\* is written but the padding: that is Collect with no characters.
CollectSpills ==
    /\ phase = "measure" /\ sample <= MaxSamples
    /\ field # Time /\ 0 \in Shown[field]
    /\ Called(SPILLED)
    /\ rawdata' = [i \in 1 .. size + Width[field] + 1 |->
                     IF i <= size THEN rawdata[i] ELSE Blank]
    /\ size' = size + Width[field] + 1
    /\ UNCHANGED <<phase, rpos, calls, powerlog, records>>

\* The loop ends between two samples.
StopMeasuring ==
    /\ phase = "measure" /\ field = 1
    /\ phase' = "calculate"
    /\ UNCHANGED <<rawdata, size, field, sample, collected, due, rpos, calls,
                   powerlog, records>>

-----------------------------------------------------------------------------
(* Reading: read() gives n bytes, of which the i-th is At(i). *)

BytesRead ==
    IF size - rpos < Width[field] THEN size - rpos ELSE Width[field]

At(i) == rawdata[rpos + i]

\* The first word among the first n bytes, if there is one.
Words(n) ==
    {w \in [first : 1 .. n, last : 1 .. n] :
       /\ w.first <= w.last
       /\ \A i \in 1 .. w.first - 1 : At(i) = Blank
       /\ \A i \in w.first .. w.last : At(i) # Blank
       /\ w.last < n => At(w.last + 1) = Blank}

\* The number a word stands for; characters of several readings, or of a time,
\* make a number that is none.
NumberOf(w) ==
    LET of == At(w.first).call
    IN  IF (\A i \in w.first .. w.last : At(i).call = of) /\ collected[of].field # Time
        THEN [call |-> of, first |-> At(w.first).pos, last |-> At(w.last).pos]
        ELSE Garbage

\* atoi(buff): nothing ends the buffer, so a word at its end, and a search for a
\* word among blanks, goes on with what the stack holds, be it a digit or not.
Decimal(n) ==
    IF Words(n) = {} THEN {Zero, Garbage}
    ELSE UNION {{NumberOf(w)} \cup (IF w.last = n THEN {Garbage} ELSE {}) : w \in Words(n)}

\* A NUL is put HzDigits before the last character.  If the field does not hold
\* a number of that many digits, the NUL, or the search for that character, is
\* before the buffer.
BeforeNul(end) ==
    IF end < 0 THEN {Garbage}
    ELSE IF Words(end) = {} THEN {Zero}
    ELSE {NumberOf(w) : w \in Words(end)}

Megahertz(n) ==
    LET text == {i \in 1 .. n : At(i) # Blank}
    IN  IF text = {} THEN {Garbage}
        ELSE UNION {BeforeNul(i - HzDigits) : i \in {i \in text : \A j \in text : j <= i}}

\* The bytes of a time are taken as they are.
Timestamp(n) ==
    LET of == At(1).call
    IN  IF /\ n = Width[Time]
           /\ \A i \in 1 .. n : At(i) = [call |-> of, pos |-> i]
           /\ collected[of].field = Time
        THEN {[call |-> of, first |-> 1, last |-> n]} ELSE {Garbage}

Parsed(n) ==
    CASE field = Time -> Timestamp(n)
      [] field \in Hertz -> Megahertz(n)
      [] field # Time /\ field \notin Hertz -> Decimal(n)

ToPowerlog ==
    /\ phase = "calculate"
    /\ BytesRead > 0
    /\ rpos' = rpos + BytesRead
    /\ calls' = calls + 1
    /\ \E value \in Parsed(BytesRead) :
         powerlog' = [powerlog EXCEPT ![field] = [call |-> calls + 1, value |-> value]]
    /\ field' = FollowingField
    /\ records' = IF field = NumRawdata THEN Append(records, powerlog') ELSE records
    /\ UNCHANGED <<phase, rawdata, size, sample, collected, due>>

\* Mutant: what is left over of a record is taken for one.
EofKeepsRest ==
    /\ phase = "calculate"
    /\ BytesRead <= 0
    /\ phase' = "eof"
    /\ records' = IF field > 1 THEN Append(records, powerlog) ELSE records
    /\ UNCHANGED <<rawdata, size, field, sample, collected, due, rpos, calls,
                   powerlog>>

\* goto rawdata_eof_found, also from the middle of a record.
RawdataEof ==
    /\ phase = "calculate"
    /\ BytesRead <= 0
    /\ phase' = "eof"
    /\ UNCHANGED <<rawdata, size, field, sample, collected, due, rpos, calls,
                   powerlog, records>>

RecordsNext ==
    \/ Collect \/ CollectFails \/ CollectSpills \/ StopMeasuring
    \/ ToPowerlog \/ RawdataEof

RecordsSpec == RecordsInit /\ [][RecordsNext]_recordVars

-----------------------------------------------------------------------------
RecordsTypeOK ==
    /\ phase \in {"measure", "calculate", "eof"}
    /\ size \in Nat
    /\ rawdata \in [1 .. size -> Byte]
    /\ field \in Fields
    /\ sample \in Nat \ {0}
    /\ collected \in Seq([sample : Nat, field : Fields, chars : Outcomes,
                          due : Nat])
    /\ due \in Nat
    /\ rpos \in 0 .. size
    /\ calls \in Nat
    /\ powerlog \in [Fields -> [call : Nat, value : Value]]
    /\ records \in Seq([Fields -> [call : Nat, value : Value]])

\* Every collect function up to this call wrote its width.
NoneFailed(call) ==
    \A c \in 1 .. Len(collected) : c <= call => collected[c].chars \in Nat

NoneSpilled == \A c \in 1 .. Len(collected) : collected[c].chars # SPILLED

\* There was a text, it left room for a blank behind it, and a frequency shows Hz.
Terminated(c) ==
    \/ c.field = Time
    \/ c.field \notin Hertz /\ c.chars \in 1 .. Width[c.field] - 1
    \/ c.field \in Hertz /\ c.chars \in HzDigits + 1 .. Width[c.field]

\* The number that a call has to give: all characters of the call's text, for a
\* frequency those that make MHz.
Reading(call) ==
    LET c == collected[call]
    IN  [call  |-> call, first |-> 1,
         last  |-> CASE c.field = Time -> Width[Time]
                     [] c.field \in Hertz -> c.chars - HzDigits
                     [] c.field # Time /\ c.field \notin Hertz -> c.chars]

\* What is read back is what was sampled: as long as no collect function failed,
\* the r-th record holds the r-th sample, and each of its fields the number that
\* sysfs showed, unless its own text was empty or filled the field (rawdata.c:58-61
\* pads for that, powerlog.c:43 and the like rely on it); a field that is too long
\* spoils itself only, and a failure nothing that was sampled before it.
ReadingsAreSamples ==
    \A r \in 1 .. Len(records) : \A f \in Fields :
      LET call == records[r][f].call
      IN  NoneFailed(call) =>
            /\ call \in 1 .. Len(collected)
            /\ collected[call].field = f
            /\ collected[call].sample = r
            /\ Terminated(collected[call]) => records[r][f].value = Reading(call)

\* Failures shift fields and lose readings, but never is there a record without
\* a sample, which takes blanks that were spilt; and without a failure every
\* sample is read, and nothing is left over when the end of the file is found
\* (power_measurement.c:536-540).
EverySampleIsRead ==
    /\ NoneSpilled => Len(records) < sample
    /\ (phase = "eof" /\ NoneFailed(Len(collected))) =>
         /\ calls = Len(collected)
         /\ Len(records) = sample - 1
=============================================================================
