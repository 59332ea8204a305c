-------------------------- MODULE ResultFilesProofs --------------------------
(***************************************************************************)
(* That reading the table of frequencies gives exactly the numbers of the  *)
(* file and goes on to its end, for every size of the buffer and every     *)
(* text that is Readable; that the records read back are the samples, for  *)
(* any number of fields of any widths and texts of any length; that both   *)
(* are true of a whole run; that the columns of the lines it writes are    *)
(* where the widths say between texts that are longer than their columns;  *)
(* and that the summary ends before the table begins.                      *)
(***************************************************************************)
EXTENDS ResultFiles, TLAPS, WellFoundedInduction, FiniteSetTheorems

-----------------------------------------------------------------------------
(* The table of frequencies.  The invariant says where the offset may be:    *)
(* between two chunks behind a separator, and during the scan either at the  *)
(* end of the chunk or behind the one separator the chunk may hold before    *)
(* its last byte.                                                            *)

ScanInv ==
    \/ /\ offset = buff + bufflen
       /\ \A k \in 1 .. ptr : text[buff + k] = "s" => k = bufflen
    \/ \E k \in 1 .. ptr :
         k < bufflen /\ text[buff + k] = "s" /\ offset = buff + k

TableInv ==
    /\ TableTypeOK
    /\ Readable(text)
    /\ at = "read" => Boundary(text, offset) /\ HoldsNumbersUpTo(offset)
    /\ at = "scan" => /\ Boundary(text, buff) /\ HoldsNumbersUpTo(buff)
                      /\ bufflen = ReadBytes(buff)
                      /\ ScanInv
    /\ at = "done" => HoldsNumbersUpTo(Len(text))

\* read() answers no more than is left.
LEMMA ReadBytesType ==
    ASSUME text \in Seq({"d", "s"}), NEW o \in 0 .. Len(text)
    PROVE  /\ ReadBytes(o) \in 0 .. Len(text) - o
           /\ ReadBytes(o) <= buffsize
           /\ ReadBytes(o) < buffsize => ReadBytes(o) = Len(text) - o
           /\ ReadBytes(o) = 0 => o = Len(text)
BY TableAssumption, SMT DEF ReadBytes

\* Where a chunk starts, a number starts.
LEMMA StartsWithDigit ==
    ASSUME Readable(text), NEW o \in 0 .. Len(text) - 1, Boundary(text, o)
    PROVE  text[o + 1] = "d"
BY DEF Readable

\* A chunk holds one separator at most before its last byte.
LEMMA OneSeparator ==
    ASSUME Readable(text), NEW o \in 0 .. Len(text) - 1, Boundary(text, o),
           NEW j \in 1 .. ReadBytes(o) - 1, NEW k \in 1 .. ReadBytes(o) - 1,
           text[o + j] = "s", text[o + k] = "s"
    PROVE  j = k
<1>1. text \in Seq({"d", "s"})
  BY DEF Readable
<1>2. /\ ReadBytes(o) \in 0 .. Len(text) - o
      /\ ReadBytes(o) <= buffsize
  BY <1>1, ReadBytesType
<1>3. /\ j \in 1 .. buffsize - 1 /\ k \in 1 .. buffsize - 1
      /\ o + j < Len(text) /\ o + k < Len(text)
  BY <1>1, <1>2, TableAssumption, SMT
<1>4. \A a, b \in 1 .. buffsize - 1 :
        (a < b /\ o + b < Len(text)) => ~(text[o + a] = "s" /\ text[o + b] = "s")
  BY DEF Readable
<1>5. ~(j < k) /\ ~(k < j)
  BY <1>3, <1>4
<1>6. QED
  BY <1>5, <1>3, TableAssumption, SMT

\* After the scan the file's offset is where the chunk's number ends: at the end
\* of the file, or behind the separator that follows the number.
LEMMA ScannedNumber ==
    ASSUME TableInv, at = "scan", ptr = bufflen, bufflen > 0
    PROVE  \E e \in buff + 1 .. Len(text) :
             /\ \A i \in buff + 1 .. e : text[i] = "d"
             /\ e <= buff + bufflen
             /\ \/ e = Len(text) /\ offset = e
                \/ e < Len(text) /\ text[e + 1] = "s" /\ offset = e + 1
<1>1. /\ text \in Seq({"d", "s"}) /\ Readable(text)
      /\ buff \in 0 .. Len(text) /\ Boundary(text, buff)
      /\ bufflen = ReadBytes(buff) /\ ScanInv
      /\ offset \in 0 .. Len(text)
  BY DEF TableInv, TableTypeOK
<1>2. /\ bufflen \in 1 .. Len(text) - buff
      /\ bufflen <= buffsize
      /\ bufflen < buffsize => bufflen = Len(text) - buff
  BY <1>1, ReadBytesType
<1>3. buff \in 0 .. Len(text) - 1
  BY <1>1, <1>2, SMT
<1>4. text[buff + 1] = "d"
  BY <1>1, <1>3, StartsWithDigit
<1>5. \A i \in 1 .. Len(text) : text[i] = "d" \/ text[i] = "s"
  BY <1>1, SMT
<1>6. CASE \E k \in 1 .. ptr : k < bufflen /\ text[buff + k] = "s" /\ offset = buff + k
  <2>1. PICK k \in 1 .. bufflen - 1 : text[buff + k] = "s" /\ offset = buff + k
    BY <1>6, <1>2, SMT
  <2>2. k > 1
    BY <2>1, <1>2, <1>4, SMT
  <2>3. \A j \in 1 .. k - 1 : text[buff + j] = "d"
    <3>0. \A j \in 1 .. k - 1 : buff + j \in 1 .. Len(text)
      BY <1>1, <1>2, <2>1, SMT
    <3>1. SUFFICES ASSUME NEW j \in 1 .. k - 1, text[buff + j] = "s" PROVE FALSE
      BY <1>5, <3>0
    <3>2. j \in 1 .. bufflen - 1
      BY <1>2, <2>1, SMT
    <3>3. j = k
      BY <1>1, <1>3, <2>1, <3>1, <3>2, OneSeparator
    <3>4. QED
      BY <3>3, <2>1, <1>2, SMT
  <2>4. \A i \in buff + 1 .. buff + k - 1 : text[i] = "d"
    <3>1. TAKE i \in buff + 1 .. buff + k - 1
    <3>2. i - buff \in 1 .. k - 1 /\ buff + (i - buff) = i
      BY <1>1, <2>1, <1>2, SMT
    <3>3. QED
      BY <3>2, <2>3
  <2>5. /\ buff + k - 1 \in buff + 1 .. Len(text)
        /\ buff + k - 1 < Len(text)
        /\ buff + k - 1 <= buff + bufflen
        /\ (buff + k - 1) + 1 = buff + k
    BY <1>1, <1>2, <2>1, <2>2, SMT
  <2>6. QED
    BY <2>1, <2>4, <2>5
<1>7. CASE /\ offset = buff + bufflen
           /\ \A k \in 1 .. ptr : text[buff + k] = "s" => k = bufflen
  <2>1. \A j \in 1 .. bufflen - 1 : text[buff + j] = "d"
    <3>1. TAKE j \in 1 .. bufflen - 1
    <3>2. j \in 1 .. ptr /\ j # bufflen /\ buff + j \in 1 .. Len(text)
      BY <1>1, <1>2
    <3>3. text[buff + j] # "s"
      BY <1>7, <3>2
    <3> QED BY <1>5, <3>2, <3>3
  <2>2. \A i \in buff + 1 .. buff + bufflen - 1 : text[i] = "d"
    <3>1. TAKE i \in buff + 1 .. buff + bufflen - 1
    <3>2. i - buff \in 1 .. bufflen - 1 /\ buff + (i - buff) = i
      BY <1>1, <1>2, SMT
    <3>3. QED
      BY <3>2, <2>1
  <2>3. CASE text[buff + bufflen] = "s"
    <3>1. bufflen > 1
      BY <2>3, <1>2, <1>4, SMT
    <3>2. /\ buff + bufflen - 1 \in buff + 1 .. Len(text)
          /\ buff + bufflen - 1 < Len(text)
          /\ buff + bufflen - 1 <= buff + bufflen
          /\ (buff + bufflen - 1) + 1 = buff + bufflen
      BY <1>1, <1>2, <3>1, SMT
    <3>3. QED
      BY <3>2, <2>2, <2>3, <1>7
  <2>4. CASE text[buff + bufflen] # "s"
    <3>1. text[buff + bufflen] = "d"
      BY <2>4, <1>5, <1>1, <1>2, SMT
    <3>2. \A i \in buff + 1 .. buff + bufflen : text[i] = "d"
      BY <3>1, <2>2, <1>1, <1>2, SMT
    <3>3. buff + bufflen = Len(text)
      <4>1. SUFFICES ASSUME buff + bufflen # Len(text) PROVE FALSE
        OBVIOUS
      <4>2. bufflen = buffsize /\ buff + buffsize <= Len(text)
        BY <4>1, <1>1, <1>2, TableAssumption, SMT
      <4>3. \E k \in 1 .. buffsize : text[buff + k] = "s"
        BY <4>2, <1>1, <1>3 DEF Readable
      <4>4. PICK k \in 1 .. buffsize : text[buff + k] = "s"
        BY <4>3
      <4>5. buff + k \in buff + 1 .. buff + bufflen
        BY <4>2, <1>1, <1>2, SMT
      <4>6. QED
        BY <3>2, <4>4, <4>5
    <3>4. buff + bufflen \in buff + 1 .. Len(text)
      BY <1>1, <1>2, SMT
    <3>5. QED
      BY <3>2, <3>3, <3>4, <1>7, <1>1, <1>2, SMT
  <2>5. QED
    BY <2>3, <2>4
<1>8. QED
  BY <1>1, <1>6, <1>7 DEF ScanInv

\* A number that ends at e, and what atoi() makes of the chunk it starts.
LEMMA AtoiIsTheNumber ==
    ASSUME TableTypeOK, NEW e \in buff + 1 .. Len(text),
           \A i \in buff + 1 .. e : text[i] = "d",
           e <= buff + bufflen,
           e < Len(text) => text[e + 1] = "s"
    PROVE  Atoi = {[first |-> buff + 1, last |-> e]}
<1> DEFINE num == [first |-> buff + 1, last |-> e]
<1>1. /\ text \in Seq({"d", "s"}) /\ buff \in Nat /\ bufflen \in Nat /\ e \in Nat
      /\ bufflen <= Len(text) - buff /\ Len(text) \in Nat
  BY SMT DEF TableTypeOK
<1>2. num \in Atoi
  <2>1. /\ buff + 1 \in buff + 1 .. buff + bufflen
        /\ e \in buff + 1 .. buff + bufflen
    BY <1>1, SMT
  <2>2. num \in [first : buff + 1 .. buff + bufflen, last : buff + 1 .. buff + bufflen]
    BY <2>1
  <2>3. num.first = buff + 1 /\ num.last = e
    OBVIOUS
  <2>4. num.last < buff + bufflen => text[num.last + 1] = "s"
    BY <1>1, <2>3, SMT
  <2>5. num.first <= num.last
    BY <1>1, <2>3, SMT
  <2>6. \A i \in buff + 1 .. num.first - 1 : text[i] = "s"
    BY <1>1, <2>3, SMT
  <2>7. QED
    BY <2>2, <2>3, <2>4, <2>5, <2>6 DEF Atoi
<1>3. ASSUME NEW n \in Atoi PROVE n = num
  <2>1. /\ n \in [first : buff + 1 .. buff + bufflen, last : buff + 1 .. buff + bufflen]
        /\ n.first <= n.last
        /\ \A i \in buff + 1 .. n.first - 1 : text[i] = "s"
        /\ \A i \in n.first .. n.last : text[i] = "d"
        /\ n.last < buff + bufflen => text[n.last + 1] = "s"
    BY DEF Atoi
  <2>2. n.first \in buff + 1 .. buff + bufflen /\ n.last \in buff + 1 .. buff + bufflen
    BY <2>1
  <2>3. n.first = buff + 1
    <3>1. SUFFICES ASSUME n.first # buff + 1 PROVE FALSE
      OBVIOUS
    <3>2. buff + 1 \in buff + 1 .. n.first - 1 /\ buff + 1 \in buff + 1 .. e
      BY <3>1, <2>2, <1>1, SMT
    <3>3. QED
      BY <3>2, <2>1
  <2>4. n.last = e
    <3>1. CASE n.last < e
      <4>1. n.last + 1 \in buff + 1 .. e /\ n.last < buff + bufflen
        BY <3>1, <2>2, <1>1, SMT
      <4>2. QED
        BY <4>1, <2>1
    <3>2. CASE n.last > e
      <4>1. e < Len(text) /\ e + 1 \in n.first .. n.last
        BY <3>2, <2>2, <2>3, <1>1, SMT
      <4>2. QED
        BY <4>1, <2>1
    <3>3. QED
      BY <3>1, <3>2, <2>2, <1>1, SMT
  <2>5. QED
    BY <2>1, <2>3, <2>4
<1>4. QED
  BY <1>2, <1>3

\* The chunk's number is the next one of the file: with it the table holds all
\* up to the new offset.
LEMMA HoldsNext ==
    ASSUME TableTypeOK, NEW e \in buff + 1 .. Len(text),
           Boundary(text, buff), HoldsNumbersUpTo(buff),
           \A i \in buff + 1 .. e : text[i] = "d",
           e < Len(text) => text[e + 1] = "s",
           NEW o \in e .. e + 1,
           freq_list' = Append(freq_list, [first |-> buff + 1, last |-> e]),
           text' = text
    PROVE  HoldsNumbersUpTo(o)'
<1> DEFINE num == [first |-> buff + 1, last |-> e]
<1> DEFINE len == Len(freq_list)
<1>1. /\ text \in Seq({"d", "s"}) /\ buff \in Nat /\ e \in Nat /\ Len(text) \in Nat
      /\ freq_list \in Seq(Number) /\ len \in Nat
  BY SMT DEF TableTypeOK
<1>2. /\ num \in Number /\ num.first = buff + 1 /\ num.last = e
  BY <1>1, SMT DEF Number
<1>3. /\ Len(freq_list') = len + 1
      /\ \A i \in 1 .. len : freq_list'[i] = freq_list[i]
      /\ freq_list'[len + 1] = num
  BY <1>1, <1>2, SMT
<1>4. Numbers' = Numbers
  BY DEF Numbers, Firsts, Lasts, Ends
<1>5. buff > 0 => text[buff] = "s"
  BY <1>1, SMT DEF Boundary
<1>6. num \in Numbers
  <2>1. buff + 1 \in Firsts
    <3>1. buff + 1 \in 1 .. Len(text) /\ buff + 1 \in buff + 1 .. e
      BY <1>1, SMT
    <3>2. buff + 1 > 1 => text[(buff + 1) - 1] = "s"
      BY <1>1, <1>5, SMT
    <3>3. QED
      BY <3>1, <3>2 DEF Firsts
  <2>2. e \in Lasts
    <3>1. e \in 1 .. Len(text) /\ e \in buff + 1 .. e
      BY <1>1, SMT
    <3>2. QED
      BY <3>1 DEF Lasts, Ends
  <2>3. QED
    BY <2>1, <2>2, <1>1, <1>2, SMT DEF Numbers
<1>7. \A i \in 1 .. len : /\ freq_list[i] \in Numbers /\ freq_list[i].last <= buff
                          /\ freq_list[i].last \in Int
  <2>1. \A i \in 1 .. len : freq_list[i] \in Number
    BY <1>1
  <2>2. QED
    BY <2>1 DEF HoldsNumbersUpTo, Number
<1>8. \A n \in Numbers : (n.last <= o /\ ~(n.last <= buff)) => n = num
  <2>1. SUFFICES ASSUME NEW n \in Numbers, n.last <= o, ~(n.last <= buff)
                 PROVE  n = num
    OBVIOUS
  <2>2. /\ n \in [first : Firsts, last : Lasts] /\ n.first <= n.last
        /\ \A i \in n.first .. n.last : text[i] = "d"
    BY DEF Numbers
  <2>3. n.first \in Firsts /\ n.last \in Lasts
    BY <2>2
  <2>4. /\ n.first \in 1 .. Len(text) /\ n.last \in 1 .. Len(text)
        /\ n.first > 1 => text[n.first - 1] = "s"
        /\ n.last < Len(text) => text[n.last + 1] = "s"
    BY <2>3 DEF Firsts, Lasts, Ends
  <2>5. n.first >= buff + 1
    <3>1. SUFFICES ASSUME n.first <= buff PROVE FALSE
      BY <2>4, <1>1, SMT
    <3>2. buff \in n.first .. n.last /\ buff > 0
      BY <3>1, <2>1, <2>4, <1>1, SMT
    <3>3. QED
      BY <3>2, <2>2, <1>5
  <2>6. n.first <= e
    <3>1. SUFFICES ASSUME n.first > e PROVE FALSE
      BY <2>4, <1>1, SMT
    <3>2. e < Len(text) /\ e + 1 \in n.first .. n.last
      BY <3>1, <2>1, <2>2, <2>4, <1>1, SMT
    <3>3. QED
      BY <3>2, <2>2
  <2>7. n.first = buff + 1
    <3>1. SUFFICES ASSUME n.first # buff + 1 PROVE FALSE
      OBVIOUS
    <3>2. n.first - 1 \in buff + 1 .. e /\ n.first > 1
      BY <3>1, <2>4, <2>5, <2>6, <1>1, SMT
    <3>3. QED
      BY <3>2, <2>4
  <2>8. n.last = e
    <3>1. CASE n.last < e
      <4>1. n.last + 1 \in buff + 1 .. e /\ n.last < Len(text)
        BY <3>1, <2>1, <2>4, <1>1, SMT
      <4>2. QED
        BY <4>1, <2>4
    <3>2. CASE n.last > e
      <4>1. e < Len(text) /\ e + 1 \in n.first .. n.last
        BY <3>2, <2>4, <2>7, <1>1, SMT
      <4>2. QED
        BY <4>1, <2>2
    <3>3. QED
      BY <3>1, <3>2, <2>4, <1>1, SMT
  <2>9. QED
    BY <2>2, <2>7, <2>8
<1>9. \A i \in 1 .. len + 1 : freq_list'[i] \in Numbers /\ freq_list'[i].last <= o
  <2>1. TAKE i \in 1 .. len + 1
  <2>2. CASE i = len + 1
    BY <2>2, <1>1, <1>2, <1>3, <1>6, SMT
  <2>3. CASE i # len + 1
    <3>1. i \in 1 .. len
      BY <2>1, <2>3, <1>1, SMT
    <3>2. freq_list[i] \in Numbers /\ freq_list[i].last <= buff /\ freq_list[i].last \in Int
      BY <3>1, <1>7
    <3>3. freq_list'[i] = freq_list[i]
      BY <3>1, <1>3
    <3> HIDE DEF len, num
    <3>4. freq_list[i].last <= o
      BY <1>1, <3>2, SMT
    <3>5. QED
      BY <3>2, <3>3, <3>4
  <2>4. QED
    BY <2>2, <2>3
<1>10. \A i, j \in 1 .. len + 1 :
         i < j => freq_list'[i].last < freq_list'[j].first
  <2>1. SUFFICES ASSUME NEW i \in 1 .. len + 1, NEW j \in 1 .. len + 1, i < j
                 PROVE  freq_list'[i].last < freq_list'[j].first
    OBVIOUS
  <2>2. CASE j = len + 1
    BY <2>1, <2>2, <1>1, <1>2, <1>3, <1>7, SMT
  <2>3. CASE j # len + 1
    <3> HIDE DEF len
    <3>1. i \in 1 .. len /\ j \in 1 .. len
      <4>1. len \in Nat /\ i \in 1 .. len + 1 /\ j \in 1 .. len + 1 /\ i < j
        BY <1>1, <2>1
      <4>2. QED
        BY ONLY <4>1, <2>3, SMT
    <3> USE DEF len
    <3>2. freq_list[i].last < freq_list[j].first
      BY <3>1, <2>1 DEF HoldsNumbersUpTo
    <3>3. QED
      BY <3>1, <3>2, <1>3
  <2>4. QED
    BY <2>2, <2>3
<1>11. \A n \in Numbers : n.last <= o => \E i \in 1 .. len + 1 : freq_list'[i] = n
  <2>1. SUFFICES ASSUME NEW n \in Numbers, n.last <= o
                 PROVE  \E i \in 1 .. len + 1 : freq_list'[i] = n
    OBVIOUS
  <2>2. CASE n.last <= buff
    <3>1. PICK i \in 1 .. len : freq_list[i] = n
      BY <2>2 DEF HoldsNumbersUpTo
    <3>2. QED
      BY <3>1, <1>1, <1>3, SMT
  <2>3. CASE ~(n.last <= buff)
    <3>1. n = num
      BY <2>1, <2>3, <1>8
    <3>2. len + 1 \in 1 .. len + 1
      BY <1>1, SMT
    <3>3. QED
      BY <3>1, <3>2, <1>3
  <2>4. QED
    BY <2>2, <2>3
<1>12. QED
  BY <1>3, <1>4, <1>9, <1>10, <1>11 DEF HoldsNumbersUpTo

-----------------------------------------------------------------------------
(* The steps. *)

\* At the start nothing is read and nothing stored.
LEMMA TableInitInv == TableInit => TableInv
<1> SUFFICES ASSUME TableInit PROVE TableInv
  OBVIOUS
<1>1. Readable(text) /\ text \in Seq({"d", "s"}) /\ Len(text) \in Nat
  <2>1. Readable(text)
    BY TableAssumption DEF TableInit
  <2>2. text \in Seq({"d", "s"})
    BY <2>1 DEF Readable
  <2>3. QED
    BY <2>1, <2>2, SMT
<1>2. TableTypeOK
  BY <1>1, SMT DEF TableInit, TableTypeOK
<1>3. HoldsNumbersUpTo(0)
  <2>1. \A n \in Numbers : ~(n.last <= 0)
    BY <1>1, SMT DEF Numbers, Lasts, Ends
  <2>2. Len(freq_list) = 0
    BY DEF TableInit
  <2>3. QED
    BY <2>1, <2>2, SMT DEF HoldsNumbersUpTo
<1>4. QED
  BY <1>1, <1>2, <1>3 DEF TableInv, TableInit, Boundary

\* A chunk is read where a number begins.
LEMMA ReadChunkInv == TableInv /\ ReadChunk => TableInv'
<1> SUFFICES ASSUME TableInv, ReadChunk PROVE TableInv'
  OBVIOUS
<1>1. /\ TableTypeOK /\ Readable(text) /\ at = "read"
      /\ Boundary(text, offset) /\ HoldsNumbersUpTo(offset)
  BY DEF TableInv, ReadChunk
<1>2. /\ text \in Seq({"d", "s"}) /\ Len(text) \in Nat /\ offset \in 0 .. Len(text)
  BY <1>1, SMT DEF TableTypeOK
<1>3. ReadBytes(offset) \in 0 .. Len(text) - offset
  BY <1>2, ReadBytesType
<1>4. /\ buff' = offset /\ bufflen' = ReadBytes(offset)
      /\ offset' = offset + ReadBytes(offset) /\ ptr' = 0 /\ at' = "scan"
      /\ text' = text /\ opened' = opened /\ freq_list' = freq_list
  BY DEF ReadChunk
<1>5. TableTypeOK'
  <2>1. offset + ReadBytes(offset) \in 0 .. Len(text)
    BY <1>2, <1>3, SMT
  <2>2. 0 \in 0 .. ReadBytes(offset)
    BY <1>2, <1>3, SMT
  <2>3. QED
    BY <1>1, <1>2, <1>3, <1>4, <2>1, <2>2 DEF TableTypeOK
<1>7. HoldsNumbersUpTo(buff)'
  <2>1. Numbers' = Numbers
    BY <1>4 DEF Numbers, Firsts, Lasts, Ends
  <2>2. QED
    BY <1>1, <1>4, <2>1 DEF HoldsNumbersUpTo
<1>8. (bufflen = ReadBytes(buff))' /\ Boundary(text, buff)'
  BY <1>1, <1>4 DEF ReadBytes, Boundary
<1>9. ScanInv'
  BY <1>2, <1>3, <1>4, SMT DEF ScanInv
<1>10. QED
  BY <1>1, <1>4, <1>5, <1>7, <1>8, <1>9 DEF TableInv, Readable, Boundary

\* A separator moves the offset behind itself, but for one in the last byte, which
\* leaves it where it is.
LEMMA ScanStepInv == TableInv /\ Scan => TableInv'
<1> SUFFICES ASSUME TableInv, Scan PROVE TableInv'
  OBVIOUS
<1>1. /\ TableTypeOK /\ Readable(text) /\ at = "scan"
      /\ Boundary(text, buff) /\ HoldsNumbersUpTo(buff)
      /\ bufflen = ReadBytes(buff) /\ ScanInv
  BY DEF TableInv, Scan
<1>2. /\ text \in Seq({"d", "s"}) /\ Len(text) \in Nat /\ offset \in 0 .. Len(text)
      /\ buff \in 0 .. Len(text) /\ bufflen \in 0 .. Len(text) - buff
      /\ ptr \in 0 .. bufflen /\ ptr < bufflen
  BY <1>1, SMT DEF TableTypeOK, Scan
<1> DEFINE target == offset + (ptr - bufflen + 1)
<1>3. /\ offset' = IF text[buff + ptr + 1] = "s" /\ target >= 0 THEN target ELSE offset
      /\ ptr' = ptr + 1
      /\ UNCHANGED <<text, opened, buff, bufflen, freq_list, at>>
  BY DEF Scan
<1>4. buff \in 0 .. Len(text) - 1 /\ bufflen > 0
  BY <1>2, SMT
<1>5. offset' \in 0 .. Len(text)
  BY <1>2, <1>3, SMT
<1>6. TableTypeOK'
  <2>1. ptr + 1 \in 0 .. bufflen
    BY <1>2, SMT
  <2>2. QED
    BY <1>1, <1>3, <1>5, <2>1 DEF TableTypeOK
<1>7. ScanInv'
  <2>1. CASE text[buff + ptr + 1] # "s"
    <3>1. offset' = offset
      BY <2>1, <1>3
    <3>2. CASE \E k \in 1 .. ptr :
                 k < bufflen /\ text[buff + k] = "s" /\ offset = buff + k
      <4>1. PICK k \in 1 .. ptr :
                 k < bufflen /\ text[buff + k] = "s" /\ offset = buff + k
        BY <3>2
      <4>2. k \in 1 .. ptr + 1
        BY <1>2, SMT
      <4>3. QED
        BY <4>1, <4>2, <3>1, <1>3 DEF ScanInv
    <3>3. CASE /\ offset = buff + bufflen
               /\ \A k \in 1 .. ptr : text[buff + k] = "s" => k = bufflen
      <4>1. \A k \in 1 .. ptr + 1 : text[buff + k] = "s" => k = bufflen
        <5>1. TAKE k \in 1 .. ptr + 1
        <5>2. k \in 1 .. ptr \/ (k = ptr + 1 /\ buff + k = buff + ptr + 1)
          BY <1>2, SMT
        <5>3. QED
          BY <5>2, <3>3, <2>1
      <4>2. QED
        BY <4>1, <3>1, <3>3, <1>3 DEF ScanInv
    <3>4. QED
      BY <3>2, <3>3, <1>1 DEF ScanInv
  <2>2. CASE text[buff + ptr + 1] = "s" /\ ptr + 1 = bufflen
    <3>1. offset' = offset
      BY <2>2, <1>2, <1>3, SMT
    <3>2. CASE \E k \in 1 .. ptr :
                 k < bufflen /\ text[buff + k] = "s" /\ offset = buff + k
      <4>1. PICK k \in 1 .. ptr :
                 k < bufflen /\ text[buff + k] = "s" /\ offset = buff + k
        BY <3>2
      <4>2. k \in 1 .. ptr + 1
        BY <1>2, SMT
      <4>3. QED
        BY <4>1, <4>2, <3>1, <1>3 DEF ScanInv
    <3>3. CASE /\ offset = buff + bufflen
               /\ \A k \in 1 .. ptr : text[buff + k] = "s" => k = bufflen
      <4>1. \A k \in 1 .. ptr + 1 : text[buff + k] = "s" => k = bufflen
        BY <3>3, <2>2, <1>2, SMT
      <4>2. QED
        BY <4>1, <3>1, <3>3, <1>3 DEF ScanInv
    <3>4. QED
      BY <3>2, <3>3, <1>1 DEF ScanInv
  <2>3. CASE text[buff + ptr + 1] = "s" /\ ptr + 1 # bufflen
    <3>1. ptr + 1 \in 1 .. bufflen - 1 /\ buff + (ptr + 1) = buff + ptr + 1
      BY <2>3, <1>2, SMT
    <3>2. ~ \E k \in 1 .. ptr :
              k < bufflen /\ text[buff + k] = "s" /\ offset = buff + k
      <4>1. SUFFICES ASSUME NEW k \in 1 .. ptr, k < bufflen, text[buff + k] = "s"
                     PROVE  FALSE
        OBVIOUS
      <4>2. k \in 1 .. bufflen - 1 /\ k # ptr + 1
        BY <4>1, <1>2, SMT
      <4>3. k = ptr + 1
        BY <3>1, <2>3, <4>1, <4>2, <1>1, <1>4, OneSeparator
      <4>4. QED
        BY <4>2, <4>3
    <3>3. offset = buff + bufflen
      BY <3>2, <1>1 DEF ScanInv
    <3>4. offset' = buff + (ptr + 1)
      BY <3>3, <2>3, <1>2, <1>3, SMT
    <3>5. ptr + 1 \in 1 .. ptr + 1 /\ ptr + 1 < bufflen
      BY <3>1, <1>2, SMT
    <3>6. QED
      BY <3>1, <3>4, <3>5, <2>3, <1>3 DEF ScanInv
  <2>4. QED
    BY <2>1, <2>2, <2>3
<1>8. HoldsNumbersUpTo(buff)'
  <2>1. Numbers' = Numbers
    BY <1>3 DEF Numbers, Firsts, Lasts, Ends
  <2>2. QED
    BY <1>1, <1>3, <2>1 DEF HoldsNumbersUpTo
<1>9. (bufflen = ReadBytes(buff))' /\ Boundary(text, buff)' /\ Readable(text)'
  BY <1>1, <1>3 DEF ReadBytes, Boundary, Readable
<1>10. QED
  BY <1>1, <1>3, <1>6, <1>7, <1>8, <1>9 DEF TableInv

\* The chunk's number is stored, or the file was at its end.
LEMMA StoreInv == TableInv /\ Store => TableInv'
<1> SUFFICES ASSUME TableInv, Store PROVE TableInv'
  OBVIOUS
<1>1. /\ TableTypeOK /\ Readable(text) /\ at = "scan" /\ ptr = bufflen
      /\ Boundary(text, buff) /\ HoldsNumbersUpTo(buff)
      /\ bufflen = ReadBytes(buff) /\ ScanInv
  BY DEF TableInv, Store
<1>2. /\ text \in Seq({"d", "s"}) /\ Len(text) \in Nat /\ offset \in 0 .. Len(text)
      /\ buff \in 0 .. Len(text) /\ bufflen \in 0 .. Len(text) - buff
      /\ freq_list \in Seq(Number)
  BY <1>1, SMT DEF TableTypeOK
<1>3. /\ at' = IF bufflen > 0 THEN "read" ELSE "done"
      /\ UNCHANGED <<text, opened, offset, buff, bufflen, ptr>>
  BY DEF Store
<1>4. Readable(text)'
  BY <1>1, <1>3 DEF Readable
<1>5. CASE bufflen = 0
  <2>1. Atoi = {}
    BY <1>5, <1>2, SMT DEF Atoi
  <2>2. freq_list' = freq_list /\ at' = "done"
    BY <2>1, <1>3, <1>5 DEF Store
  <2>3. buff = Len(text)
    BY <1>1, <1>2, <1>5, ReadBytesType
  <2>4. HoldsNumbersUpTo(Len(text))'
    <3>1. Numbers' = Numbers
      BY <1>3 DEF Numbers, Firsts, Lasts, Ends
    <3>2. QED
      BY <1>1, <1>3, <2>2, <2>3, <3>1 DEF HoldsNumbersUpTo
  <2>5. TableTypeOK'
    BY <1>1, <1>3, <2>2 DEF TableTypeOK
  <2>6. QED
    BY <2>2, <2>4, <2>5, <1>4 DEF TableInv
<1>6. CASE bufflen > 0
  <2>1. PICK e \in buff + 1 .. Len(text) :
             /\ \A i \in buff + 1 .. e : text[i] = "d"
             /\ e <= buff + bufflen
             /\ \/ e = Len(text) /\ offset = e
                \/ e < Len(text) /\ text[e + 1] = "s" /\ offset = e + 1
    BY <1>1, <1>6, ScannedNumber
  <2>2. e \in Nat /\ offset \in e .. e + 1 /\ (e < Len(text) => text[e + 1] = "s")
    BY <2>1, <1>2, SMT
  <2>3. Atoi = {[first |-> buff + 1, last |-> e]}
    BY <1>1, <2>1, <2>2, AtoiIsTheNumber
  <2>4. freq_list' = Append(freq_list, [first |-> buff + 1, last |-> e]) /\ at' = "read"
    BY <2>3, <1>3, <1>6 DEF Store
  <2>5. HoldsNumbersUpTo(offset)'
    <3>1. \A o \in e .. e + 1 : HoldsNumbersUpTo(o)'
      BY <1>1, <1>3, <2>1, <2>2, <2>4, HoldsNext
    <3>2. \A o \in e .. e + 1 :
            /\ \A i \in 1 .. Len(freq_list') :
                 freq_list'[i] \in Numbers' /\ freq_list'[i].last <= o
            /\ \A i, j \in 1 .. Len(freq_list') :
                 i < j => freq_list'[i].last < freq_list'[j].first
            /\ \A n \in Numbers' :
                 n.last <= o => \E i \in 1 .. Len(freq_list') : freq_list'[i] = n
      BY <3>1 DEF HoldsNumbersUpTo
    <3>3. offset' \in e .. e + 1
      BY <2>2, <1>3
    <3>4. QED
      BY <3>2, <3>3 DEF HoldsNumbersUpTo
  <2>6. TableTypeOK'
    <3>1. [first |-> buff + 1, last |-> e] \in Number
      BY <1>2, <2>2, SMT DEF Number
    <3>2. freq_list' \in Seq(Number)
      BY <1>2, <2>4, <3>1, SMT
    <3>3. QED
      BY <1>1, <1>3, <2>4, <3>2 DEF TableTypeOK
  <2>7. Boundary(text, offset)'
    BY <2>1, <1>3, SMT DEF Boundary
  <2>8. QED
    BY <2>4, <2>5, <2>6, <2>7, <1>4 DEF TableInv
<1>7. QED
  BY <1>2, <1>5, <1>6, SMT

\* Every step keeps the invariant.
LEMMA TableNextInv == TableInv /\ [TableNext]_tableVars => TableInv'
<1> SUFFICES ASSUME TableInv, [TableNext]_tableVars PROVE TableInv'
  OBVIOUS
<1>1. CASE ReadChunk
  BY <1>1, ReadChunkInv
<1>2. CASE ReadFails \/ UNCHANGED tableVars
  <2>1. UNCHANGED tableVars
    BY <1>2 DEF ReadFails
  <2>2. QED
    BY <2>1 DEF tableVars, TableInv, TableTypeOK, Readable, Boundary, HoldsNumbersUpTo,
                Numbers, Firsts, Lasts, Ends, ReadBytes, ScanInv
<1>3. CASE Scan
  BY <1>3, ScanStepInv
<1>4. CASE Store
  BY <1>4, StoreInv
<1>5. QED
  BY <1>1, <1>2, <1>3, <1>4 DEF TableNext

\* The invariant holds in every reachable state.
LEMMA AlwaysInv == TableSpec => []TableInv
<1>1. TableInit => TableInv
  BY TableInitInv
<1>2. TableInv /\ [TableNext]_tableVars => TableInv'
  BY TableNextInv
<1>3. QED
  BY <1>1, <1>2, PTL DEF TableSpec

\* Numbers that are stored once each are no more than there are in the text.
LEMMA RoomInTheList ==
    ASSUME TableTypeOK, Readable(text), NEW o \in Int, HoldsNumbersUpTo(o)
    PROVE  Len(freq_list) <= ListSize
<1> DEFINE len == Len(freq_list)
           last == [i \in 1 .. len |-> freq_list[i].last]
<1>1. len \in Nat /\ Len(text) \in Nat
  BY DEF TableTypeOK
<1>2. \A i \in 1 .. len : /\ last[i] \in Lasts /\ last[i] \in Int
                          /\ freq_list[i].first \in Int
                          /\ freq_list[i].first <= last[i]
  BY <1>1 DEF HoldsNumbersUpTo, Numbers, Firsts, Lasts, Ends
<1>3. \A i, j \in 1 .. len : i < j => last[i] < freq_list[j].first
  BY DEF HoldsNumbersUpTo
<1>4. \A i, j \in 1 .. len : last[i] = last[j] => i = j
  <2> SUFFICES ASSUME NEW i \in 1 .. len, NEW j \in 1 .. len, i < j
               PROVE  last[i] # last[j]
    BY <1>1
  <2>1. last[i] < freq_list[j].first /\ freq_list[j].first <= last[j]
    BY <1>2, <1>3
  <2> HIDE DEF last, len
  <2> QED BY <1>2, <2>1
<1>5. last \in [1 .. len -> Lasts]
  BY <1>2
<1>6. last \in Injection(1 .. len, Lasts)
  BY <1>4, <1>5 DEF Injection, IsInjective
<1>7. IsFiniteSet(Lasts) /\ Cardinality(1 .. len) = len
  <2>1. IsFiniteSet(1 .. Len(text)) /\ Lasts \subseteq 1 .. Len(text)
    BY <1>1, FS_Interval DEF Lasts, Ends
  <2>2. IsFiniteSet(Lasts) BY <2>1, FS_Subset
  <2>3. Cardinality(1 .. len) = IF 1 > len THEN 0 ELSE len - 1 + 1
    <3> HIDE DEF len
    <3> QED BY <1>1, FS_Interval
  <2> QED BY <1>1, <2>2, <2>3
<1>8. Cardinality(1 .. len) <= Cardinality(Lasts)
  BY <1>6, <1>7, FS_Injection
<1>9. Cardinality(Lasts) <= ListSize
  BY DEF Readable, Lasts
<1>10. Cardinality(Lasts) \in Nat
  BY <1>7, FS_CardinalityType
<1> HIDE DEF len
<1>11. len <= ListSize
  BY <1>1, <1>7, <1>8, <1>9, <1>10, TableAssumption
<1> QED BY <1>11 DEF len

\* What the invariant says of the numbers stored so far.
LEMMA InvImpliesRead == TableInv => FrequenciesRead
<1> SUFFICES ASSUME TableInv PROVE FrequenciesRead
  OBVIOUS
<1>1. /\ TableTypeOK /\ at \in {"read", "scan", "done"}
      /\ freq_list \in Seq(Number)
  BY DEF TableInv, TableTypeOK
<1>2. TableRead => HoldsNumbersUpTo(Len(text))
  BY DEF TableInv, TableRead
<1>3. \E o \in Int : HoldsNumbersUpTo(o)
  <2>1. offset \in Int /\ buff \in Int /\ Len(text) \in Int
    BY <1>1, SMT DEF TableTypeOK
  <2>2. QED
    BY <2>1, <1>1 DEF TableInv
<1>4. PICK o \in Int : HoldsNumbersUpTo(o)
  BY <1>3
<1>5. HoldsNumbersUpTo(LastStored)
  <2>1. CASE freq_list = <<>>
    <3>1. LastStored = 0 /\ Len(freq_list) = 0
      BY <2>1 DEF LastStored
    <3>2. \A n \in Numbers : ~(n.last <= 0)
      BY <1>1, SMT DEF Numbers, Lasts, Ends, TableTypeOK
    <3>3. QED
      BY <3>1, <3>2, SMT DEF HoldsNumbersUpTo
  <2>2. CASE freq_list # <<>>
    <3> DEFINE len == Len(freq_list)
    <3>1. len \in Nat /\ len \in 1 .. len /\ LastStored = freq_list[len].last
      BY <2>2, <1>1, SMT DEF LastStored
    <3>2. \A i \in 1 .. len : freq_list[i] \in Number
      BY <1>1
    <3>3. \A n \in Numbers : n.first <= n.last /\ n.first \in Int /\ n.last \in Int
      BY <1>1, SMT DEF Numbers, Firsts, Lasts, Ends, TableTypeOK
    <3>4. \A i \in 1 .. len : freq_list[i] \in Numbers /\ freq_list[i].last <= o
      BY <1>4 DEF HoldsNumbersUpTo
    <3>5. \A i, j \in 1 .. len : i < j => freq_list[i].last < freq_list[j].first
      BY <1>4 DEF HoldsNumbersUpTo
    <3>6. \A i \in 1 .. len : freq_list[i].last <= LastStored
      <4>1. TAKE i \in 1 .. len
      <4>2. i = len \/ i < len
        BY <3>1, SMT
      <4>3. /\ freq_list[i].last \in Int /\ freq_list[len].last \in Int
            /\ freq_list[len].first \in Int
            /\ freq_list[len].first <= freq_list[len].last
        BY <3>1, <3>3, <3>4
      <4>4. CASE i = len
        BY <4>3, <4>4, <3>1, SMT
      <4>5. CASE i < len
        <5>1. freq_list[i].last < freq_list[len].first
          BY <4>5, <3>1, <3>5
        <5>2. QED
          BY <5>1, <4>3, <3>1, SMT
      <4>6. QED
        BY <4>2, <4>4, <4>5
    <3>7. LastStored <= o /\ LastStored \in Int
      BY <3>1, <3>3, <3>4
    <3>8. ASSUME NEW n \in Numbers, n.last <= LastStored
          PROVE  \E i \in 1 .. len : freq_list[i] = n
      <4>1. n.last <= o
        BY <3>3, <3>7, <3>8, SMT
      <4>2. QED
        BY <4>1, <1>4 DEF HoldsNumbersUpTo
    <3>9. QED
      BY <3>4, <3>5, <3>6, <3>8 DEF HoldsNumbersUpTo
  <2>3. QED
    BY <2>1, <2>2
<1>6. Len(freq_list) <= ListSize
  BY <1>4, RoomInTheList DEF TableInv
<1>7. QED
  BY <1>2, <1>5, <1>6 DEF FrequenciesRead

\* Reading the table in rewound chunks loses, splits and repeats no frequency,
\* for every readable text and every size of the buffer (governor.c:41-55).
THEOREM FrequenciesReadAlways == TableSpec => []FrequenciesRead
<1>1. TableInv => FrequenciesRead
  BY InvImpliesRead
<1>2. QED
  BY <1>1, AlwaysInv, PTL

\* The offset stays in the file whatever the scan rewinds, and the buffer holds
\* bytes of the file only.
THEOREM TableTypeCorrect == TableSpec => []TableTypeOK
<1>1. TableInv => TableTypeOK
  BY DEF TableInv
<1>2. QED
  BY <1>1, AlwaysInv, PTL

-----------------------------------------------------------------------------
(* Reading the table goes on: what there is in ReadingEnds besides fairness. *)

\* The calls and characters that are still to come at most: a turn takes no more
\* than two steps and one for each byte of the buffer, and moves on by a byte.
StillToCome ==
    CASE at = "read" -> (Len(text) - offset) * (buffsize + 3) + buffsize + 2
      [] at = "scan" -> (Len(text) - buff) * (buffsize + 3) + (bufflen - ptr) + 1
      [] at = "done" -> 0

ReadingGoesOn == [][StillToCome' < StillToCome]_tableVars

LEMMA Product ==
    ASSUME NEW k \in Nat, NEW a \in Nat, NEW b \in Nat
    PROVE  /\ a * k \in Nat /\ b * k \in Nat
           /\ a < b => a * k + k <= b * k
<1>1. a * k \in Nat /\ b * k \in Nat
  OBVIOUS
<1>2. ASSUME a < b PROVE a * k + k <= b * k
  <2>1. PICK c \in Nat : b = a + 1 + c
    <3>1. b - a - 1 \in Nat /\ b = a + 1 + (b - a - 1)
      BY <1>2
    <3> QED BY <3>1
  <2>2. b * k = a * k + k + c * k /\ c * k \in Nat
    BY <2>1
  <2> QED BY <1>1, <2>2
<1> QED BY <1>1, <1>2

LEMMA TableMovesOn ==
    ASSUME TableInv, TableNext, tableVars' # tableVars
    PROVE  StillToCome' < StillToCome
<1> DEFINE k == buffsize + 3
           L == Len(text)
<1>1. /\ L \in Nat /\ offset \in 0 .. L /\ buff \in 0 .. L
      /\ bufflen \in 0 .. L - buff /\ ptr \in 0 .. bufflen
      /\ text \in Seq({"d", "s"}) /\ buffsize \in Nat \ {0} /\ k = buffsize + 3
  BY TableAssumption DEF TableInv, TableTypeOK
<1>2. text' = text /\ L' = L
  BY DEF TableNext, ReadChunk, ReadFails, Scan, Store, tableVars
<1>3. /\ at = "read" => StillToCome = (L - offset) * k + buffsize + 2
      /\ at = "scan" => StillToCome = (L - buff) * k + (bufflen - ptr) + 1
  BY DEF StillToCome
<1>4. /\ at' = "read" => StillToCome' = (L - offset') * k + buffsize + 2
      /\ at' = "scan" => StillToCome' = (L - buff') * k + (bufflen' - ptr') + 1
      /\ at' = "done" => StillToCome' = 0
  BY <1>2 DEF StillToCome
<1>5. (L - offset) * k \in Nat /\ (L - buff) * k \in Nat
  BY <1>1, Product
<1>6. buff < offset => (L - offset) * k + k <= (L - buff) * k
  BY <1>1, Product
<1> HIDE DEF k, L
<1>7. CASE ReadChunk
  <2>1. /\ at = "read" /\ at' = "scan" /\ buff' = offset
        /\ bufflen' = ReadBytes(offset) /\ ptr' = 0
    BY <1>7 DEF ReadChunk
  <2>2. ReadBytes(offset) \in Nat /\ ReadBytes(offset) <= buffsize
    BY <1>1, ReadBytesType DEF L
  <2>3. (L - buff') * k = (L - offset) * k
    BY <2>1
  <2> QED BY <1>1, <1>3, <1>4, <1>5, <2>1, <2>2, <2>3
<1>8. CASE Scan
  <2>1. /\ at = "scan" /\ at' = "scan" /\ ptr < bufflen
        /\ buff' = buff /\ bufflen' = bufflen /\ ptr' = ptr + 1
    BY <1>8 DEF Scan
  <2>2. (L - buff') * k = (L - buff) * k
    BY <2>1
  <2> QED BY <1>1, <1>3, <1>4, <1>5, <2>1, <2>2
<1>9. CASE Store
  <2>1. /\ at = "scan" /\ ptr = bufflen
        /\ at' = IF bufflen > 0 THEN "read" ELSE "done"
        /\ offset' = offset /\ (L - offset') * k = (L - offset) * k
    BY <1>9 DEF Store
  <2>2. CASE bufflen = 0
    BY <1>1, <1>3, <1>4, <1>5, <2>1, <2>2
  <2>3. CASE bufflen > 0
    <3>1. buff < offset
      BY <1>1, <2>1, <2>3, ScannedNumber
    <3>2. (L - offset) * k + k <= (L - buff) * k
      BY <1>6, <3>1
    <3>3. /\ StillToCome' = (L - offset) * k + buffsize + 2
          /\ StillToCome = (L - buff) * k + 1
      BY <1>1, <1>3, <1>4, <2>1, <2>3
    <3> QED BY <1>1, <1>5, <3>2, <3>3
  <2> QED BY <1>1, <2>2, <2>3
<1> QED BY <1>7, <1>8, <1>9 DEF TableNext, ReadFails

\* However often the scan rewinds the file, each step of the loop over the table
\* brings its end closer (governor.c:41-55): an open file is read to the end in
\* at most (Len(text) + 1) * (buffsize + 3) steps.
THEOREM ReadingAlwaysGoesOn == TableSpec => [](StillToCome \in Nat) /\ ReadingGoesOn
<1>1. TableInv => StillToCome \in Nat
  <2> SUFFICES ASSUME TableInv PROVE StillToCome \in Nat
    OBVIOUS
  <2>1. /\ Len(text) \in Nat /\ Len(text) - offset \in Nat /\ Len(text) - buff \in Nat
        /\ bufflen - ptr \in Nat /\ buffsize \in Nat /\ buffsize + 3 \in Nat
        /\ at \in {"read", "scan", "done"}
    BY TableAssumption DEF TableInv, TableTypeOK
  <2>2. /\ (Len(text) - offset) * (buffsize + 3) \in Nat
        /\ (Len(text) - buff) * (buffsize + 3) \in Nat
    BY <2>1, Product
  <2>3. /\ at = "read" => StillToCome = (Len(text) - offset) * (buffsize + 3) + buffsize + 2
        /\ at = "scan" => StillToCome = (Len(text) - buff) * (buffsize + 3) + (bufflen - ptr) + 1
        /\ at = "done" => StillToCome = 0
    BY DEF StillToCome
  <2> DEFINE toRead == (Len(text) - offset) * (buffsize + 3)
             toScan == (Len(text) - buff) * (buffsize + 3)
  <2>4. toRead \in Nat /\ toScan \in Nat
    BY <2>2
  <2> HIDE DEF toRead, toScan
  <2>5. toRead + buffsize + 2 \in Nat /\ toScan + (bufflen - ptr) + 1 \in Nat
    BY <2>1, <2>4
  <2> QED BY <2>1, <2>3, <2>5 DEF toRead, toScan
<1>2. TableInv /\ [TableNext]_tableVars => [StillToCome' < StillToCome]_tableVars
  BY TableMovesOn
<1> QED BY <1>1, <1>2, AlwaysInv, PTL DEF TableSpec, ReadingGoesOn

-----------------------------------------------------------------------------
(* The records of rawdata.bin.  Its two sides count calls: `due' is where a  *)
(* call writes if none before it failed, and the reader is always there, in  *)
(* the same turn of the fields, or at the end of the file.                   *)

\* Where the n-th collect function writes, whose field it is, and in which
\* sample; of the next one if it has not been called yet.
DueOf(n) == IF n <= Len(collected) THEN collected[n].due ELSE due

FieldOf(n) ==
    IF n <= Len(collected) THEN collected[n].field
    ELSE IF phase = "measure" THEN field ELSE 1

SampleOf(n) == IF n <= Len(collected) THEN collected[n].sample ELSE sample

\* The calls follow one another.
CallsInTurn ==
    /\ DueOf(1) = 0 /\ FieldOf(1) = 1 /\ SampleOf(1) = 1
    /\ \A c \in 1 .. Len(collected) :
         /\ DueOf(c + 1) = collected[c].due + Width[collected[c].field]
         /\ FieldOf(c + 1) = IF collected[c].field = NumRawdata THEN 1
                                                                ELSE collected[c].field + 1
         /\ SampleOf(c + 1) = IF collected[c].field = NumRawdata THEN collected[c].sample + 1
                                                                 ELSE collected[c].sample
         /\ collected[c].due < due
         /\ collected[c].sample <= sample
         /\ collected[c].chars \in {FAILED, SPILLED} \cup Shown[collected[c].field]

\* Until one fails, each is found where it is due.
WrittenWhereDue ==
    /\ NoneSpilled => size <= due
    /\ NoneFailed(Len(collected)) => size = due
    /\ \A c \in 1 .. Len(collected) : NoneFailed(c) =>
         LET call == collected[c]
         IN  /\ call.due + Width[call.field] <= size
             /\ \A i \in 1 .. Width[call.field] :
                  rawdata[call.due + i] = Written(c, call.field, call.chars, i)

\* The reader keeps step with the calls as far as they go.
ReaderInStep ==
    /\ phase = "measure" => rpos = 0 /\ calls = 0 /\ records = <<>>
    /\ (phase # "measure" /\ calls <= Len(collected)) =>
         /\ field = FieldOf(calls + 1)
         /\ Len(records) = SampleOf(calls + 1) - 1
    /\ NoneSpilled => /\ calls <= Len(collected)
                      /\ rpos = size \/ rpos = DueOf(calls + 1)
    /\ NoneFailed(calls) => calls <= Len(collected) /\ rpos = DueOf(calls + 1)
    /\ phase = "eof" => rpos = size

\* What a cell of the r-th record holds.
IsReading(cell, f, r) ==
    NoneFailed(cell.call) =>
      /\ cell.call \in 1 .. Len(collected)
      /\ collected[cell.call].field = f
      /\ collected[cell.call].sample = r
      /\ Terminated(collected[cell.call]) => cell.value = Reading(cell.call)

CellsAreReadings ==
    /\ \A r \in 1 .. Len(records) : \A f \in Fields : IsReading(records[r][f], f, r)
    /\ phase # "measure" =>
         \A f \in Fields : f < field => IsReading(powerlog[f], f, Len(records) + 1)

RecordsInv ==
    /\ RecordsTypeOK
    /\ CallsInTurn /\ WrittenWhereDue
    /\ ReaderInStep /\ CellsAreReadings

-----------------------------------------------------------------------------
(* What the conversions make of a field. *)

\* What a call is made of.
LEMMA CallTypes ==
    RecordsTypeOK =>
      /\ Len(collected) \in Nat
      /\ \A c \in 1 .. Len(collected) :
           /\ collected[c].sample \in Nat /\ collected[c].due \in Nat
           /\ collected[c].field \in Fields
           /\ Width[collected[c].field] \in Nat \ {0}
<1> DEFINE Calls == [sample : Nat, field : Fields, chars : Outcomes, due : Nat]
<1> SUFFICES ASSUME RecordsTypeOK, NEW c \in 1 .. Len(collected)
             PROVE  /\ collected[c].sample \in Nat /\ collected[c].due \in Nat
                    /\ collected[c].field \in Fields
                    /\ Width[collected[c].field] \in Nat \ {0}
  BY DEF RecordsTypeOK
<1>1. collected \in Seq(Calls) BY DEF RecordsTypeOK
<1> HIDE DEF Calls
<1>2. collected[c] \in Calls BY <1>1
<1> QED BY <1>2, RecordsAssumption DEF Calls

LEMMA BytesReadType ==
    ASSUME RecordsTypeOK
    PROVE  /\ BytesRead \in Nat
           /\ BytesRead <= Width[field] /\ rpos + BytesRead <= size
           /\ \A i \in 1 .. BytesRead : At(i) \in Byte
           /\ BytesRead <= 0 => rpos = size
           /\ BytesRead < Width[field] => rpos + BytesRead = size
<1>1. Width[field] \in Nat \ {0} /\ rpos \in Nat /\ size \in Nat /\ rpos <= size
  BY RecordsAssumption DEF RecordsTypeOK
<1>2. BytesRead \in Nat /\ BytesRead <= Width[field] /\ rpos + BytesRead <= size
  BY <1>1 DEF BytesRead
<1>3. \A i \in 1 .. BytesRead : At(i) \in Byte
  <2> TAKE i \in 1 .. BytesRead
  <2>1. rpos + i \in 1 .. size BY <1>1, <1>2
  <2> QED BY <2>1 DEF At, RecordsTypeOK
<1> QED BY <1>1, <1>2, <1>3 DEF BytesRead

\* Words are within what was read, and numbers are values.
LEMMA WordTypes ==
    ASSUME RecordsTypeOK,
           NEW n \in Nat, n <= BytesRead,
           NEW w \in Words(n)
    PROVE  /\ w.first \in 1 .. n /\ w.last \in 1 .. n
           /\ NumberOf(w) \in Value
<1>1. w \in [first : 1 .. n, last : 1 .. n] BY DEF Words
<1>2. w.first \in 1 .. BytesRead /\ w.last \in 1 .. BytesRead
  BY <1>1, BytesReadType
<1>3. At(w.first) \in Byte /\ At(w.last) \in Byte
  BY <1>2, BytesReadType
<1>4. NumberOf(w) \in Value
  BY <1>3 DEF NumberOf, Byte, Value, Garbage
<1> QED BY <1>1, <1>4

LEMMA ParsedTypes == RecordsTypeOK => Parsed(BytesRead) \subseteq Value
<1> SUFFICES ASSUME RecordsTypeOK, NEW v \in Parsed(BytesRead)
             PROVE  v \in Value
  OBVIOUS
<1> DEFINE n == BytesRead
<1>0. n \in Nat BY BytesReadType
<1>1. Garbage \in Value /\ Zero \in Value BY DEF Garbage, Zero, Value
<1>2. CASE field = Time
  <2>1. v \in Timestamp(n) BY <1>2, RecordsAssumption DEF Parsed
  <2>2. CASE n = Width[Time] /\ v # Garbage
    <3>1. n >= 1 /\ 1 \in 1 .. n
      BY <2>2, RecordsAssumption, Time \in Fields DEF Time, Fields
    <3>2. At(1) \in Byte BY <3>1, BytesReadType
    <3>3. v = [call |-> At(1).call, first |-> 1, last |-> n]
      BY <2>1, <2>2 DEF Timestamp
    <3> QED BY <1>0, <3>2, <3>3 DEF Byte, Value
  <2> QED BY <1>1, <2>1, <2>2 DEF Timestamp
<1>3. CASE field \in Hertz
  <2>1. v \in Megahertz(n) BY <1>3, RecordsAssumption DEF Parsed, Fields
  <2>2. ASSUME NEW i \in 1 .. n, v \in BeforeNul(i - HzDigits) PROVE v \in Value
    <3>1. CASE i - HzDigits < 0 BY <1>1, <2>2, <3>1 DEF BeforeNul
    <3>2. CASE ~(i - HzDigits < 0)
      <4> DEFINE end == i - HzDigits
      <4>1. end \in Nat /\ end <= n BY <1>0, <3>2, RecordsAssumption
      <4>2. v = Zero \/ \E w \in Words(end) : v = NumberOf(w)
        BY <2>2, <3>2 DEF BeforeNul
      <4> HIDE DEF end
      <4> QED BY <1>1, <4>1, <4>2, WordTypes
    <3> QED BY <3>1, <3>2
  <2> QED BY <1>1, <2>1, <2>2 DEF Megahertz
<1>4. CASE field # Time /\ field \notin Hertz
  <2>1. v \in Decimal(n) BY <1>4 DEF Parsed
  <2>2. v = Zero \/ v = Garbage \/ \E w \in Words(n) : v = NumberOf(w)
    BY <2>1 DEF Decimal
  <2> QED BY <1>0, <1>1, <2>2, WordTypes
<1> QED BY <1>2, <1>3, <1>4

\* A text at the front of a field, all of it or with blanks behind it, is one word.
LEMMA OneWord ==
    ASSUME NEW c \in Nat \ {0}, NEW chars \in Nat \ {0}, NEW n \in Nat, chars <= n,
           \A i \in 1 .. chars : At(i) = [call |-> c, pos |-> i],
           \A i \in 1 .. n : chars < i => At(i) = Blank
    PROVE  Words(n) = {[first |-> 1, last |-> chars]}
<1>1. \A i \in 1 .. chars : At(i) # Blank BY DEF Blank
<1>2. ASSUME NEW w \in Words(n) PROVE w = [first |-> 1, last |-> chars]
  <2>1. /\ w \in [first : 1 .. n, last : 1 .. n] /\ w.first <= w.last
        /\ \A i \in 1 .. w.first - 1 : At(i) = Blank
        /\ \A i \in w.first .. w.last : At(i) # Blank
        /\ w.last < n => At(w.last + 1) = Blank
    BY DEF Words
  <2>2. w.first = 1
    <3>1. ~(1 \in 1 .. w.first - 1) BY <1>1, <2>1
    <3> QED BY <2>1, <3>1
  <2>3. w.last <= chars
    <3>1. w.last \in w.first .. w.last /\ w.last \in 1 .. n BY <2>1
    <3> QED BY <2>1, <3>1
  <2>4. w.last >= chars
    <3>1. SUFFICES ASSUME w.last < chars PROVE FALSE BY <2>1
    <3>2. w.last + 1 \in 1 .. chars /\ w.last < n BY <2>1, <3>1
    <3> QED BY <1>1, <2>1, <3>2
  <2> QED BY <2>1, <2>2, <2>3, <2>4
<1>3. [first |-> 1, last |-> chars] \in Words(n)
  <2> DEFINE w == [first |-> 1, last |-> chars]
  <2>1. w \in [first : 1 .. n, last : 1 .. n] /\ w.first = 1 /\ w.last = chars OBVIOUS
  <2>2. chars < n => At(chars + 1) = Blank
    <3>1. chars < n => chars + 1 \in 1 .. n OBVIOUS
    <3> QED BY <3>1
  <2> HIDE DEF w
  <2>3. \A i \in 1 .. w.first - 1 : At(i) = Blank BY <2>1
  <2>4. \A i \in w.first .. w.last : At(i) # Blank BY <1>1, <2>1
  <2> QED BY <2>1, <2>2, <2>3, <2>4 DEF Words
<1> QED BY <1>2, <1>3

\* A conversion that reads the bytes of a call of its own field gives that call's
\* reading.
LEMMA FieldGivesReading ==
    ASSUME RecordsTypeOK,
           NEW c \in 1 .. Len(collected),
           collected[c].field = field,
           collected[c].chars \in Nat,
           Terminated(collected[c]),
           BytesRead = Width[field],
           \A i \in 1 .. Width[field] :
             At(i) = Written(c, field, collected[c].chars, i)
    PROVE  Parsed(BytesRead) \subseteq {Reading(c)}
<1> SUFFICES ASSUME NEW v \in Parsed(BytesRead) PROVE v = Reading(c)
  OBVIOUS
<1> DEFINE n == Width[field]
           chars == collected[c].chars
<1>1. field \in Fields /\ n \in Nat \ {0} /\ chars \in Nat /\ c \in Nat \ {0}
  <2>1. field \in Fields /\ c \in Nat \ {0}
    <3>1. Len(collected) \in Nat BY CallTypes
    <3> QED BY <3>1 DEF RecordsTypeOK
  <2>2. Width[field] \in Nat \ {0}
    BY <2>1, RecordsAssumption
  <2> QED BY <2>1, <2>2
<1>2. BytesRead = n OBVIOUS
<1>3. \A i \in 1 .. n : At(i) = Written(c, field, chars, i) OBVIOUS
<1> HIDE DEF n, chars
<1>4. CASE field = Time
  <2>1. v \in Timestamp(n) BY <1>2, <1>4, RecordsAssumption DEF Parsed
  <2>2. \A i \in 1 .. n : At(i) = [call |-> c, pos |-> i]
    BY <1>3, <1>4 DEF Written
  <2>3. 1 \in 1 .. n BY <1>1
  <2>4. At(1).call = c BY <2>2, <2>3
  <2>5. n = Width[Time] BY <1>4 DEF n
  <2>6. v = [call |-> c, first |-> 1, last |-> n]
    BY <1>4, <2>1, <2>2, <2>4, <2>5 DEF Timestamp
  <2>7. collected[c].field = Time /\ Time \notin Hertz BY <1>4, RecordsAssumption
  <2> QED BY <2>5, <2>6, <2>7 DEF Reading
<1>5. CASE field \notin Hertz /\ field # Time
  <2>1. v \in Decimal(n) BY <1>2, <1>5 DEF Parsed
  <2>2. chars < n /\ chars \in Nat \ {0} BY <1>1, <1>5 DEF Terminated, chars, n
  <2>3. \A i \in 1 .. chars : At(i) = [call |-> c, pos |-> i]
    BY <1>1, <1>3, <2>2 DEF Written
  <2>4. \A i \in 1 .. n : chars < i => At(i) = Blank
    BY <1>1, <1>3, <1>5 DEF Written
  <2>5. Words(n) = {[first |-> 1, last |-> chars]}
    <3>1. chars <= n BY <1>1, <2>2
    <3> QED BY <1>1, <2>2, <2>3, <2>4, <3>1, OneWord, Zenon
  <2>6. NumberOf([first |-> 1, last |-> chars]) = [call |-> c, first |-> 1, last |-> chars]
    BY <1>1, <1>5, <2>2, <2>3 DEF NumberOf
  <2>7. v = NumberOf([first |-> 1, last |-> chars])
    <3>1. Words(n) # {} /\ \A w \in Words(n) :
             w = [first |-> 1, last |-> chars] /\ w.last # n
      BY <1>1, <2>2, <2>5
    <3> QED BY <2>1, <3>1 DEF Decimal
  <2>8. Reading(c) = [call |-> c, first |-> 1, last |-> chars]
    BY <1>5 DEF Reading, chars
  <2> QED BY <2>6, <2>7, <2>8
<1>6. CASE field \in Hertz
  <2>0. field # Time BY <1>6, RecordsAssumption
  <2>1. v \in Megahertz(n) BY <1>2, <1>6, <2>0 DEF Parsed
  <2>2. chars <= n /\ chars > HzDigits /\ chars \in Nat \ {0}
    BY <1>1, <1>6, <2>0, RecordsAssumption DEF Terminated, chars, n
  <2>3. \A i \in 1 .. chars : At(i) = [call |-> c, pos |-> i]
    BY <1>1, <1>3, <2>2 DEF Written
  <2>4. \A i \in 1 .. n : chars < i => At(i) = Blank
    BY <1>1, <1>3, <2>0 DEF Written
  <2> DEFINE visible == {i \in 1 .. n : At(i) # Blank}
             end == chars - HzDigits
  <2>5. visible = 1 .. chars
    BY <1>1, <2>2, <2>3, <2>4 DEF Blank
  <2>6. {i \in visible : \A j \in visible : j <= i} = {chars}
    BY <1>1, <2>2, <2>5
  <2>7. v \in BeforeNul(end)
    <3>1. visible # {}
      <4>1. chars \in 1 .. chars BY <2>2
      <4> QED BY <2>5, <4>1
    <3> QED BY <2>1, <2>6, <3>1 DEF Megahertz
  <2>8. end \in Nat \ {0} /\ end <= chars
    BY <1>1, <2>2, RecordsAssumption
  <2> HIDE DEF end, visible
  <2>9. Words(end) = {[first |-> 1, last |-> end]}
    <3>1. \A i \in 1 .. end : At(i) = [call |-> c, pos |-> i] BY <1>1, <2>3, <2>8
    <3>2. \A i \in 1 .. end : end < i => At(i) = Blank BY <2>8
    <3>3. end <= end /\ end \in Nat BY <2>8
    <3> QED BY <1>1, <2>8, <3>1, <3>2, <3>3, OneWord, Zenon
  <2>10. NumberOf([first |-> 1, last |-> end]) = [call |-> c, first |-> 1, last |-> end]
    BY <1>1, <2>0, <2>3, <2>8 DEF NumberOf
  <2>11. v = NumberOf([first |-> 1, last |-> end])
    <3>1. ~(end < 0) BY <2>8
    <3> QED BY <2>7, <2>9, <3>1 DEF BeforeNul
  <2>12. Reading(c) = [call |-> c, first |-> 1, last |-> end]
    BY <1>6, <2>0 DEF Reading, chars, end
  <2> QED BY <2>10, <2>11, <2>12
<1> QED BY <1>4, <1>5, <1>6

-----------------------------------------------------------------------------
(* Writing. *)

\* A call adds its entry to the history and leaves the others alone.
LEMMA CalledAppends ==
    ASSUME RecordsTypeOK, NEW chars \in Outcomes, Called(chars)
    PROVE  /\ Len(collected') = Len(collected) + 1
           /\ \A c \in 1 .. Len(collected) : collected'[c] = collected[c]
           /\ collected'[Len(collected) + 1] =
                [sample |-> sample, field |-> field, chars |-> chars, due |-> due]
           /\ collected' \in Seq([sample : Nat, field : Fields,
                                  chars : Outcomes, due : Nat])
           /\ due' \in Nat /\ due' > due
           /\ field' \in Fields
           /\ sample' \in Nat \ {0} /\ sample' >= sample
<1> DEFINE call == [sample |-> sample, field |-> field, chars |-> chars, due |-> due]
           Calls == [sample : Nat, field : Fields, chars : Outcomes, due : Nat]
<1>1. call \in Calls /\ collected \in Seq(Calls) BY DEF RecordsTypeOK
<1>2. collected' = Append(collected, call) BY DEF Called
<1> HIDE DEF call, Calls
<1>3. /\ Len(collected') = Len(collected) + 1 /\ collected' \in Seq(Calls)
      /\ \A c \in 1 .. Len(collected) : collected'[c] = collected[c]
      /\ collected'[Len(collected) + 1] = call
  BY <1>1, <1>2
<1>4. due' \in Nat /\ due' > due
  <2>1. Width[field] \in Nat \ {0} BY RecordsAssumption DEF RecordsTypeOK
  <2> QED BY <2>1 DEF Called, RecordsTypeOK
<1>5. field' \in Fields
  BY RecordsAssumption DEF Called, FollowingField, RecordsTypeOK, Fields
<1>6. sample' \in Nat \ {0} /\ sample' >= sample BY DEF Called, RecordsTypeOK
<1> QED BY <1>3, <1>4, <1>5, <1>6 DEF call, Calls

\* So the calls before it stay where they were.
LEMMA CallsStay ==
    ASSUME RecordsTypeOK, NEW chars \in Outcomes, Called(chars),
           phase = "measure", UNCHANGED phase
    PROVE  /\ \A n \in 1 .. Len(collected) + 1 :
                DueOf(n)' = DueOf(n) /\ FieldOf(n)' = FieldOf(n) /\ SampleOf(n)' = SampleOf(n)
           /\ \A n \in Nat : n = Len(collected) + 2 =>
                DueOf(n)' = due' /\ FieldOf(n)' = field' /\ SampleOf(n)' = sample'
<1>1. Len(collected) \in Nat BY DEF RecordsTypeOK
<1>2. /\ Len(collected') = Len(collected) + 1
      /\ \A c \in 1 .. Len(collected) : collected'[c] = collected[c]
      /\ collected'[Len(collected) + 1] =
           [sample |-> sample, field |-> field, chars |-> chars, due |-> due]
  BY CalledAppends
<1>3. ASSUME NEW n \in 1 .. Len(collected) + 1
      PROVE DueOf(n)' = DueOf(n) /\ FieldOf(n)' = FieldOf(n) /\ SampleOf(n)' = SampleOf(n)
  <2>1. CASE n <= Len(collected)
    <3>1. collected'[n] = collected[n] /\ n <= Len(collected') BY <1>1, <1>2, <2>1
    <3> QED BY <2>1, <3>1 DEF DueOf, FieldOf, SampleOf
  <2>2. CASE n = Len(collected) + 1
    <3>1. ~(n <= Len(collected)) /\ n <= Len(collected') BY <1>1, <1>2, <2>2
    <3> QED BY <1>2, <2>2, <3>1 DEF DueOf, FieldOf, SampleOf
  <2> QED BY <1>1, <2>1, <2>2
<1>4. \A n \in Nat : n = Len(collected) + 2 => ~(n <= Len(collected')) BY <1>1, <1>2
<1> QED BY <1>3, <1>4 DEF DueOf, FieldOf, SampleOf

LEMMA CallKeepsTurn ==
    ASSUME RecordsTypeOK, CallsInTurn,
           NEW chars \in {FAILED, SPILLED} \cup Shown[field], Called(chars),
           phase = "measure", UNCHANGED phase
    PROVE  CallsInTurn'
<1>0. chars \in Outcomes /\ Len(collected) \in Nat
  <2>1. Shown[field] \subseteq Nat BY RecordsAssumption DEF RecordsTypeOK
  <2> QED BY <2>1 DEF RecordsTypeOK, Outcomes
<1>1. /\ \A n \in 1 .. Len(collected) + 1 :
           DueOf(n)' = DueOf(n) /\ FieldOf(n)' = FieldOf(n) /\ SampleOf(n)' = SampleOf(n)
      /\ \A n \in Nat : n = Len(collected) + 2 =>
           DueOf(n)' = due' /\ FieldOf(n)' = field' /\ SampleOf(n)' = sample'
  BY <1>0, CallsStay
<1>2. /\ Len(collected') = Len(collected) + 1
      /\ \A c \in 1 .. Len(collected) : collected'[c] = collected[c]
      /\ collected'[Len(collected) + 1] =
           [sample |-> sample, field |-> field, chars |-> chars, due |-> due]
      /\ due' \in Nat /\ due' > due /\ sample' \in Nat /\ sample' >= sample
  BY <1>0, CalledAppends
<1>3. DueOf(1)' = 0 /\ FieldOf(1)' = 1 /\ SampleOf(1)' = 1
  <2>1. 1 \in 1 .. Len(collected) + 1 BY <1>0
  <2> QED BY <1>1, <2>1 DEF CallsInTurn
<1>4. ASSUME NEW c \in 1 .. Len(collected')
      PROVE  /\ DueOf(c + 1)' = collected'[c].due + Width[collected'[c].field]
             /\ FieldOf(c + 1)' = IF collected'[c].field = NumRawdata THEN 1
                                                             ELSE collected'[c].field + 1
             /\ SampleOf(c + 1)' = IF collected'[c].field = NumRawdata
                                     THEN collected'[c].sample + 1
                                     ELSE collected'[c].sample
             /\ collected'[c].due < due'
             /\ collected'[c].sample <= sample'
             /\ collected'[c].chars \in {FAILED, SPILLED} \cup Shown[collected'[c].field]
  <2>1. CASE c \in 1 .. Len(collected)
    <3>1. c + 1 \in 1 .. Len(collected) + 1 BY <1>0, <2>1
    <3>2. /\ DueOf(c + 1)' = DueOf(c + 1) /\ FieldOf(c + 1)' = FieldOf(c + 1)
          /\ SampleOf(c + 1)' = SampleOf(c + 1) /\ collected'[c] = collected[c]
      BY <1>1, <1>2, <2>1, <3>1
    <3>3. collected[c].due \in Nat /\ due \in Nat /\ collected[c].sample \in Nat
          /\ sample \in Nat
      BY <2>1, CallTypes DEF RecordsTypeOK
    <3>4. /\ DueOf(c + 1) = collected[c].due + Width[collected[c].field]
          /\ FieldOf(c + 1) = IF collected[c].field = NumRawdata THEN 1
                                                                 ELSE collected[c].field + 1
          /\ SampleOf(c + 1) = IF collected[c].field = NumRawdata THEN collected[c].sample + 1
                                                                  ELSE collected[c].sample
          /\ collected[c].due < due
          /\ collected[c].sample <= sample
          /\ collected[c].chars \in {FAILED, SPILLED} \cup Shown[collected[c].field]
      BY <2>1 DEF CallsInTurn
    <3>5. collected[c].due < due' /\ collected[c].sample <= sample' BY <1>2, <3>3, <3>4
    <3> QED BY <3>2, <3>4, <3>5
  <2>2. CASE c = Len(collected) + 1
    <3>1. /\ DueOf(c + 1)' = due' /\ FieldOf(c + 1)' = field' /\ SampleOf(c + 1)' = sample'
      <4>1. c + 1 = Len(collected) + 2 /\ c + 1 \in Nat BY <1>0, <2>2
      <4> QED BY <1>1, <4>1
    <3>2. /\ collected'[c].due = due /\ collected'[c].field = field
          /\ collected'[c].sample = sample /\ collected'[c].chars = chars
      BY <1>2, <2>2
    <3> QED BY <1>2, <3>1, <3>2 DEF Called, FollowingField
  <2> QED BY <1>0, <1>2, <2>1, <2>2
<1> QED BY <1>3, <1>4 DEF CallsInTurn

\* Whether one has failed is settled when it is called.
LEMMA FailuresStay ==
    ASSUME RecordsTypeOK, NEW chars \in Outcomes, Called(chars)
    PROVE  /\ \A c \in 0 .. Len(collected) : NoneFailed(c)' <=> NoneFailed(c)
           /\ \A c \in Nat : c = Len(collected) + 1 =>
                (NoneFailed(c)' <=> NoneFailed(Len(collected)) /\ chars \in Nat)
           /\ NoneSpilled' <=> NoneSpilled /\ chars # SPILLED
<1>1. /\ Len(collected) \in Nat
      /\ Len(collected') = Len(collected) + 1
      /\ \A c \in 1 .. Len(collected) : collected'[c] = collected[c]
      /\ collected'[Len(collected) + 1].chars = chars
  <2>1. Len(collected) \in Nat BY DEF RecordsTypeOK
  <2>2. /\ Len(collected') = Len(collected) + 1
        /\ \A c \in 1 .. Len(collected) : collected'[c] = collected[c]
        /\ collected'[Len(collected) + 1] =
             [sample |-> sample, field |-> field, chars |-> chars, due |-> due]
    BY CalledAppends
  <2> QED BY <2>1, <2>2
<1>2. ASSUME NEW c \in 0 .. Len(collected) PROVE NoneFailed(c)' <=> NoneFailed(c)
  <2>1. NoneFailed(c)' <=> \A b \in 1 .. Len(collected') : b <= c => collected'[b].chars \in Nat
    BY DEF NoneFailed
  <2>2. NoneFailed(c) <=> \A b \in 1 .. Len(collected) : b <= c => collected[b].chars \in Nat
    BY DEF NoneFailed
  <2>3. \A b \in 1 .. Len(collected') : b <= c => b \in 1 .. Len(collected) BY <1>1
  <2>4. 1 .. Len(collected) \subseteq 1 .. Len(collected') BY <1>1
  <2> QED BY <1>1, <2>1, <2>2, <2>3, <2>4
<1>3. ASSUME NEW c \in Nat, c = Len(collected) + 1
      PROVE NoneFailed(c)' <=> NoneFailed(Len(collected)) /\ chars \in Nat
  <2>1. NoneFailed(c)' <=>
          \A b \in 1 .. Len(collected') : collected'[b].chars \in Nat
    BY <1>1, <1>3 DEF NoneFailed
  <2>2. NoneFailed(Len(collected)) <=> \A b \in 1 .. Len(collected) : collected[b].chars \in Nat
    BY <1>1 DEF NoneFailed
  <2>3. 1 .. Len(collected') = (1 .. Len(collected)) \cup {Len(collected) + 1} BY <1>1
  <2> QED BY <1>1, <2>1, <2>2, <2>3
<1>4. NoneSpilled' <=> NoneSpilled /\ chars # SPILLED
  <2>1. 1 .. Len(collected') = (1 .. Len(collected)) \cup {Len(collected) + 1} BY <1>1
  <2> QED BY <1>1, <2>1 DEF NoneSpilled
<1> QED BY <1>2, <1>3, <1>4

\* What a call writes is where it is due, if it and those before it could read.
LEMMA CollectWritesWhereDue ==
    ASSUME RecordsTypeOK, CallsInTurn, WrittenWhereDue,
           NEW chars \in Nat, Called(chars),
           rawdata' = [i \in 1 .. size + Width[field] |->
                         IF i <= size THEN rawdata[i]
                         ELSE Written(Len(collected) + 1, field, chars, i - size)],
           size' = size + Width[field]
    PROVE  WrittenWhereDue'
<1> DEFINE L == Len(collected)
<1>0. /\ L \in Nat /\ size \in Nat /\ due \in Nat
      /\ Width[field] \in Nat \ {0} /\ chars \in Outcomes
  BY RecordsAssumption DEF RecordsTypeOK, Outcomes
<1>1. /\ Len(collected') = L + 1
      /\ \A c \in 1 .. L : collected'[c] = collected[c]
      /\ collected'[L + 1] = [sample |-> sample, field |-> field, chars |-> chars, due |-> due]
  BY <1>0, CalledAppends
<1>2. /\ \A c \in 0 .. L : NoneFailed(c)' <=> NoneFailed(c)
      /\ \A c \in Nat : c = L + 1 => (NoneFailed(c)' <=> NoneFailed(L) /\ chars \in Nat)
      /\ NoneSpilled' => NoneSpilled
  BY <1>0, FailuresStay
<1>3. due' = due + Width[field] BY DEF Called
<1>4. NoneSpilled' => size' <= due' BY <1>0, <1>2, <1>3 DEF WrittenWhereDue
<1>5. NoneFailed(Len(collected))' => size' = due'
  <2> SUFFICES ASSUME NoneFailed(Len(collected))' PROVE size' = due'
    OBVIOUS
  <2>1. PICK n \in Nat : n = L + 1 BY <1>0
  <2>2. NoneFailed(n)' BY <1>1, <2>1 DEF NoneFailed
  <2>3. NoneFailed(L) BY <1>2, <2>1, <2>2
  <2> QED BY <1>0, <1>3, <2>3 DEF WrittenWhereDue
<1>6. ASSUME NEW c \in 1 .. Len(collected'), NoneFailed(c)'
      PROVE  /\ collected'[c].due + Width[collected'[c].field] <= size'
             /\ \A i \in 1 .. Width[collected'[c].field] :
                  rawdata'[collected'[c].due + i]
                    = Written(c, collected'[c].field, collected'[c].chars, i)
  <2>1. CASE c \in 1 .. L
    <3>1. collected'[c] = collected[c] /\ NoneFailed(c)
      <4>1. c \in 0 .. L BY <1>0, <2>1
      <4> QED BY <1>1, <1>2, <1>6, <2>1, <4>1
    <3>2. /\ collected[c].due + Width[collected[c].field] <= size
          /\ \A i \in 1 .. Width[collected[c].field] :
               rawdata[collected[c].due + i]
                 = Written(c, collected[c].field, collected[c].chars, i)
      BY <2>1, <3>1 DEF WrittenWhereDue
    <3>3. collected[c].due \in Nat /\ Width[collected[c].field] \in Nat
      BY <2>1, CallTypes
    <3> DEFINE d == collected[c].due
               w == Width[collected[c].field]
    <3>4. \A i \in 1 .. w : d + i \in 1 .. size + Width[field] /\ d + i <= size
      <4> HIDE DEF d, w
      <4>1. d \in Nat /\ w \in Nat /\ d + w <= size BY <3>2, <3>3 DEF d, w
      <4> QED BY <1>0, <4>1
    <3>5. d + w <= size'
      <4> HIDE DEF d, w
      <4>1. d \in Nat /\ w \in Nat /\ d + w <= size BY <3>2, <3>3 DEF d, w
      <4> QED BY <1>0, <4>1
    <3>6. \A i \in 1 .. w : rawdata'[d + i] = rawdata[d + i] BY <3>4
    <3> QED BY <3>1, <3>2, <3>5, <3>6
  <2>2. CASE c = L + 1
    <3>1. NoneFailed(L) BY <1>0, <1>2, <1>6, <2>2
    <3>2. size = due BY <3>1 DEF WrittenWhereDue
    <3>3. /\ collected'[c].due = size /\ collected'[c].field = field
          /\ collected'[c].chars = chars
      BY <1>1, <2>2, <3>2
    <3>4. \A i \in 1 .. Width[field] : rawdata'[size + i] = Written(c, field, chars, i)
      <4> TAKE i \in 1 .. Width[field]
      <4>1. size + i \in 1 .. size + Width[field] /\ ~(size + i <= size) /\ size + i - size = i
        BY <1>0
      <4>2. PICK j \in 1 .. size + Width[field] : j = size + i BY <4>1
      <4>3. ~(j <= size) /\ j - size = i BY <1>0, <4>1, <4>2
      <4>4. rawdata'[j] = Written(L + 1, field, chars, j - size) BY <4>3
      <4> QED BY <2>2, <4>2, <4>3, <4>4
    <3>5. size + Width[field] <= size' BY <1>0
    <3> QED BY <3>3, <3>4, <3>5
  <2> QED BY <1>0, <1>1, <2>1, <2>2
<1> QED BY <1>4, <1>5, <1>6 DEF WrittenWhereDue

\* A call that fails leaves what is written where it is, and from then on nothing
\* need be anywhere.
LEMMA FailureKeepsWritten ==
    ASSUME RecordsTypeOK, CallsInTurn, WrittenWhereDue,
           NEW chars \in {FAILED, SPILLED}, Called(chars),
           size' \in Nat, size' >= size, chars # SPILLED => size' = size,
           \A i \in 1 .. size : rawdata'[i] = rawdata[i]
    PROVE  WrittenWhereDue'
<1> DEFINE L == Len(collected)
<1>0. /\ L \in Nat /\ size \in Nat /\ due \in Nat /\ chars \in Outcomes /\ chars \notin Nat
  BY DEF RecordsTypeOK, Outcomes, FAILED, SPILLED
<1>1. /\ Len(collected') = L + 1
      /\ \A c \in 1 .. L : collected'[c] = collected[c]
      /\ due' \in Nat /\ due' > due
  BY <1>0, CalledAppends
<1>2. /\ \A c \in 0 .. L : NoneFailed(c)' <=> NoneFailed(c)
      /\ \A c \in Nat : c = L + 1 => ~NoneFailed(c)'
      /\ NoneSpilled' <=> NoneSpilled /\ chars # SPILLED
  BY <1>0, FailuresStay
<1>4. NoneSpilled' => size' <= due'
  <2> SUFFICES ASSUME NoneSpilled' PROVE size' <= due' OBVIOUS
  <2>1. size <= due /\ size' = size BY <1>2 DEF WrittenWhereDue
  <2> QED BY <1>0, <1>1, <2>1
<1>5. ~NoneFailed(Len(collected))'
  <2>1. PICK n \in Nat : n = L + 1 BY <1>0
  <2>2. ~NoneFailed(n)' BY <1>2, <2>1
  <2> QED BY <1>1, <2>1, <2>2 DEF NoneFailed
<1>6. ASSUME NEW c \in 1 .. Len(collected'), NoneFailed(c)'
      PROVE  /\ collected'[c].due + Width[collected'[c].field] <= size'
             /\ \A i \in 1 .. Width[collected'[c].field] :
                  rawdata'[collected'[c].due + i]
                    = Written(c, collected'[c].field, collected'[c].chars, i)
  <2>1. c \in 1 .. L /\ c \in 0 .. L BY <1>0, <1>1, <1>2, <1>6
  <2>2. collected'[c] = collected[c] /\ NoneFailed(c) BY <1>1, <1>2, <1>6, <2>1
  <2> DEFINE d == collected[c].due
             w == Width[collected[c].field]
  <2>3. /\ d + w <= size /\ d \in Nat /\ w \in Nat
        /\ \A i \in 1 .. w :
             rawdata[d + i] = Written(c, collected[c].field, collected[c].chars, i)
    BY <2>1, <2>2, CallTypes DEF WrittenWhereDue
  <2>4. d + w <= size' /\ \A i \in 1 .. w : d + i \in 1 .. size
    <3> HIDE DEF d, w
    <3> QED BY <1>0, <2>3
  <2> QED BY <2>2, <2>3, <2>4
<1> QED BY <1>4, <1>5, <1>6 DEF WrittenWhereDue

-----------------------------------------------------------------------------
(* Reading. *)

\* What was called stays as it was while it is read.
LEMMA HistoryStays ==
    ASSUME UNCHANGED <<collected, due, sample>>,
           phase = "measure" => field = 1, phase' # "measure"
    PROVE  \A n : /\ DueOf(n)' = DueOf(n) /\ SampleOf(n)' = SampleOf(n)
                  /\ FieldOf(n)' = FieldOf(n)
                  /\ NoneFailed(n)' <=> NoneFailed(n)
  BY DEF DueOf, SampleOf, FieldOf, NoneFailed

LEMMA HistoryKeepsTurn ==
    ASSUME CallsInTurn, UNCHANGED <<collected, due, sample>>,
           phase = "measure" => field = 1, phase' # "measure"
    PROVE  CallsInTurn'
<1>1. \A n : DueOf(n)' = DueOf(n) /\ SampleOf(n)' = SampleOf(n) /\ FieldOf(n)' = FieldOf(n)
  BY HistoryStays
<1> QED BY <1>1 DEF CallsInTurn

LEMMA HistoryStaysWritten ==
    ASSUME WrittenWhereDue, UNCHANGED <<collected, due, size, rawdata>>
    PROVE  WrittenWhereDue'
  BY DEF WrittenWhereDue, NoneFailed, NoneSpilled

\* A conversion that gets a byte is not ahead of the calls unless there are spilt
\* blanks to get; its field is that of the call it stands for, and unless one
\* failed, it gets that call's bytes.
LEMMA ReadInTurn ==
    ASSUME RecordsTypeOK, CallsInTurn, WrittenWhereDue, ReaderInStep,
           phase = "calculate", BytesRead > 0
    PROVE  /\ NoneSpilled =>
                /\ calls + 1 \in 1 .. Len(collected)
                /\ rpos + BytesRead = size \/ rpos + BytesRead = DueOf(calls + 2)
           /\ calls + 1 \in 1 .. Len(collected) =>
                /\ collected[calls + 1].field = field
                /\ collected[calls + 1].sample = Len(records) + 1
           /\ NoneFailed(calls + 1) =>
                /\ calls + 1 \in 1 .. Len(collected)
                /\ BytesRead = Width[field]
                /\ rpos + BytesRead = DueOf(calls + 2)
                /\ \A i \in 1 .. Width[field] :
                     At(i) = Written(calls + 1, field, collected[calls + 1].chars, i)
<1> DEFINE c == calls + 1
<1>1. /\ rpos \in Nat /\ size \in Nat /\ due \in Nat /\ calls \in Nat
      /\ Len(collected) \in Nat /\ Len(records) \in Nat /\ Width[field] \in Nat \ {0}
  BY RecordsAssumption DEF RecordsTypeOK
<1>2. BytesRead \in Nat /\ rpos + BytesRead <= size
      /\ (BytesRead < Width[field] => rpos + BytesRead = size)
      /\ BytesRead <= Width[field]
  BY BytesReadType
<1>3. rpos < size
  BY <1>1, <1>2
<1>4. ASSUME c \in 1 .. Len(collected)
      PROVE  collected[c].field = field /\ collected[c].sample = Len(records) + 1
  <2>1. c <= Len(collected) /\ calls <= Len(collected) BY <1>1, <1>4
  <2>2. field = FieldOf(c) /\ Len(records) = SampleOf(c) - 1 BY <2>1 DEF ReaderInStep
  <2>3. collected[c].sample \in Nat BY <1>4, CallTypes
  <2> QED BY <1>1, <2>1, <2>2, <2>3 DEF FieldOf, SampleOf
<1>5. ASSUME c \in 1 .. Len(collected), rpos = DueOf(c)
      PROVE  DueOf(calls + 2) = rpos + Width[field] /\ collected[c].due = rpos
  <2>1. DueOf(c + 1) = collected[c].due + Width[collected[c].field]
    BY <1>5 DEF CallsInTurn
  <2>2. c + 1 = calls + 2 BY <1>1
  <2>3. collected[c].due = rpos BY <1>1, <1>5 DEF DueOf
  <2> QED BY <1>4, <1>5, <2>1, <2>2, <2>3
<1>6. ASSUME NoneSpilled
      PROVE  c \in 1 .. Len(collected)
             /\ (rpos + BytesRead = size \/ rpos + BytesRead = DueOf(calls + 2))
  <2>1. calls <= Len(collected) /\ rpos = DueOf(c) /\ size <= due
    BY <1>1, <1>3, <1>6 DEF ReaderInStep, WrittenWhereDue
  <2>2. c <= Len(collected) BY <1>1, <1>3, <2>1 DEF DueOf
  <2>3. c \in 1 .. Len(collected) BY <1>1, <2>2
  <2> QED BY <1>1, <1>2, <1>5, <2>1, <2>3
<1>7. ASSUME NoneFailed(c)
      PROVE  /\ c \in 1 .. Len(collected)
             /\ BytesRead = Width[field]
             /\ rpos + BytesRead = DueOf(calls + 2)
             /\ \A i \in 1 .. Width[field] :
                  At(i) = Written(c, field, collected[c].chars, i)
  <2>1. NoneFailed(calls) BY <1>1, <1>7 DEF NoneFailed
  <2>2. calls <= Len(collected) /\ rpos = DueOf(c) BY <2>1 DEF ReaderInStep
  <2>3. c \in 1 .. Len(collected)
    <3> SUFFICES ASSUME calls = Len(collected) PROVE FALSE BY <1>1, <2>2
    <3>1. size = due BY <2>1 DEF WrittenWhereDue
    <3>2. DueOf(c) = due BY <1>1 DEF DueOf
    <3> QED BY <1>1, <1>3, <2>2, <3>1, <3>2
  <2>4. collected[c].field = field /\ collected[c].due = rpos
    BY <1>4, <1>5, <2>2, <2>3
  <2>5. /\ collected[c].due + Width[collected[c].field] <= size
        /\ \A i \in 1 .. Width[collected[c].field] :
             rawdata[collected[c].due + i]
               = Written(c, collected[c].field, collected[c].chars, i)
    BY <2>3, <1>7 DEF WrittenWhereDue
  <2>6. BytesRead = Width[field] BY <1>1, <1>2, <2>4, <2>5 DEF BytesRead
  <2>7. rpos + BytesRead = DueOf(calls + 2) BY <1>5, <2>2, <2>3, <2>6
  <2>8. \A i \in 1 .. Width[field] :
          At(i) = Written(c, field, collected[c].chars, i)
    BY <2>4, <2>5 DEF At
  <2> QED BY <2>3, <2>6, <2>7, <2>8
<1> QED BY <1>4, <1>6, <1>7

\* The cell it fills is what the call has read.
LEMMA CellIsReading ==
    ASSUME RecordsTypeOK, CallsInTurn, WrittenWhereDue, ReaderInStep,
           phase = "calculate", BytesRead > 0,
           NEW v \in Parsed(BytesRead)
    PROVE  IsReading([call |-> calls + 1, value |-> v], field, Len(records) + 1)
<1> DEFINE cell == [call |-> calls + 1, value |-> v]
<1>0. PICK c : c = calls + 1 OBVIOUS
<1>1. ASSUME NoneFailed(c)
      PROVE  /\ c \in 1 .. Len(collected) /\ collected[c].field = field
             /\ collected[c].sample = Len(records) + 1
             /\ BytesRead = Width[field]
             /\ \A i \in 1 .. Width[field] :
                  At(i) = Written(c, field, collected[c].chars, i)
  <2>1. c \in 1 .. Len(collected) BY <1>0, <1>1, ReadInTurn
  <2> QED BY <1>0, <1>1, <2>1, ReadInTurn
<1>2. ASSUME NoneFailed(c), Terminated(collected[c]) PROVE v = Reading(c)
  <2>1. collected[c].chars \in Nat
    <3>1. c \in 1 .. Len(collected) /\ c <= c BY <1>1, <1>2
    <3> QED BY <1>2, <3>1 DEF NoneFailed
  <2>2. Parsed(BytesRead) \subseteq {Reading(c)}
    BY <1>1, <1>2, <2>1, FieldGivesReading
  <2> QED BY <2>2
<1>3. cell.call = c /\ cell.value = v BY <1>0
<1> HIDE DEF cell
<1>4. IsReading(cell, field, Len(records) + 1)
  BY <1>1, <1>2, <1>3 DEF IsReading
<1> QED BY <1>4 DEF cell

-----------------------------------------------------------------------------
(* The steps. *)

LEMMA RecordsStart == RecordsInit => RecordsInv
<1> SUFFICES ASSUME RecordsInit PROVE RecordsInv
  OBVIOUS
<1>1. /\ phase = "measure" /\ rawdata = <<>> /\ size = 0 /\ field = 1 /\ sample = 1
      /\ collected = <<>> /\ due = 0 /\ rpos = 0 /\ calls = 0 /\ records = <<>>
      /\ powerlog = [f \in Fields |-> [call |-> 0, value |-> Garbage]]
  BY DEF RecordsInit
<1>2. Len(collected) = 0 /\ Len(records) = 0 /\ 1 \in Fields
  BY <1>1, RecordsAssumption DEF Fields
<1>3. RecordsTypeOK
  <2>1. rawdata \in [1 .. size -> Byte] BY <1>1
  <2>2. powerlog \in [Fields -> [call : Nat, value : Value]]
    BY <1>1 DEF Garbage, Value
  <2> QED BY <1>1, <1>2, <2>1, <2>2 DEF RecordsTypeOK
<1>4. CallsInTurn BY <1>1, <1>2 DEF CallsInTurn, DueOf, FieldOf, SampleOf
<1>5. WrittenWhereDue BY <1>1, <1>2 DEF WrittenWhereDue
<1>6. ReaderInStep BY <1>1, <1>2 DEF ReaderInStep, DueOf
<1>7. CellsAreReadings BY <1>1, <1>2 DEF CellsAreReadings
<1> QED BY <1>3, <1>4, <1>5, <1>6, <1>7 DEF RecordsInv

\* While samples are taken the reader has not begun.
LEMMA CallKeepsReader ==
    ASSUME RecordsInv, NEW chars \in Outcomes, Called(chars), phase = "measure",
           UNCHANGED <<phase, rpos, calls, powerlog, records>>
    PROVE  ReaderInStep' /\ CellsAreReadings'
<1>1. phase' = "measure" /\ rpos' = 0 /\ calls' = 0 /\ records' = <<>>
  BY DEF RecordsInv, ReaderInStep
<1>2. DueOf(1)' = 0
  <2>1. 1 \in 1 .. Len(collected) + 1 BY DEF RecordsInv, RecordsTypeOK
  <2> QED BY <2>1, CallsStay DEF RecordsInv, CallsInTurn
<1>3. Len(collected') \in Nat
  BY CalledAppends DEF RecordsInv
<1>4. ReaderInStep'
  <2>1. DueOf(calls + 1)' = 0 BY <1>1, <1>2 DEF DueOf
  <2> QED BY <1>1, <1>3, <2>1 DEF ReaderInStep
<1>5. CellsAreReadings' BY <1>1 DEF CellsAreReadings
<1> QED BY <1>4, <1>5

LEMMA CollectKeeps == RecordsInv /\ Collect => RecordsInv'
<1> SUFFICES ASSUME RecordsInv, Collect PROVE RecordsInv'
  OBVIOUS
<1>0. RecordsTypeOK /\ CallsInTurn /\ WrittenWhereDue BY DEF RecordsInv
<1>1. PICK chars \in Shown[field] :
        /\ Called(chars)
        /\ rawdata' = [i \in 1 .. size + Width[field] |->
                         IF i <= size THEN rawdata[i]
                         ELSE Written(Len(collected) + 1, field, chars, i - size)]
  BY DEF Collect
<1>2. /\ size' = size + Width[field] /\ phase = "measure"
      /\ UNCHANGED <<phase, rpos, calls, powerlog, records>>
  BY DEF Collect
<1>3. /\ chars \in Nat /\ Width[field] \in Nat \ {0} /\ size \in Nat /\ rpos \in 0 .. size
      /\ Len(collected) \in Nat
  <2>1. field \in Fields BY <1>0 DEF RecordsTypeOK
  <2>2. Shown[field] \subseteq Nat BY <2>1, RecordsAssumption
  <2> QED BY <1>0, <2>1, <2>2, RecordsAssumption DEF RecordsTypeOK
<1>4. chars \in Outcomes /\ chars \in {FAILED, SPILLED} \cup Shown[field]
  BY <1>3 DEF Outcomes
<1>5. RecordsTypeOK'
  <2>1. rawdata' \in [1 .. size' -> Byte]
    <3>1. ASSUME NEW i \in 1 .. size + Width[field], ~(i <= size)
          PROVE Written(Len(collected) + 1, field, chars, i - size) \in Byte
      <4>1. i - size \in Nat BY <1>3, <3>1
      <4> QED BY <1>3, <4>1 DEF Written, Byte, Blank
    <3>2. ASSUME NEW i \in 1 .. size + Width[field], i <= size PROVE rawdata[i] \in Byte
      <4>1. i \in 1 .. size BY <1>3, <3>2
      <4> QED BY <1>0, <4>1 DEF RecordsTypeOK
    <3> QED BY <1>1, <1>2, <3>1, <3>2
  <2>2. size' \in Nat /\ rpos' \in 0 .. size' BY <1>2, <1>3
  <2>3. /\ collected' \in Seq([sample : Nat, field : Fields, chars : Outcomes,
                               due : Nat])
        /\ due' \in Nat /\ field' \in Fields /\ sample' \in Nat \ {0}
    BY <1>0, <1>1, <1>4, CalledAppends
  <2> QED BY <1>0, <1>2, <2>1, <2>2, <2>3 DEF RecordsTypeOK
<1>6. CallsInTurn' BY <1>0, <1>1, <1>2, <1>4, CallKeepsTurn
<1>7. WrittenWhereDue' BY <1>0, <1>1, <1>2, <1>3, CollectWritesWhereDue
<1>8. ReaderInStep' /\ CellsAreReadings' BY <1>1, <1>2, <1>4, CallKeepsReader
<1> QED BY <1>5, <1>6, <1>7, <1>8 DEF RecordsInv

LEMMA CollectFailsKeeps == RecordsInv /\ CollectFails => RecordsInv'
<1> SUFFICES ASSUME RecordsInv, CollectFails PROVE RecordsInv'
  OBVIOUS
<1>0. RecordsTypeOK /\ CallsInTurn /\ WrittenWhereDue BY DEF RecordsInv
<1>1. /\ Called(FAILED) /\ phase = "measure" /\ UNCHANGED <<rawdata, size>>
      /\ UNCHANGED <<phase, rpos, calls, powerlog, records>>
  BY DEF CollectFails
<1>2. PICK chars : chars = FAILED OBVIOUS
<1>3. /\ chars \in {FAILED, SPILLED} /\ chars \in {FAILED, SPILLED} \cup Shown[field]
      /\ chars \in Outcomes /\ chars # SPILLED /\ Called(chars) /\ size \in Nat
  BY <1>0, <1>1, <1>2 DEF Outcomes, FAILED, SPILLED, RecordsTypeOK
<1>5. RecordsTypeOK'
  <2>1. /\ collected' \in Seq([sample : Nat, field : Fields, chars : Outcomes,
                               due : Nat])
        /\ due' \in Nat /\ field' \in Fields /\ sample' \in Nat \ {0}
    BY <1>0, <1>3, CalledAppends
  <2> QED BY <1>0, <1>1, <2>1 DEF RecordsTypeOK
<1>6. CallsInTurn' BY <1>0, <1>1, <1>3, CallKeepsTurn
<1>7. WrittenWhereDue'
  <2>1. size' \in Nat /\ size' >= size /\ \A i \in 1 .. size : rawdata'[i] = rawdata[i]
    BY <1>1, <1>3
  <2> QED BY <1>0, <1>1, <1>3, <2>1, FailureKeepsWritten
<1>8. ReaderInStep' /\ CellsAreReadings' BY <1>1, <1>3, CallKeepsReader
<1> QED BY <1>5, <1>6, <1>7, <1>8 DEF RecordsInv

LEMMA CollectSpillsKeeps == RecordsInv /\ CollectSpills => RecordsInv'
<1> SUFFICES ASSUME RecordsInv, CollectSpills PROVE RecordsInv'
  OBVIOUS
<1>0. RecordsTypeOK /\ CallsInTurn /\ WrittenWhereDue BY DEF RecordsInv
<1>1. /\ Called(SPILLED) /\ phase = "measure"
      /\ rawdata' = [i \in 1 .. size + Width[field] + 1 |->
                       IF i <= size THEN rawdata[i] ELSE Blank]
      /\ size' = size + Width[field] + 1
      /\ UNCHANGED <<phase, rpos, calls, powerlog, records>>
  BY DEF CollectSpills
<1>2. PICK chars : chars = SPILLED OBVIOUS
<1>3. /\ chars \in {FAILED, SPILLED} /\ chars \in {FAILED, SPILLED} \cup Shown[field]
      /\ chars \in Outcomes /\ Called(chars)
      /\ Width[field] \in Nat /\ size \in Nat /\ rpos \in 0 .. size
  BY <1>0, <1>1, <1>2, RecordsAssumption DEF Outcomes, RecordsTypeOK
<1>4. /\ size' \in Nat /\ size' >= size /\ rpos' \in 0 .. size'
      /\ \A i \in 1 .. size : rawdata'[i] = rawdata[i]
  BY <1>1, <1>3
<1>5. RecordsTypeOK'
  <2>1. rawdata' \in [1 .. size' -> Byte]
    <3>1. \A i \in 1 .. size : rawdata[i] \in Byte BY <1>0 DEF RecordsTypeOK
    <3>2. \A i \in 1 .. size' : i <= size => i \in 1 .. size BY <1>3
    <3> QED BY <1>1, <3>1, <3>2 DEF Byte, Blank
  <2>2. /\ collected' \in Seq([sample : Nat, field : Fields, chars : Outcomes, due : Nat])
        /\ due' \in Nat /\ field' \in Fields /\ sample' \in Nat \ {0}
    BY <1>0, <1>3, CalledAppends
  <2> QED BY <1>0, <1>1, <1>4, <2>1, <2>2 DEF RecordsTypeOK
<1>6. CallsInTurn' BY <1>0, <1>1, <1>3, CallKeepsTurn
<1>7. WrittenWhereDue'
  <2>1. chars # SPILLED => size' = size BY <1>2
  <2> QED BY <1>0, <1>3, <1>4, <2>1, FailureKeepsWritten
<1>8. ReaderInStep' /\ CellsAreReadings' BY <1>1, <1>3, CallKeepsReader
<1> QED BY <1>5, <1>6, <1>7, <1>8 DEF RecordsInv

LEMMA StopMeasuringKeeps == RecordsInv /\ StopMeasuring => RecordsInv'
<1> SUFFICES ASSUME RecordsInv, StopMeasuring PROVE RecordsInv'
  OBVIOUS
<1>1. /\ phase = "measure" /\ field = 1 /\ phase' = "calculate"
      /\ UNCHANGED <<rawdata, size, field, sample, collected, due, rpos, calls,
                     powerlog, records>>
  BY DEF StopMeasuring
<1>2. RecordsTypeOK' BY <1>1 DEF RecordsInv, RecordsTypeOK
<1>3. CallsInTurn' BY <1>1, HistoryKeepsTurn DEF RecordsInv
<1>4. WrittenWhereDue' BY <1>1, HistoryStaysWritten DEF RecordsInv
<1>5. rpos = 0 /\ calls = 0 /\ records = <<>> BY <1>1 DEF RecordsInv, ReaderInStep
<1>6. ReaderInStep'
  <2>1. DueOf(1)' = 0 /\ FieldOf(1)' = 1 /\ SampleOf(1)' = 1 BY <1>3 DEF CallsInTurn
  <2>2. DueOf(calls + 1)' = 0 /\ FieldOf(calls + 1)' = 1 /\ SampleOf(calls + 1)' = 1
    BY <1>1, <1>5, <2>1
  <2> QED BY <1>1, <1>2, <1>5, <2>2 DEF ReaderInStep, RecordsTypeOK
<1>7. CellsAreReadings'
  <2>1. \A f \in Fields : ~(f < 1) BY DEF Fields
  <2> QED BY <1>1, <1>5, <2>1 DEF CellsAreReadings
<1> QED BY <1>2, <1>3, <1>4, <1>6, <1>7 DEF RecordsInv

LEMMA RawdataEofKeeps == RecordsInv /\ RawdataEof => RecordsInv'
<1> SUFFICES ASSUME RecordsInv, RawdataEof PROVE RecordsInv'
  OBVIOUS
<1>1. /\ phase = "calculate" /\ BytesRead <= 0 /\ phase' = "eof"
      /\ UNCHANGED <<rawdata, size, field, sample, collected, due, rpos, calls,
                     powerlog, records>>
  BY DEF RawdataEof
<1>2. RecordsTypeOK' BY <1>1 DEF RecordsInv, RecordsTypeOK
<1>3. CallsInTurn' BY <1>1, HistoryKeepsTurn DEF RecordsInv
<1>4. WrittenWhereDue' BY <1>1, HistoryStaysWritten DEF RecordsInv
<1>5. rpos = size BY <1>1, BytesReadType DEF RecordsInv
<1>6. \A n : /\ DueOf(n)' = DueOf(n) /\ SampleOf(n)' = SampleOf(n)
             /\ FieldOf(n)' = FieldOf(n) /\ (NoneFailed(n)' <=> NoneFailed(n))
  BY <1>1, HistoryStays
<1>7. ReaderInStep'
  <2>1. NoneSpilled' <=> NoneSpilled BY <1>1 DEF NoneSpilled
  <2> QED BY <1>1, <1>5, <1>6, <2>1 DEF RecordsInv, ReaderInStep
<1>8. CellsAreReadings'
  <2>1. \A cell, f, r : IsReading(cell, f, r)' <=> IsReading(cell, f, r)
    BY <1>1 DEF IsReading, NoneFailed, Terminated, Reading
  <2> QED BY <1>1, <2>1 DEF RecordsInv, CellsAreReadings
<1> QED BY <1>2, <1>3, <1>4, <1>7, <1>8 DEF RecordsInv

LEMMA ToPowerlogKeeps == RecordsInv /\ ToPowerlog => RecordsInv'
<1> SUFFICES ASSUME RecordsInv, ToPowerlog PROVE RecordsInv'
  OBVIOUS
<1>0. RecordsTypeOK /\ CallsInTurn /\ WrittenWhereDue /\ ReaderInStep /\ CellsAreReadings
  BY DEF RecordsInv
<1> DEFINE r == Len(records) + 1
<1>1. PICK v \in Parsed(BytesRead) :
        powerlog' = [powerlog EXCEPT ![field] = [call |-> calls + 1, value |-> v]]
  BY DEF ToPowerlog
<1>2. /\ phase = "calculate" /\ BytesRead > 0
      /\ rpos' = rpos + BytesRead /\ calls' = calls + 1
      /\ field' = FollowingField
      /\ records' = IF field = NumRawdata THEN Append(records, powerlog') ELSE records
      /\ UNCHANGED <<phase, rawdata, size, sample, collected, due>>
  BY DEF ToPowerlog
<1> DEFINE CellType == [call : Nat, value : Value]
           cell == [call |-> calls + 1, value |-> v]
<1>3. /\ cell \in CellType /\ powerlog \in [Fields -> CellType] /\ powerlog' \in [Fields -> CellType]
      /\ records \in Seq([Fields -> CellType])
      /\ field \in Fields /\ calls \in Nat /\ Len(records) \in Nat
  <2>1. v \in Value BY <1>0, <1>1, ParsedTypes
  <2> QED BY <1>0, <1>1, <2>1 DEF RecordsTypeOK
<1>4. powerlog'[field] = cell /\ \A f \in Fields : f # field => powerlog'[f] = powerlog[f]
  BY <1>1, <1>3
<1>5. RecordsTypeOK'
  <2>1. records' \in Seq([Fields -> CellType])
    <3> HIDE DEF CellType
    <3> QED BY <1>2, <1>3
  <2>2. rpos' \in 0 .. size' BY <1>0, <1>2, BytesReadType DEF RecordsTypeOK
  <2>3. field' \in Fields
    BY <1>2, <1>3, RecordsAssumption DEF FollowingField, Fields
  <2> QED BY <1>0, <1>2, <1>3, <2>1, <2>2, <2>3 DEF RecordsTypeOK
<1>6. CallsInTurn' BY <1>0, <1>2, HistoryKeepsTurn
<1>7. WrittenWhereDue' BY <1>0, <1>2, HistoryStaysWritten
<1>8. \A n : /\ DueOf(n)' = DueOf(n) /\ SampleOf(n)' = SampleOf(n)
             /\ FieldOf(n)' = FieldOf(n) /\ (NoneFailed(n)' <=> NoneFailed(n))
  BY <1>2, HistoryStays
<1>9. /\ NoneSpilled =>
           /\ calls + 1 \in 1 .. Len(collected)
           /\ rpos + BytesRead = size \/ rpos + BytesRead = DueOf(calls + 2)
      /\ calls + 1 \in 1 .. Len(collected) =>
           /\ collected[calls + 1].field = field
           /\ collected[calls + 1].sample = r
      /\ NoneFailed(calls + 1) =>
           /\ calls + 1 \in 1 .. Len(collected)
           /\ rpos + BytesRead = DueOf(calls + 2)
  BY <1>0, <1>2, ReadInTurn
<1>10. Len(records') = IF field = NumRawdata THEN r ELSE Len(records)
  <2> HIDE DEF CellType
  <2> QED BY <1>2, <1>3
<1>11. ReaderInStep'
  <2>1. PICK m, n : m = calls + 1 /\ n = calls + 2 OBVIOUS
  <2>2. /\ m \in Nat /\ n \in Nat /\ m + 1 = n /\ calls' = m /\ calls' + 1 = n
        /\ Len(collected') = Len(collected) /\ Len(collected) \in Nat
    BY <1>0, <1>2, <1>3, <2>1 DEF RecordsTypeOK
  <2>3. /\ DueOf(n)' = DueOf(n) /\ FieldOf(n)' = FieldOf(n) /\ SampleOf(n)' = SampleOf(n)
        /\ NoneFailed(m)' <=> NoneFailed(m)
    BY <1>8
  <2>4. ASSUME m <= Len(collected)
        PROVE  field' = FieldOf(n)' /\ Len(records') = SampleOf(n)' - 1
    <3>1. m \in 1 .. Len(collected) BY <1>3, <2>1, <2>2, <2>4
    <3>2. collected[m].field = field /\ collected[m].sample = r BY <1>9, <2>1, <3>1
    <3>3. /\ FieldOf(m + 1) = FollowingField
          /\ SampleOf(m + 1) = IF field = NumRawdata THEN r + 1 ELSE r
      BY <1>0, <3>1, <3>2 DEF CallsInTurn, FollowingField
    <3>4. field' = FieldOf(n)' BY <1>2, <2>2, <2>3, <3>3
    <3>5. Len(records') = SampleOf(n) - 1 BY <1>3, <1>10, <2>2, <3>3
    <3> QED BY <2>3, <3>4, <3>5
  <2>5. ASSUME NoneSpilled'
        PROVE  m <= Len(collected) /\ (rpos' = size' \/ rpos' = DueOf(n)')
    <3>1. NoneSpilled BY <1>2, <2>5 DEF NoneSpilled
    <3> QED BY <1>2, <1>9, <2>1, <2>2, <2>3, <3>1
  <2>6. ASSUME NoneFailed(m)'
        PROVE  m <= Len(collected) /\ rpos' = DueOf(n)'
    <3>1. NoneFailed(m) BY <2>3, <2>6
    <3> QED BY <1>2, <1>9, <2>1, <2>2, <2>3, <3>1
  <2>7. DueOf(calls + 1)' = DueOf(n)'
    BY <2>2 DEF DueOf
  <2>8. FieldOf(calls + 1)' = FieldOf(n)' /\ SampleOf(calls + 1)' = SampleOf(n)'
    BY <2>2 DEF FieldOf, SampleOf
  <2>9. NoneFailed(calls)' <=> NoneFailed(m)'
    BY <2>2 DEF NoneFailed
  <2>10. phase' = "calculate" BY <1>2
  <2> QED BY <2>2, <2>4, <2>5, <2>6, <2>7, <2>8, <2>9, <2>10 DEF ReaderInStep
<1>12. CellsAreReadings'
  <2>1. \A e, f, s : IsReading(e, f, s)' <=> IsReading(e, f, s)
    BY <1>2 DEF IsReading, NoneFailed, Terminated, Reading
  <2>2. IsReading(cell, field, r) BY <1>0, <1>1, <1>2, CellIsReading
  <2>3. \A f \in Fields : f < field => IsReading(powerlog[f], f, r)
    BY <1>0, <1>2 DEF CellsAreReadings
  <2>4. \A f \in Fields : f <= field => IsReading(powerlog'[f], f, r)
    <3> HIDE DEF cell, r
    <3> TAKE f \in Fields
    <3>1. f \in Nat /\ field \in Nat BY <1>3 DEF Fields
    <3>2. CASE f = field BY <1>4, <2>2, <3>2
    <3>3. CASE f < field
      <4>1. powerlog'[f] = powerlog[f] BY <1>4, <3>1, <3>3
      <4> QED BY <2>3, <3>3, <4>1
    <3> QED BY <3>1, <3>2, <3>3
  <2>5. \A s \in 1 .. Len(records) : \A f \in Fields : IsReading(records[s][f], f, s)
    BY <1>0 DEF CellsAreReadings
  <2>6. CASE field = NumRawdata
    <3>1. /\ Len(records') = r /\ records'[r] = powerlog'
          /\ \A s \in 1 .. Len(records) : records'[s] = records[s]
      <4> HIDE DEF CellType
      <4> QED BY <1>2, <1>3, <2>6
    <3>2. \A f \in Fields : f <= field BY <2>6, RecordsAssumption DEF Fields
    <3>3. \A s \in 1 .. r : s \in 1 .. Len(records) \/ s = r BY <1>3
    <3>4. \A s \in 1 .. Len(records') : \A f \in Fields : IsReading(records'[s][f], f, s)
      BY <2>4, <2>5, <3>1, <3>2, <3>3
    <3>5. \A f \in Fields : ~(f < field')
      BY <1>2, <2>6 DEF FollowingField, Fields
    <3> QED BY <2>1, <3>4, <3>5 DEF CellsAreReadings
  <2>7. CASE field # NumRawdata
    <3>1. records' = records BY <1>2, <2>7
    <3>2. \A f \in Fields : f < field' => f <= field
      BY <1>2, <1>3, <2>7 DEF FollowingField, Fields
    <3>3. \A f \in Fields : f < field' => IsReading(powerlog'[f], f, Len(records') + 1)
      BY <2>4, <3>1, <3>2
    <3> QED BY <2>1, <2>5, <3>1, <3>3 DEF CellsAreReadings
  <2> QED BY <2>6, <2>7
<1> QED BY <1>5, <1>6, <1>7, <1>11, <1>12 DEF RecordsInv

LEMMA StutterKeeps == RecordsInv /\ UNCHANGED recordVars => RecordsInv'
<1> SUFFICES ASSUME RecordsInv, UNCHANGED recordVars PROVE RecordsInv'
  OBVIOUS
<1>1. UNCHANGED <<phase, rawdata, size, field, sample, collected, due, rpos, calls,
                  powerlog, records>>
  BY DEF recordVars
<1>2. RecordsTypeOK' BY <1>1 DEF RecordsInv, RecordsTypeOK
<1>3. /\ \A n : /\ DueOf(n)' = DueOf(n) /\ SampleOf(n)' = SampleOf(n)
                /\ FieldOf(n)' = FieldOf(n) /\ (NoneFailed(n)' <=> NoneFailed(n))
      /\ \A e, f, r : IsReading(e, f, r)' <=> IsReading(e, f, r)
  BY <1>1 DEF DueOf, FieldOf, SampleOf, NoneFailed, IsReading, Terminated, Reading
<1>4. CallsInTurn' BY <1>1, <1>3 DEF RecordsInv, CallsInTurn
<1>5. WrittenWhereDue' BY <1>1, HistoryStaysWritten DEF RecordsInv
<1>6. ReaderInStep'
  <2>1. NoneSpilled' <=> NoneSpilled BY <1>1 DEF NoneSpilled
  <2> QED BY <1>1, <1>3, <2>1 DEF RecordsInv, ReaderInStep
<1>7. CellsAreReadings' BY <1>1, <1>3 DEF RecordsInv, CellsAreReadings
<1> QED BY <1>2, <1>4, <1>5, <1>6, <1>7 DEF RecordsInv

LEMMA RecordsStep == RecordsInv /\ [RecordsNext]_recordVars => RecordsInv'
  BY CollectKeeps, CollectFailsKeeps, CollectSpillsKeeps, StopMeasuringKeeps, ToPowerlogKeeps,
     RawdataEofKeeps, StutterKeeps DEF RecordsNext

LEMMA InvGivesReadings == RecordsInv => ReadingsAreSamples
<1> SUFFICES ASSUME RecordsInv, NEW r \in 1 .. Len(records), NEW f \in Fields,
                    NoneFailed(records[r][f].call)
             PROVE  LET call == records[r][f].call
                    IN  /\ call \in 1 .. Len(collected)
                        /\ collected[call].field = f
                        /\ collected[call].sample = r
                        /\ Terminated(collected[call]) => records[r][f].value = Reading(call)
  BY DEF ReadingsAreSamples
<1>1. IsReading(records[r][f], f, r) BY DEF RecordsInv, CellsAreReadings
<1> QED BY <1>1 DEF IsReading

LEMMA InvGivesEverySample == RecordsInv => EverySampleIsRead
<1> SUFFICES ASSUME RecordsInv PROVE EverySampleIsRead
  OBVIOUS
<1>0. /\ Len(records) \in Nat /\ Len(collected) \in Nat /\ calls \in Nat
      /\ sample \in Nat \ {0} /\ size \in Nat /\ due \in Nat
  BY DEF RecordsInv, RecordsTypeOK
<1>1. SampleOf(calls + 1) \in Nat /\ SampleOf(calls + 1) <= sample
  <2>1. CASE calls + 1 <= Len(collected)
    <3>1. calls + 1 \in 1 .. Len(collected) BY <1>0, <2>1
    <3>2. collected[calls + 1].sample \in Nat BY <3>1, CallTypes DEF RecordsInv
    <3>3. collected[calls + 1].sample <= sample BY <3>1 DEF RecordsInv, CallsInTurn
    <3> QED BY <2>1, <3>2, <3>3 DEF SampleOf
  <2>2. CASE ~(calls + 1 <= Len(collected))
    BY <1>0, <2>2 DEF SampleOf
  <2> QED BY <2>1, <2>2
<1>2. ASSUME NoneSpilled PROVE Len(records) < sample
  <2>1. CASE phase = "measure"
    <3>1. records = <<>> BY <2>1 DEF RecordsInv, ReaderInStep
    <3> QED BY <1>0, <3>1
  <2>2. CASE phase # "measure"
    <3>1. Len(records) = SampleOf(calls + 1) - 1
      BY <1>2, <2>2 DEF RecordsInv, ReaderInStep
    <3> QED BY <1>0, <1>1, <3>1
  <2> QED BY <2>1, <2>2
<1>3. ASSUME phase = "eof", NoneFailed(Len(collected))
      PROVE calls = Len(collected) /\ Len(records) = sample - 1
  <2>1. /\ rpos = size /\ rpos = DueOf(calls + 1) /\ calls <= Len(collected)
        /\ Len(records) = SampleOf(calls + 1) - 1
    <3>1. NoneFailed(calls) BY <1>3 DEF NoneFailed
    <3> QED BY <1>3, <3>1 DEF RecordsInv, ReaderInStep
  <2>2. size = due BY <1>3 DEF RecordsInv, WrittenWhereDue
  <2>3. ~(calls + 1 <= Len(collected))
    <3>1. SUFFICES ASSUME calls + 1 <= Len(collected) PROVE FALSE
      OBVIOUS
    <3>2. calls + 1 \in 1 .. Len(collected) BY <1>0, <3>1
    <3>3. collected[calls + 1].due < due BY <3>2 DEF RecordsInv, CallsInTurn
    <3>4. DueOf(calls + 1) = collected[calls + 1].due BY <3>1 DEF DueOf
    <3>5. collected[calls + 1].due = due BY <2>1, <2>2, <3>4
    <3> QED BY <1>0, <3>3, <3>5
  <2> QED BY <1>0, <2>1, <2>3 DEF SampleOf
<1> QED BY <1>2, <1>3 DEF EverySampleIsRead

-----------------------------------------------------------------------------
LEMMA RecordsInvariant == RecordsSpec => []RecordsInv
<1>1. RecordsInit => RecordsInv BY RecordsStart
<1>2. RecordsInv /\ [RecordsNext]_recordVars => RecordsInv' BY RecordsStep
<1> QED BY <1>1, <1>2, PTL DEF RecordsSpec

\* The state of the records has its type.
THEOREM RecordsTypeCorrect == RecordsSpec => []RecordsTypeOK
<1>1. RecordsInv => RecordsTypeOK BY DEF RecordsInv
<1> QED BY <1>1, RecordsInvariant, PTL

\* As long as no collect function failed, each field of each record is the
\* reading of its own sample, for any fields, widths and texts.
THEOREM ReadingsAreSamplesAlways == RecordsSpec => []ReadingsAreSamples
  BY InvGivesReadings, RecordsInvariant, PTL

\* There is never a record without a sample, unless a collect function that read
\* nothing spilt blanks; and without a failure no sample without a record.
THEOREM EverySampleIsReadAlways == RecordsSpec => []EverySampleIsRead
  BY InvGivesEverySample, RecordsInvariant, PTL

\* Every step of a run is one of the table's reading or leaves it alone ...
THEOREM FilesImplementTable == FilesSpec => TableSpec
<1>1. FilesInit => TableInit BY DEF FilesInit
<1>2. [FilesNext]_filesVars => [TableNext]_tableVars
  BY DEF FilesNext, filesVars, ReadTable, Prepare, Measure, WriteTable, ReadRecord,
         WriteLine, WriteSummary
<1> QED BY <1>1, <1>2, PTL DEF FilesSpec, TableSpec

\* ... and one of the records or leaves them alone: what holds of each on its own
\* holds of a run.
THEOREM FilesImplementRecords == FilesSpec => RecordsSpec
<1>1. FilesInit => RecordsInit BY DEF FilesInit
<1>2. [FilesNext]_filesVars => [RecordsNext]_recordVars
  BY DEF FilesNext, filesVars, RecordsNext, ReadTable, Prepare, Measure, WriteTable,
         ReadRecord, WriteLine, WriteSummary
<1> QED BY <1>1, <1>2, PTL DEF FilesSpec, RecordsSpec

-----------------------------------------------------------------------------
(* Sums are defined recursively: their equations come from a least            *)
(* counterexample.                                                            *)

\* A set of numbers has a least one, which is what induction rests on here.
LEMMA LeastOne ==
  ASSUME NEW S \in SUBSET Nat, S # {}
  PROVE  \E m \in S : \A k \in 0 .. m - 1 : k \notin S
<1>1. PICK m \in S : \A k \in S : ~(<<k, m>> \in OpToRel(<, Nat))
  BY WFMin, NatLessThanWellFounded
<1>2. \A k \in 0 .. m - 1 : <<k, m>> \in OpToRel(<, Nat)
  BY DEF OpToRel
<1> QED BY <1>1, <1>2

\* There are sums of the first k of a sequence, for every k it has: a least k
\* without them would have a predecessor with them.
LEMMA SumsExist ==
  ASSUME NEW f \in Seq(Int), NEW n \in Nat, n <= Len(f)
  PROVE  \E s \in [0 .. n -> Int] : \A m \in 0 .. n : s[m] = IF m = 0 THEN 0 ELSE s[m - 1] + f[m]
<1> DEFINE P(k) == \E s \in [0 .. k -> Int] :
             \A m \in 0 .. k : s[m] = IF m = 0 THEN 0 ELSE s[m - 1] + f[m]
           Bad == {k \in 0 .. Len(f) : ~P(k)}
<1>1. SUFFICES ASSUME Bad # {} PROVE FALSE
  <2>1. Len(f) \in Nat /\ n \in 0 .. Len(f) OBVIOUS
  <2>2. Bad = {} => P(n)
    <3> HIDE DEF P
    <3> QED BY <2>1
  <2> QED BY <2>2
<1>2. PICK k \in Bad : \A j \in 0 .. k - 1 : j \notin Bad
  <2>1. Bad \in SUBSET Nat OBVIOUS
  <2> HIDE DEF Bad
  <2> QED BY <1>1, <2>1, LeastOne
<1>3. P(0)
  <2> DEFINE s == [m \in 0 .. 0 |-> 0]
  <2>1. s \in [0 .. 0 -> Int] OBVIOUS
  <2>2. \A m \in 0 .. 0 : s[m] = IF m = 0 THEN 0 ELSE s[m - 1] + f[m] OBVIOUS
  <2> QED BY <2>1, <2>2
<1>4. k # 0 /\ k - 1 \in 0 .. k - 1 /\ k - 1 \in 0 .. Len(f) /\ k \in 1 .. Len(f)
  <2> HIDE DEF P
  <2>1. Len(f) \in Nat /\ k \in 0 .. Len(f) /\ k # 0 BY <1>2, <1>3
  <2> QED BY <2>1
<1>5. P(k - 1)
  <2> HIDE DEF P
  <2> QED BY <1>2, <1>4
<1>6. PICK s \in [0 .. k - 1 -> Int] :
        \A m \in 0 .. k - 1 : s[m] = IF m = 0 THEN 0 ELSE s[m - 1] + f[m]
  BY <1>5
<1>7. P(k)
  <2> DEFINE t == [m \in 0 .. k |-> IF m = k THEN s[k - 1] + f[k] ELSE s[m]]
  <2>1. f[k] \in Int /\ s[k - 1] \in Int
    BY <1>4
  <2>2. t \in [0 .. k -> Int]
    BY <1>4, <2>1
  <2>3. \A m \in 0 .. k : t[m] = IF m = 0 THEN 0 ELSE t[m - 1] + f[m]
    <3> SUFFICES ASSUME NEW m \in 0 .. k PROVE t[m] = IF m = 0 THEN 0 ELSE t[m - 1] + f[m]
      OBVIOUS
    <3>1. CASE m = k
      <4>1. t[m] = s[k - 1] + f[k] /\ t[m - 1] = s[k - 1] BY <3>1, <1>4
      <4> QED BY <3>1, <1>4, <4>1
    <3>2. CASE m # k
      <4>1. m \in 0 .. k - 1 /\ (m # 0 => m - 1 \in 0 .. k - 1) BY <3>2, <1>4
      <4>2. t[m] = s[m] /\ (m # 0 => t[m - 1] = s[m - 1]) BY <4>1, <1>4
      <4> QED BY <4>1, <4>2, <1>6
    <3> QED BY <3>1, <3>2
  <2> QED BY <2>2, <2>3
<1> QED BY <1>2, <1>7

\* Therefore Sums chooses them, and there is but one function that it can choose.
LEMMA SumsAreThem ==
  ASSUME NEW f \in Seq(Int)
  PROVE  /\ Sums(f) \in [0 .. Len(f) -> Int]
         /\ \A m \in 0 .. Len(f) : Sums(f)[m] = IF m = 0 THEN 0 ELSE Sums(f)[m - 1] + f[m]
<1>0. Len(f) \in Nat OBVIOUS
<1>1. PICK s \in [0 .. Len(f) -> Int] :
        \A m \in 0 .. Len(f) : s[m] = IF m = 0 THEN 0 ELSE s[m - 1] + f[m]
  BY <1>0, SumsExist
<1>2. s = [m \in 0 .. Len(f) |-> IF m = 0 THEN 0 ELSE s[m - 1] + f[m]]
  BY <1>1
<1> DEFINE sums == Sums(f)
<1>3. sums = [m \in 0 .. Len(f) |-> IF m = 0 THEN 0 ELSE sums[m - 1] + f[m]]
  BY <1>2 DEF Sums
<1> HIDE DEF sums
<1>4. \A m \in 0 .. Len(f) : sums[m] = IF m = 0 THEN 0 ELSE sums[m - 1] + f[m]
  BY <1>3
<1>5. \A m \in 0 .. Len(f) : sums[m] = s[m]
  <2> DEFINE Bad == {m \in 0 .. Len(f) : sums[m] # s[m]}
  <2>1. SUFFICES ASSUME Bad # {} PROVE FALSE OBVIOUS
  <2>2. PICK k \in Bad : \A j \in 0 .. k - 1 : j \notin Bad
    <3>1. Bad \in SUBSET Nat OBVIOUS
    <3> HIDE DEF Bad
    <3> QED BY <2>1, <3>1, LeastOne
  <2>3. CASE k = 0 BY <2>2, <2>3, <1>1, <1>4
  <2>4. CASE k # 0
    <3>1. k - 1 \in 0 .. k - 1 /\ k - 1 \in 0 .. Len(f) BY <2>2, <2>4, <1>0
    <3>2. sums[k - 1] = s[k - 1] BY <2>2, <3>1
    <3>3. sums[k] = sums[k - 1] + f[k] BY <1>4, <2>2, <2>4
    <3>4. s[k] = s[k - 1] + f[k] BY <1>1, <2>2, <2>4
    <3> QED BY <2>2, <3>2, <3>3, <3>4
  <2> QED BY <2>3, <2>4
<1>6. sums = s
  BY <1>1, <1>3, <1>5
<1> QED BY <1>1, <1>6 DEF sums

\* Sums of lengths grow, and none is more than all.
LEMMA SumsGrow ==
  ASSUME NEW f \in Seq(Nat)
  PROVE  /\ Total(f) \in Nat
         /\ Sums(f)[0] = 0
         /\ \A k \in 0 .. Len(f) : Sums(f)[k] \in Nat /\ Sums(f)[k] <= Total(f)
         /\ \A k \in 1 .. Len(f) : Sums(f)[k] = Sums(f)[k - 1] + f[k]
<1> DEFINE s == Sums(f)
<1>1. /\ f \in Seq(Int) /\ Len(f) \in Nat
      /\ \A k \in 1 .. Len(f) : f[k] \in Nat
  OBVIOUS
<1>2. /\ s \in [0 .. Len(f) -> Int]
      /\ \A m \in 0 .. Len(f) : s[m] = IF m = 0 THEN 0 ELSE s[m - 1] + f[m]
  BY <1>1, SumsAreThem
<1>3. Total(f) = s[Len(f)]
  BY DEF Total
<1> HIDE DEF s
<1>4. s[0] = 0 /\ \A k \in 1 .. Len(f) : s[k] = s[k - 1] + f[k]
  BY <1>1, <1>2
<1>5. \A k \in 0 .. Len(f) : s[k] >= 0
  <2> DEFINE Bad == {k \in 0 .. Len(f) : ~(s[k] >= 0)}
  <2>1. SUFFICES ASSUME Bad # {} PROVE FALSE
    OBVIOUS
  <2>2. PICK k \in Bad : \A j \in 0 .. k - 1 : j \notin Bad
    <3>1. Bad \in SUBSET Nat OBVIOUS
    <3> HIDE DEF Bad
    <3> QED BY <2>1, <3>1, LeastOne
  <2>3. k \in 0 .. Len(f) /\ ~(s[k] >= 0) /\ k # 0
    BY <2>2, <1>4
  <2>4. k \in 1 .. Len(f) /\ k - 1 \in 0 .. k - 1 /\ k - 1 \in 0 .. Len(f)
    BY <2>3, <1>1
  <2>5. s[k - 1] >= 0
    BY <2>2, <2>4
  <2>6. s[k] = s[k - 1] + f[k] /\ f[k] >= 0 /\ s[k - 1] \in Int /\ f[k] \in Int
    BY <1>1, <1>2, <1>4, <2>4
  <2> QED BY <2>3, <2>5, <2>6
<1>6. \A k \in 0 .. Len(f) : s[Len(f) - k] <= s[Len(f)]
  <2> DEFINE Bad == {k \in 0 .. Len(f) : ~(s[Len(f) - k] <= s[Len(f)])}
  <2>1. SUFFICES ASSUME Bad # {} PROVE FALSE
    OBVIOUS
  <2>2. PICK k \in Bad : \A j \in 0 .. k - 1 : j \notin Bad
    <3>1. Bad \in SUBSET Nat OBVIOUS
    <3> HIDE DEF Bad
    <3> QED BY <2>1, <3>1, LeastOne
  <2>3. k \in 0 .. Len(f) /\ ~(s[Len(f) - k] <= s[Len(f)])
    BY <2>2
  <2>4. k # 0
    <3>1. s[Len(f)] \in Int BY <1>1, <1>2
    <3> SUFFICES ASSUME k = 0 PROVE FALSE OBVIOUS
    <3>2. Len(f) - k = Len(f) BY <1>1
    <3> QED BY <2>3, <3>1, <3>2
  <2>5. /\ k - 1 \in 0 .. k - 1 /\ k - 1 \in 0 .. Len(f)
        /\ Len(f) - k \in 0 .. Len(f) /\ Len(f) - (k - 1) \in 1 .. Len(f)
        /\ (Len(f) - (k - 1)) - 1 = Len(f) - k
    BY <2>3, <2>4, <1>1
  <2>6. s[Len(f) - (k - 1)] <= s[Len(f)]
    BY <2>2, <2>5
  <2>7. s[Len(f) - (k - 1)] = s[Len(f) - k] + f[Len(f) - (k - 1)]
    BY <1>4, <2>5
  <2>8. f[Len(f) - (k - 1)] \in Int /\ s[Len(f) - k] \in Int
    <3>1. f[Len(f) - (k - 1)] \in Nat
      <4> DEFINE j == Len(f) - (k - 1)
      <4>1. j \in 1 .. Len(f) BY <2>5
      <4> HIDE DEF j
      <4>2. f[j] \in Nat BY <1>1, <4>1
      <4> QED BY <4>2 DEF j
    <3>2. s[Len(f) - k] \in Int
      BY <1>2, <2>5
    <3> QED BY <3>1, <3>2
  <2>9. s[Len(f)] \in Int
    <3>1. Len(f) \in 0 .. Len(f) BY <1>1
    <3> QED BY <1>2, <3>1
  <2> QED BY <2>3, <2>6, <2>7, <2>8, <2>9
<1>7. \A k \in 0 .. Len(f) : s[k] \in Nat /\ s[k] <= s[Len(f)]
  <2> TAKE k \in 0 .. Len(f)
  <2>1. Len(f) - k \in 0 .. Len(f) /\ Len(f) - (Len(f) - k) = k
    BY <1>1
  <2>2. s[Len(f) - (Len(f) - k)] <= s[Len(f)]
    BY <1>6, <2>1
  <2>3. s[k] \in Int /\ s[k] >= 0
    BY <1>2, <1>5
  <2> QED BY <2>1, <2>2, <2>3
<1>8. s[Len(f)] \in Nat
  BY <1>1, <1>7
<1> QED BY <1>3, <1>4, <1>7, <1>8 DEF s

-----------------------------------------------------------------------------
(* The table of the statistics file: a line is aligned as far as it has been  *)
(* written, and it is left when it has all columns.                           *)

StatNext ==
  \/ Reserve \/ RegisterRow \/ OpenStat \/ WriteHeader \/ WriteColumn
  \/ \E kind \in Kinds : NewLine(kind)
  \/ Rewind \/ PrintRow \/ StartSummaries \/ PrintSummary \/ CloseStat

\* The columns of this line that may be too long, and what is said of the others.
Overlongs == {k \in 1 .. Len(cells) : Overlong(Columns[k])}

InPlace ==
  \A i \in {0} \cup Overlongs : \A j \in i .. Len(cells) :
    (\A k \in Overlongs : k <= i \/ j < k)
      => CellEnd(j) = CellEnd(i) + Places[j] - Places[i]

CellsInv ==
  /\ cells \in Seq(Nat)
  /\ stat_at \in {"expinfo", "register"} => line = "header" /\ cells = <<>>
  /\ stat_at = "cells" => Len(cells) < Len(Columns)
  /\ stat_at \notin {"expinfo", "register", "cells"} => Len(cells) = Len(Columns)
  /\ InPlace

\* The places are sums of the widths.
LEMMA PlacesAdd ==
  /\ Places[0] = 0
  /\ \A k \in 0 .. Len(Columns) : Places[k] \in Nat
  /\ \A k \in 1 .. Len(Columns) : Places[k] = Places[k - 1] + 2 + Columns[k].colwidth
<1> DEFINE f == [k \in 1 .. Len(Columns) |-> 2 + Columns[k].colwidth]
<1>1. Len(Columns) \in Nat /\ \A k \in 1 .. Len(Columns) : Columns[k].colwidth \in Nat
  <2>1. Columns \in Seq(Column) BY StatAssumption
  <2>2. \A k \in 1 .. Len(Columns) : Columns[k] \in Column BY <2>1
  <2> QED BY <2>1, <2>2 DEF Column
<1>2. f \in Seq(Nat) /\ Len(f) = Len(Columns)
      /\ \A k \in 1 .. Len(Columns) : f[k] = 2 + Columns[k].colwidth
  BY <1>1
<1>3. Places = [j \in 0 .. Len(Columns) |-> Sums(f)[j]]
  BY DEF Places
<1> HIDE DEF f
<1>4. /\ Sums(f)[0] = 0
      /\ \A k \in 0 .. Len(Columns) : Sums(f)[k] \in Nat
      /\ \A k \in 1 .. Len(Columns) : Sums(f)[k] = Sums(f)[k - 1] + f[k]
  BY <1>2, SumsGrow
<1>5. \A k \in 0 .. Len(Columns) : Places[k] = Sums(f)[k]
  BY <1>3
<1>6. \A k \in 1 .. Len(Columns) : Places[k] = Places[k - 1] + 2 + Columns[k].colwidth
  <2> TAKE k \in 1 .. Len(Columns)
  <2>1. k \in 0 .. Len(Columns) /\ k - 1 \in 0 .. Len(Columns) BY <1>1
  <2>2. /\ Places[k] = Sums(f)[k] /\ Places[k - 1] = Sums(f)[k - 1]
        /\ Sums(f)[k - 1] \in Nat
        /\ Sums(f)[k] = Sums(f)[k - 1] + f[k]
    BY <1>4, <1>5, <2>1
  <2>3. f[k] = 2 + Columns[k].colwidth /\ Columns[k].colwidth \in Nat
    BY <1>1, <1>2
  <2>4. \A s, w \in Nat : s + (2 + w) = s + 2 + w
    OBVIOUS
  <2>5. Sums(f)[k] = Sums(f)[k - 1] + 2 + Columns[k].colwidth
    BY <2>2, <2>3, <2>4
  <2> QED BY <2>2, <2>5
<1> QED BY <1>1, <1>4, <1>5, <1>6

\* What a column of a line takes, whoever writes or pads it.
LEMMA WidthOf ==
  ASSUME CellsInv, WriteHeader \/ WriteColumn
  PROVE  /\ stat_at = "cells"
         /\ \E width \in Nat :
              /\ Cell(width)
              /\ ~Overlong(Columns[Len(cells) + 1])
                   => width = Columns[Len(cells) + 1].colwidth
<1> DEFINE column == Columns[Len(cells) + 1]
<1>1. /\ stat_at = "cells" /\ cells \in Seq(Nat) /\ Len(cells) < Len(Columns)
      /\ Len(cells) + 1 \in 1 .. Len(Columns)
  BY StatAssumption DEF WriteHeader, WriteColumn, CellsInv
<1>2. column \in Column
  BY <1>1, StatAssumption
<1>3. column.colwidth \in Nat /\ column.colname \in Nat /\ column.values \subseteq Nat
  BY <1>2 DEF Column
<1>4. CASE WriteHeader
  <2>1. line = "header" /\ Cell(Wider(column.colwidth, column.colname))
    BY <1>4 DEF WriteHeader
  <2> HIDE DEF column
  <2>2. /\ Wider(column.colwidth, column.colname) \in Nat
        /\ ~Overlong(column) => Wider(column.colwidth, column.colname) = column.colwidth
    BY <1>3, <2>1 DEF Wider, Overlong
  <2>3. \E width \in Nat : Cell(width) /\ (~Overlong(column) => width = column.colwidth)
    BY <2>1, <2>2
  <2> QED BY <1>1, <2>3 DEF column
<1>5. CASE WriteColumn
  <2>1. /\ line # "header"
        /\ \/ HasValue(column.logtype) /\ \E width \in ValueLengths(column) : Cell(width)
           \/ Cell(column.colwidth)
    BY <1>5 DEF WriteColumn
  <2> HIDE DEF column
  <2>2. ASSUME HasValue(column.logtype), NEW width \in ValueLengths(column)
        PROVE  width \in Nat /\ (~Overlong(column) => width = column.colwidth)
    <3>1. PICK value \in column.values : width = Wider(column.colwidth, value)
      BY <2>2 DEF ValueLengths
    <3>2. value \in Nat /\ (~Overlong(column) => ~(value > column.colwidth))
      BY <1>3, <2>1, <2>2 DEF Overlong
    <3> QED BY <1>3, <3>1, <3>2 DEF Wider
  <2>3. \E width \in Nat : Cell(width) /\ (~Overlong(column) => width = column.colwidth)
    BY <1>3, <2>1, <2>2
  <2> QED BY <1>1, <2>3 DEF column
<1> QED BY <1>4, <1>5

LEMMA CellKeeps ==
  ASSUME CellsInv, stat_at = "cells", NEW width \in Nat, Cell(width),
         ~Overlong(Columns[Len(cells) + 1]) => width = Columns[Len(cells) + 1].colwidth
  PROVE  CellsInv'
<1> DEFINE before == IF cells = <<>> THEN 0 ELSE cells[Len(cells)]
<1>0. PICK L \in Nat : L = Len(cells)
  BY DEF CellsInv
<1>1. /\ cells \in Seq(Nat) /\ L = Len(cells) /\ L < Len(Columns)
      /\ Len(Columns) \in Nat /\ InPlace
      /\ L \in 0 .. Len(Columns) /\ L + 1 \in 1 .. Len(Columns)
  BY <1>0, StatAssumption DEF CellsInv
<1>2. before = CellEnd(L) /\ before \in Nat
  BY <1>1 DEF CellEnd
<1>3. cells' = Append(cells, 2 + width + before) /\ line' = line
  BY DEF Cell
<1>4. stat_at' = IF Len(cells') = Len(Columns) THEN "lines" ELSE "cells"
  BY DEF Cell
<1> HIDE DEF before
<1>5. /\ cells' \in Seq(Nat) /\ Len(cells') = L + 1
      /\ \A j \in 1 .. L : cells'[j] = cells[j] /\ cells[j] \in Nat
      /\ cells'[L + 1] = 2 + width + before
  BY <1>1, <1>2, <1>3
<1>6. /\ stat_at' = "cells" => Len(cells') < Len(Columns)
      /\ stat_at' # "cells" => Len(cells') = Len(Columns) /\ stat_at' = "lines"
  BY <1>1, <1>4, <1>5
<1>7. \A column : Overlong(column)' <=> Overlong(column)
  BY <1>3 DEF Overlong, HasValue
<1>8. /\ Overlongs \subseteq 1 .. L
      /\ \A k : k \in Overlongs' <=> \/ k \in Overlongs
                                     \/ k = L + 1 /\ Overlong(Columns[L + 1])
  <2>1. \A k : k \in 1 .. Len(cells') <=> k \in 1 .. L \/ k = L + 1
    BY <1>1, <1>5
  <2>2. \A k : k \in Overlongs <=> k \in 1 .. L /\ Overlong(Columns[k])
    BY <1>0 DEF Overlongs
  <2>3. \A k : k \in Overlongs' <=> k \in 1 .. Len(cells') /\ Overlong(Columns[k])'
    BY DEF Overlongs
  <2>4. \A k : Overlong(Columns[k])' <=> Overlong(Columns[k])
    BY <1>7
  <2> QED BY <2>1, <2>2, <2>3, <2>4
<1>9. /\ \A j \in 0 .. L : CellEnd(j)' = CellEnd(j) /\ CellEnd(j) \in Nat
      /\ CellEnd(L + 1)' = 2 + width + CellEnd(L)
  <2>1. L + 1 # 0 /\ \A j \in 0 .. L : j = 0 \/ j \in 1 .. L BY <1>1
  <2>2. \A j \in Nat : CellEnd(j)' = IF j = 0 THEN 0 ELSE cells'[j]
    BY DEF CellEnd
  <2>3. \A j \in 0 .. L : CellEnd(j)' = CellEnd(j) /\ CellEnd(j) \in Nat
    BY <1>5, <2>1, <2>2 DEF CellEnd
  <2>4. CellEnd(L + 1)' = cells'[L + 1]
    BY <2>1, <2>2
  <2> QED BY <1>2, <1>5, <2>3, <2>4
<1>10. InPlace'
  <2> SUFFICES ASSUME NEW i \in {0} \cup Overlongs', NEW j \in i .. Len(cells'),
                      \A k \in Overlongs' : k <= i \/ j < k
               PROVE  CellEnd(j)' = CellEnd(i)' + Places[j] - Places[i]
    BY DEF InPlace
  <2>1. /\ i \in 0 .. L + 1 /\ j \in 0 .. L + 1 /\ i <= j
    BY <1>1, <1>5, <1>8
  <2>2. Places[i] \in Nat /\ Places[j] \in Nat
    <3>1. i \in 0 .. Len(Columns) /\ j \in 0 .. Len(Columns) BY <1>1, <2>1
    <3> QED BY <3>1, PlacesAdd
  <2>3. CASE j = i
    <3>1. CellEnd(i)' \in Nat
      <4>1. CASE i \in 0 .. L BY <1>9, <4>1
      <4>2. CASE i = L + 1
        <5>1. CellEnd(L) \in Nat BY <1>1, <1>2
        <5> QED BY <1>9, <4>2, <5>1
      <4> QED BY <1>1, <2>1, <4>1, <4>2
    <3> QED BY <2>2, <2>3, <3>1
  <2>4. CASE j # i
    <3>1. /\ i \in {0} \cup Overlongs /\ i \in 0 .. L /\ i < j
          /\ \A k \in Overlongs : k <= i \/ j < k
      BY <1>1, <1>8, <2>1, <2>4
    <3>2. CASE j \in 0 .. L
      <4>1. j \in i .. Len(cells) BY <1>1, <2>1, <3>2
      <4>2. CellEnd(j) = CellEnd(i) + Places[j] - Places[i]
        BY <1>1, <3>1, <4>1 DEF InPlace
      <4> QED BY <1>9, <3>1, <3>2, <4>2
    <3>3. CASE j = L + 1
      <4>1. ~Overlong(Columns[L + 1])
        <5> SUFFICES ASSUME Overlong(Columns[L + 1]) PROVE FALSE OBVIOUS
        <5>1. L + 1 \in Overlongs' BY <1>8
        <5>2. L + 1 <= i \/ j < L + 1 BY <5>1
        <5> QED BY <1>1, <3>1, <3>3, <5>2
      <4>2. CellEnd(L) = CellEnd(i) + Places[L] - Places[i]
        <5>1. L \in i .. Len(cells) BY <1>1, <3>1
        <5>2. \A k \in Overlongs : k <= i \/ L < k BY <1>1, <1>8, <3>1, <3>3
        <5> QED BY <1>1, <3>1, <5>1, <5>2 DEF InPlace
      <4>3. Places[L + 1] = Places[L] + 2 + width /\ Places[L] \in Nat
        <5>1. Places[L + 1] = Places[L + 1 - 1] + 2 + Columns[L + 1].colwidth
          BY <1>1, PlacesAdd
        <5>2. L + 1 - 1 = L BY <1>1
        <5>3. width = Columns[L + 1].colwidth BY <1>0, <4>1
        <5> QED BY <1>1, <5>1, <5>2, <5>3, PlacesAdd
      <4>4. CellEnd(i)' = CellEnd(i) /\ CellEnd(i) \in Nat BY <1>9, <3>1
      <4>5. CellEnd(j)' = 2 + width + CellEnd(L) BY <1>9, <3>3
      <4>6. Places[j] = Places[L] + 2 + width BY <3>3, <4>3
      <4>7. CellEnd(j)' = 2 + width + (CellEnd(i)' + Places[L] - Places[i])
        BY <4>2, <4>4, <4>5
      <4>8. CellEnd(i)' \in Nat BY <4>4
      <4>9. \A b, p, q, w \in Nat : 2 + w + (b + p - q) = b + (p + 2 + w) - q
        OBVIOUS
      <4>10. 2 + width + (CellEnd(i)' + Places[L] - Places[i])
               = CellEnd(i)' + (Places[L] + 2 + width) - Places[i]
        BY <2>2, <4>3, <4>8, <4>9
      <4> QED BY <4>6, <4>7, <4>10
    <3> QED BY <1>1, <2>1, <3>2, <3>3
  <2> QED BY <2>3, <2>4
<1> QED BY <1>4, <1>5, <1>6, <1>10 DEF CellsInv

\* An empty line is in place.
LEMMA EmptyInPlace == cells = <<>> => InPlace
<1> SUFFICES ASSUME cells = <<>> PROVE InPlace OBVIOUS
<1>1. Len(cells) = 0 /\ Overlongs = {} BY DEF Overlongs
<1>2. Places[0] = 0 BY PlacesAdd
<1>3. CellEnd(0) = 0 BY DEF CellEnd
<1> QED BY <1>1, <1>2, <1>3 DEF InPlace

\* So is one that is left alone.
LEMMA LineStays == InPlace /\ UNCHANGED <<cells, line>> => InPlace'
BY DEF InPlace, Overlongs, Overlong, HasValue, CellEnd

LEMMA CellsStart == StatInit => CellsInv
BY EmptyInPlace DEF StatInit, CellsInv

LEMMA CellsStep == ASSUME CellsInv, StatNext \/ UNCHANGED statVars PROVE CellsInv'
<1>1. CASE WriteHeader \/ WriteColumn
  BY <1>1, WidthOf, CellKeeps
<1>2. CASE \E kind \in Kinds : NewLine(kind)
  <2>1. cells' = <<>> /\ stat_at' = "cells"
    BY <1>2 DEF NewLine
  <2>2. 0 < Len(Columns)
    BY StatAssumption
  <2>3. InPlace'
    <3>1. Len(cells') = 0 /\ Overlongs' = {} BY <2>1 DEF Overlongs
    <3>2. CellEnd(0)' = 0 /\ Places[0] = 0 BY PlacesAdd DEF CellEnd
    <3> QED BY <3>1, <3>2 DEF InPlace
  <2> QED BY <2>1, <2>2, <2>3 DEF CellsInv
<1>3. CASE OpenStat
  <2>1. /\ cells = <<>> /\ line = "header"
        /\ cells' = cells /\ line' = line /\ stat_at' = "cells"
    BY <1>3 DEF OpenStat, CellsInv
  <2>2. 0 < Len(Columns)
    BY StatAssumption
  <2>3. InPlace' BY <2>1, LineStays DEF CellsInv
  <2> QED BY <2>1, <2>2, <2>3 DEF CellsInv
<1>4. CASE Reserve \/ RegisterRow \/ UNCHANGED statVars
  <2>1. /\ cells' = cells /\ line' = line
        /\ \/ stat_at' = stat_at
           \/ stat_at = "expinfo" /\ stat_at' = "register"
    BY <1>4 DEF Reserve, RegisterRow, statVars
  <2>2. InPlace' BY <2>1, LineStays DEF CellsInv
  <2> QED BY <2>1, <2>2 DEF CellsInv
<1>5. CASE Rewind \/ PrintRow \/ StartSummaries \/ PrintSummary \/ CloseStat
  <2>1. /\ cells' = cells /\ line' = line
        /\ stat_at \notin {"expinfo", "register", "cells"}
        /\ stat_at' \notin {"expinfo", "register", "cells"}
    BY <1>5 DEF Rewind, PrintRow, StartSummaries, PrintSummary, CloseStat
  <2>2. InPlace' BY <2>1, LineStays DEF CellsInv
  <2> QED BY <2>1, <2>2 DEF CellsInv
<1> QED BY <1>1, <1>2, <1>3, <1>4, <1>5 DEF StatNext

LEMMA StatStep ==
  [FilesNext]_filesVars => StatNext \/ UNCHANGED statVars
BY DEF FilesNext, filesVars, StatNext, ReadTable, Prepare, Measure, WriteTable,
       ReadRecord, WriteLine, WriteSummary

\* For any columns, names and values: whatever lines follow each other, from the
\* start of a line or a text longer than its column to the next such text every
\* column ends where the widths say (power_measurement.c:559-611).
THEOREM ColumnsAlignedAlways == FilesSpec => []ColumnsAligned
<1>1. FilesInit => CellsInv
  BY CellsStart DEF FilesInit
<1>2. CellsInv /\ [FilesNext]_filesVars => CellsInv'
  BY StatStep, CellsStep
<1>3. CellsInv => ColumnsAligned
  BY DEF CellsInv, ColumnsAligned, InPlace, Overlongs
<1> QED BY <1>1, <1>2, <1>3, PTL DEF FilesSpec

-----------------------------------------------------------------------------
(* The reserved space.  What is written into it is bounded by the sums of the *)
(* longest rows and summaries so far, and by less than them as soon as a unit *)
(* that nobody wrote was not the longest.                                     *)

Within(used, units, length) ==
  /\ used <= length
  /\ \A i \in DOMAIN units : used <= length - (Longest(UnitGarbage) - units[i])

\* How much of the space was used, and that it is no more than counted.
Used == stat_offset - summary_start

UpTo(length) == Within(Used, garbage, length)

StatTypes ==
  /\ stat_at \in {"expinfo", "register", "cells", "lines", "rows", "summaries", "closed"}
  /\ stat_offset \in Int /\ summary_start \in Nat /\ metadata_end \in Int
  /\ row \in Seq(DOMAIN Rows)
  /\ line \in Kinds \cup {"header"}
  /\ num_line \in [Kinds -> 0 .. MaxLines]
  /\ printed \in Nat
  /\ garbage \in Seq(UnitGarbage)

SpaceInv ==
  /\ stat_at # "expinfo" => metadata_end = summary_start + Total(Reserved) + GuardBanding
  /\ \A k \in 1 .. Len(row) : row[k] = k
  /\ stat_at \notin {"expinfo", "register"} => Len(row) = Len(Rows)
  /\ stat_at \in {"expinfo", "register", "cells", "lines"} => printed = 0 /\ garbage = <<>>
  /\ stat_at = "rows" =>
       printed <= Len(Rows) /\ UpTo(Sums(LongestRows)[printed])
  /\ stat_at = "summaries" =>
       /\ printed <= Len(Summaries)
       /\ UpTo(Total(LongestRows) + Sums(LongestSummaries)[printed])
  /\ stat_at = "closed" => UpTo(Total(LongestRows) + Total(LongestSummaries) + 1)

\* A set of lengths of the code has a longest one.
LEMMA LongestOfSet ==
  ASSUME NEW S \in SUBSET Nat,
         S # {} => \E length \in S : \A other \in S : other <= length
  PROVE  Longest(S) \in Nat /\ \A other \in S : other <= Longest(S)
BY DEF Longest

LEMMA LongestOfTheCode ==
  /\ Longest(UnitGarbage) \in Nat /\ \A unit \in UnitGarbage : unit <= Longest(UnitGarbage)
  /\ LongestRows \in Seq(Nat) /\ Len(LongestRows) = Len(Rows)
  /\ \A k \in 1 .. Len(Rows) :
       IF Rows[k].data = {}
         THEN LongestRows[k] = Rows[k].message + Longest(UnitGarbage)
         ELSE \A data \in Rows[k].data :
                Rows[k].message + data + Rows[k].unit <= LongestRows[k]
  /\ LongestSummaries \in Seq(Nat) /\ Len(LongestSummaries) = Len(Summaries)
  /\ \A k \in 1 .. Len(Summaries) :
       \A length \in Summaries[k] : length <= LongestSummaries[k]
<1>1. /\ UnitGarbage \in SUBSET Nat /\ Len(Rows) \in Nat /\ Len(Summaries) \in Nat
      /\ \A k \in 1 .. Len(Rows) : Rows[k] \in Row
      /\ \A k \in 1 .. Len(Summaries) : Summaries[k] \in SUBSET Nat
  BY StatAssumption
<1>2. \A k \in 1 .. Len(Rows) :
        Rows[k].message \in Nat /\ Rows[k].data \in SUBSET Nat /\ Rows[k].unit \in Nat
  BY <1>1 DEF Row
<1>3. /\ Longest(UnitGarbage) \in Nat
      /\ \A unit \in UnitGarbage : unit <= Longest(UnitGarbage)
  <2>1. UnitGarbage # {} =>
          \E length \in UnitGarbage : \A other \in UnitGarbage : other <= length
    BY SpaceAssumption
  <2> QED BY <1>1, <2>1, LongestOfSet
<1>4. \A k \in 1 .. Len(Rows) :
        /\ Longest(Rows[k].data) \in Nat
        /\ \A data \in Rows[k].data : data <= Longest(Rows[k].data)
  <2> TAKE k \in 1 .. Len(Rows)
  <2>1. Rows[k].data # {} =>
          \E length \in Rows[k].data : \A other \in Rows[k].data : other <= length
    BY SpaceAssumption
  <2> QED BY <1>2, <2>1, LongestOfSet
<1>5. \A k \in 1 .. Len(Summaries) :
        /\ Longest(Summaries[k]) \in Nat
        /\ \A length \in Summaries[k] : length <= Longest(Summaries[k])
  <2> TAKE k \in 1 .. Len(Summaries)
  <2>1. Summaries[k] # {} =>
          \E length \in Summaries[k] : \A other \in Summaries[k] : other <= length
    BY SpaceAssumption
  <2> QED BY <1>1, <2>1, LongestOfSet
<1>6. \A k \in 1 .. Len(Rows) :
        /\ LongestRows[k] \in Nat
        /\ IF Rows[k].data = {}
             THEN LongestRows[k] = Rows[k].message + Longest(UnitGarbage)
             ELSE \A data \in Rows[k].data :
                    Rows[k].message + data + Rows[k].unit <= LongestRows[k]
  <2> TAKE k \in 1 .. Len(Rows)
  <2>1. CASE Rows[k].data = {}
    <3>1. LongestRows[k] = Rows[k].message + Longest(UnitGarbage)
      BY <2>1 DEF LongestRows
    <3> QED BY <1>2, <1>3, <2>1, <3>1
  <2>2. CASE Rows[k].data # {}
    <3>1. LongestRows[k] = Rows[k].message + (Longest(Rows[k].data) + Rows[k].unit)
      BY <2>2 DEF LongestRows
    <3>2. \A data \in Rows[k].data : data \in Nat /\ data <= Longest(Rows[k].data)
      BY <1>2, <1>4
    <3> QED BY <1>2, <1>4, <2>2, <3>1, <3>2
  <2> QED BY <2>1, <2>2
<1>7. LongestRows \in Seq(Nat) /\ Len(LongestRows) = Len(Rows)
  <2>1. LongestRows \in [1 .. Len(Rows) -> Nat]
    BY <1>6 DEF LongestRows
  <2> HIDE DEF LongestRows
  <2> QED BY <1>1, <2>1
<1>8. LongestSummaries \in Seq(Nat) /\ Len(LongestSummaries) = Len(Summaries)
  <2>1. LongestSummaries \in [1 .. Len(Summaries) -> Nat]
    BY <1>5 DEF LongestSummaries
  <2> QED BY <1>1, <2>1
<1>9. \A k \in 1 .. Len(Summaries) :
        \A length \in Summaries[k] : length <= LongestSummaries[k]
  BY <1>5 DEF LongestSummaries
<1> QED BY <1>3, <1>6, <1>7, <1>8, <1>9

LEMMA SpaceStart == StatInit => StatTypes /\ SpaceInv
BY StatAssumption DEF StatInit, StatTypes, SpaceInv, Kinds

\* What a step may add, and what it leaves alone.
LEMMA StatTypesStep ==
  ASSUME StatTypes, SpaceInv, CellsInv, StatNext \/ UNCHANGED statVars
  PROVE  StatTypes'
<1>0. /\ Expinfo \subseteq Nat /\ Total(Reserved) \in Int /\ GuardBanding \in Nat
      /\ Len(Rows) \in Nat /\ DOMAIN Rows = 1 .. Len(Rows) /\ MaxLines \in Nat
  <2>1. /\ Expinfo \subseteq Nat /\ Reserved \in Seq(Int) /\ GuardBanding \in Nat
        /\ Rows \in Seq(Row) /\ MaxLines \in Nat
    BY StatAssumption
  <2>2. Total(Reserved) \in Int
    <3>1. Sums(Reserved) \in [0 .. Len(Reserved) -> Int]
      BY <2>1, SumsAreThem
    <3>2. Len(Reserved) \in 0 .. Len(Reserved)
      BY <2>1
    <3> QED BY <3>1, <3>2 DEF Total
  <2> QED BY <2>1, <2>2
<1>1. CASE Reserve
  <2>1. PICK length \in Expinfo :
          /\ stat_offset' = length + Total(Reserved) + GuardBanding
          /\ summary_start' = length
    BY <1>1 DEF Reserve
  <2>2. /\ metadata_end' = stat_offset' /\ stat_at' = "register"
        /\ UNCHANGED <<row, line, num_line, cells, printed, garbage>>
    BY <1>1 DEF Reserve
  <2>3. length \in Nat
    BY <1>0
  <2> QED BY <1>0, <2>1, <2>2, <2>3 DEF StatTypes
<1>2. CASE RegisterRow
  <2>1. /\ row' = Append(row, Len(row) + 1) /\ Len(row) < Len(Rows)
        /\ UNCHANGED <<stat_at, stat_offset, summary_start, metadata_end, line,
                       num_line, cells, printed, garbage>>
    BY <1>2 DEF RegisterRow
  <2>2. row \in Seq(DOMAIN Rows) /\ Len(row) + 1 \in DOMAIN Rows
    BY <1>0, <2>1 DEF StatTypes
  <2>3. row' \in Seq(DOMAIN Rows)
    <3> DEFINE D == DOMAIN Rows
    <3>1. row \in Seq(D) /\ Len(row) + 1 \in D BY <2>2
    <3> HIDE DEF D
    <3>2. row' \in Seq(D) BY <2>1, <3>1
    <3> QED BY <3>2 DEF D
  <2> QED BY <2>1, <2>3 DEF StatTypes
<1>3. CASE OpenStat
  BY <1>3 DEF OpenStat, StatTypes
<1>4. CASE WriteHeader \/ WriteColumn
  <2>1. PICK width \in Nat : Cell(width)
    BY <1>4, WidthOf
  <2>2. /\ stat_offset' = stat_offset + 2 + width /\ stat_at' \in {"lines", "cells"}
        /\ UNCHANGED <<summary_start, metadata_end, row, line, num_line, printed, garbage>>
    BY <2>1 DEF Cell
  <2>3. stat_offset' \in Int
    BY <2>2 DEF StatTypes
  <2> QED BY <2>2, <2>3 DEF StatTypes
<1>5. CASE \E kind \in Kinds : NewLine(kind)
  <2>1. PICK kind \in Kinds : NewLine(kind)
    BY <1>5
  <2>2. /\ num_line[kind] < MaxLines /\ line' = kind
        /\ num_line' = [num_line EXCEPT ![kind] = @ + 1]
        /\ stat_offset' = stat_offset + 1 /\ stat_at' = "cells"
        /\ UNCHANGED <<summary_start, metadata_end, row, printed, garbage>>
    BY <2>1 DEF NewLine
  <2>3. num_line[kind] + 1 \in 0 .. MaxLines
    BY <1>0, <2>1, <2>2 DEF StatTypes
  <2>4. num_line' \in [Kinds -> 0 .. MaxLines] /\ line' \in Kinds \cup {"header"}
    BY <2>1, <2>2, <2>3 DEF StatTypes
  <2> QED BY <2>2, <2>4 DEF StatTypes
<1>6. CASE Rewind \/ StartSummaries
  BY <1>6 DEF Rewind, StartSummaries, StatTypes
<1>7. CASE PrintRow
  <2> DEFINE this == Rows[row[printed + 1]]
  <2>1. /\ printed < Len(row) /\ printed' = printed + 1
        /\ UNCHANGED <<stat_at, summary_start, metadata_end, row, line, num_line, cells>>
    BY <1>7 DEF PrintRow
  <2>2. this \in Row
    <3>1. row[printed + 1] \in DOMAIN Rows
      <4>1. printed + 1 \in 1 .. Len(row) BY <2>1 DEF StatTypes
      <4> QED BY <4>1 DEF StatTypes
    <3> QED BY <3>1, StatAssumption
  <2>3. this.message \in Nat /\ this.data \subseteq Nat /\ this.unit \in Nat
    BY <2>2 DEF Row
  <2>4. \/ /\ \E data \in this.data : stat_offset' = stat_offset + this.message + data + this.unit
           /\ garbage' = garbage
        \/ \E unit \in UnitGarbage : /\ stat_offset' = stat_offset + this.message + unit
                                     /\ garbage' = Append(garbage, unit)
    BY <1>7 DEF PrintRow
  <2> HIDE DEF this
  <2>5. UnitGarbage \subseteq Nat /\ stat_offset \in Int /\ garbage \in Seq(UnitGarbage)
    BY StatAssumption DEF StatTypes
  <2>6. stat_offset' \in Int /\ garbage' \in Seq(UnitGarbage)
    <3>1. CASE \E data \in this.data : /\ stat_offset' = stat_offset + this.message + data + this.unit
                                        /\ garbage' = garbage
      BY <2>3, <2>5, <3>1
    <3>2. CASE \E unit \in UnitGarbage : /\ stat_offset' = stat_offset + this.message + unit
                                          /\ garbage' = Append(garbage, unit)
      <4>1. PICK unit \in UnitGarbage : /\ stat_offset' = stat_offset + this.message + unit
                                        /\ garbage' = Append(garbage, unit)
        BY <3>2
      <4>2. unit \in Nat BY <2>5
      <4>3. stat_offset' \in Int BY <2>3, <2>5, <4>1, <4>2
      <4>4. garbage' \in Seq(UnitGarbage) BY <2>5, <4>1
      <4> QED BY <4>3, <4>4
    <3> QED BY <2>4, <3>1, <3>2
  <2> QED BY <2>1, <2>6 DEF StatTypes
<1>8. CASE PrintSummary
  <2>1. /\ printed < Len(Summaries) /\ printed' = printed + 1
        /\ UNCHANGED <<stat_at, summary_start, metadata_end, row, line, num_line, garbage>>
        /\ \E length \in Summaries[printed + 1] : stat_offset' = stat_offset + length
    BY <1>8 DEF PrintSummary
  <2>2. Summaries[printed + 1] \in SUBSET Nat
    BY <2>1, StatAssumption DEF StatTypes
  <2>3. stat_offset' \in Int
    BY <2>1, <2>2 DEF StatTypes
  <2> QED BY <2>1, <2>3 DEF StatTypes
<1>9. CASE CloseStat
  BY <1>9 DEF CloseStat, StatTypes
<1>10. CASE UNCHANGED statVars
  BY <1>10 DEF statVars, StatTypes
<1> QED BY <1>1, <1>2, <1>3, <1>4, <1>5, <1>6, <1>7, <1>8, <1>9, <1>10 DEF StatNext

\* Whoever writes no more than was counted stays within what is counted.
LEMMA WithinGrows ==
  ASSUME NEW units \in Seq(UnitGarbage), NEW used \in Int, NEW after \in Int,
         NEW a \in Int, NEW b \in Int, Within(used, units, a), after - used <= b - a
  PROVE  Within(after, units, b)
<1>1. UnitGarbage \subseteq Nat
  BY StatAssumption
<1>2. Longest(UnitGarbage) \in Int
  BY LongestOfTheCode
<1>3. after <= b
  BY DEF Within
<1>4. ASSUME NEW i \in DOMAIN units
      PROVE  after <= b - (Longest(UnitGarbage) - units[i])
  <2>1. used <= a - (Longest(UnitGarbage) - units[i])
    BY <1>4 DEF Within
  <2>2. units[i] \in UnitGarbage
    BY <1>4
  <2>3. units[i] \in Nat
    BY <1>1, <2>2, Zenon
  <2> QED BY <1>2, <2>1, <2>3
<1> QED BY <1>3, <1>4 DEF Within

\* A unit that nobody wrote counts as the longest there may be, and for itself
\* where it was shorter.
LEMMA WithinMessage ==
  ASSUME NEW units \in Seq(UnitGarbage), NEW used \in Int, NEW unit \in UnitGarbage,
         NEW a \in Int, NEW m \in Int, Within(used, units, a)
  PROVE  Within(used + m + unit, Append(units, unit), a + (m + Longest(UnitGarbage)))
<1> DEFINE longest == Longest(UnitGarbage)
           b == a + (m + longest)
           after == used + m + unit
           more == Append(units, unit)
<1>1. UnitGarbage \subseteq Nat
  BY StatAssumption
<1>2. longest \in Int /\ unit \in Int /\ unit <= longest
  BY <1>1, LongestOfTheCode
<1>3. used <= a /\ \A i \in DOMAIN units : used <= a - (longest - units[i])
  BY DEF Within
<1>4. /\ DOMAIN more = 1 .. Len(units) + 1 /\ Len(units) \in Nat
      /\ more[Len(units) + 1] = unit
      /\ \A i \in 1 .. Len(units) : more[i] = units[i] /\ i \in DOMAIN units
  OBVIOUS
<1>5. \A i \in DOMAIN units : units[i] \in UnitGarbage
  OBVIOUS
<1>6. \A i \in DOMAIN units : units[i] \in Nat
  BY <1>1, <1>5, Zenon
<1> HIDE DEF longest, more
<1>7. after <= b
  BY <1>2, <1>3
<1>8. ASSUME NEW i \in DOMAIN more
      PROVE  after <= b - (longest - more[i])
  <2>1. CASE i = Len(units) + 1
    BY <1>2, <1>3, <1>4, <2>1
  <2>2. CASE i # Len(units) + 1
    <3>1. i \in DOMAIN units /\ more[i] = units[i]
      BY <1>4, <1>8, <2>2
    <3>2. used <= a - (longest - units[i]) /\ units[i] \in Nat
      BY <1>3, <1>6, <3>1
    <3> QED BY <1>2, <3>1, <3>2
  <2> QED BY <2>1, <2>2
<1> QED BY <1>7, <1>8 DEF Within, longest, more

LEMMA SpaceStep ==
  ASSUME StatTypes, SpaceInv, StatTypes', StatNext \/ UNCHANGED statVars
  PROVE  SpaceInv'
<1> DEFINE R == Sums(LongestRows)
           S == Sums(LongestSummaries)
           TR == Total(LongestRows)
           TS == Total(LongestSummaries)
<1>0. /\ TR \in Nat /\ R[0] = 0
      /\ \A k \in 0 .. Len(Rows) : R[k] \in Nat /\ R[k] <= TR
      /\ \A k \in 1 .. Len(Rows) : R[k] = R[k - 1] + LongestRows[k]
      /\ TS \in Nat /\ S[0] = 0
      /\ \A k \in 0 .. Len(Summaries) : S[k] \in Nat /\ S[k] <= TS
      /\ \A k \in 1 .. Len(Summaries) : S[k] = S[k - 1] + LongestSummaries[k]
  BY LongestOfTheCode, SumsGrow
<1>00. /\ R[Len(Rows)] = TR /\ S[Len(Summaries)] = TS
       /\ \A k \in 1 .. Len(Rows) : LongestRows[k] \in Nat
       /\ \A k \in 1 .. Len(Summaries) : LongestSummaries[k] \in Nat
  BY LongestOfTheCode DEF Total
<1>1. /\ Len(Rows) \in Nat /\ Len(Summaries) \in Nat /\ Len(row) \in Nat
      /\ printed \in Nat /\ stat_offset \in Int /\ summary_start \in Nat
      /\ row \in Seq(DOMAIN Rows) /\ garbage \in Seq(UnitGarbage)
      /\ Used \in Int
  <2>1. /\ printed \in Nat /\ stat_offset \in Int /\ summary_start \in Nat
        /\ row \in Seq(DOMAIN Rows) /\ garbage \in Seq(UnitGarbage)
    BY DEF StatTypes
  <2>2. Len(row) \in Nat
    BY <2>1
  <2>3. Len(Rows) \in Nat /\ Len(Summaries) \in Nat
    BY StatAssumption
  <2>4. Used \in Int
    BY <2>1 DEF Used
  <2> QED BY <2>1, <2>2, <2>3, <2>4
<1>2. stat_offset' \in Int /\ summary_start' \in Nat /\ garbage' \in Seq(UnitGarbage)
  BY DEF StatTypes
<1>3. CASE Reserve
  <2>1. \A k \in 1 .. Len(row') : row'[k] = k
    BY <1>3 DEF Reserve, SpaceInv
  <2>2. PICK length \in Expinfo :
          /\ stat_offset' = length + Total(Reserved) + GuardBanding
          /\ summary_start' = length
    BY <1>3 DEF Reserve
  <2>3. metadata_end' = summary_start' + Total(Reserved) + GuardBanding
    BY <1>3, <2>2 DEF Reserve
  <2>4. stat_at' = "register" /\ printed' = printed /\ garbage' = garbage
        /\ stat_at = "expinfo"
    BY <1>3 DEF Reserve
  <2>5. printed' = 0 /\ garbage' = <<>>
    BY <2>4 DEF SpaceInv
  <2> QED BY <2>1, <2>3, <2>4, <2>5 DEF SpaceInv
<1>4. CASE RegisterRow
  <2>1. /\ row' = Append(row, Len(row) + 1)
        /\ stat_at = "register"
        /\ UNCHANGED <<stat_at, summary_start, metadata_end, printed, garbage>>
    BY <1>4 DEF RegisterRow
  <2>2. \A k \in 1 .. Len(row') : row'[k] = k
    <3>0. row \in Seq(DOMAIN Rows) /\ row' = Append(row, Len(row) + 1)
      BY <1>1, <2>1
    <3>1. Len(row') = Len(row) + 1 /\ \A k \in 1 .. Len(row) : row'[k] = row[k]
      BY <3>0
    <3>2. row'[Len(row) + 1] = Len(row) + 1
      BY <3>0
    <3>3. \A k \in 1 .. Len(row) : row[k] = k
      BY DEF SpaceInv
    <3>4. ASSUME NEW k \in 1 .. Len(row') PROVE k \in 1 .. Len(row) \/ k = Len(row) + 1
      <4>1. Len(row) \in Nat BY <3>0
      <4> QED BY <3>1, <4>1
    <3> QED BY <3>1, <3>2, <3>3, <3>4, Zenon
  <2> QED BY <2>1, <2>2 DEF SpaceInv
<1>5. CASE OpenStat
  BY <1>5 DEF OpenStat, SpaceInv
<1>6. CASE WriteHeader \/ WriteColumn \/ \E kind \in Kinds : NewLine(kind)
  <2>1. /\ stat_at \in {"cells", "lines"} /\ stat_at' \in {"cells", "lines"}
        /\ UNCHANGED <<summary_start, metadata_end, row, printed, garbage>>
    BY <1>6 DEF WriteHeader, WriteColumn, NewLine, Cell
  <2> QED BY <2>1 DEF SpaceInv
<1>7. CASE Rewind
  <2>1. /\ stat_at = "lines" /\ stat_at' = "rows" /\ stat_offset' = summary_start
        /\ UNCHANGED <<summary_start, metadata_end, row, printed, garbage>>
    BY <1>7 DEF Rewind
  <2>2. printed' = 0 /\ garbage' = <<>> /\ row' = row /\ Len(row) = Len(Rows)
    BY <2>1 DEF SpaceInv
  <2>3. Used' = 0
    BY <1>1, <2>1 DEF Used
  <2>4. Within(Used', garbage', R[0])
    BY <1>0, <2>2, <2>3 DEF Within
  <2>5. UpTo(Sums(LongestRows)[printed])'
    BY <2>2, <2>4 DEF UpTo, R
  <2>6. printed' <= Len(Rows)
    BY <1>1, <2>2
  <2>7. \A k \in 1 .. Len(row) : row[k] = k
    BY DEF SpaceInv
  <2>8. metadata_end = summary_start + Total(Reserved) + GuardBanding
    BY <2>1 DEF SpaceInv
  <2> QED BY <2>1, <2>2, <2>5, <2>6, <2>7, <2>8 DEF SpaceInv
<1>8. CASE PrintRow
  <2>1. /\ stat_at = "rows" /\ printed < Len(row) /\ printed' = printed + 1
        /\ UNCHANGED <<stat_at, summary_start, metadata_end, row>>
    BY <1>8 DEF PrintRow
  <2>2. PICK k \in 1 .. Len(Rows) : k = printed + 1 /\ row[k] = k
    <3>1. Len(row) = Len(Rows)
      BY <2>1 DEF SpaceInv
    <3>2. printed + 1 \in 1 .. Len(row)
      BY <1>1, <2>1
    <3> QED BY <3>1, <3>2 DEF SpaceInv
  <2>3. /\ R[k] = R[printed] + LongestRows[k] /\ R[k] \in Int /\ R[printed] \in Int
        /\ LongestRows[k] \in Int /\ Within(Used, garbage, R[printed])
    <3>1. k \in 0 .. Len(Rows) /\ printed \in 0 .. Len(Rows) /\ k - 1 = printed
      BY <1>1, <2>2
    <3>2. UpTo(Sums(LongestRows)[printed])
      BY <2>1 DEF SpaceInv
    <3> QED BY <1>0, <1>00, <3>1, <3>2 DEF UpTo, R
  <2>4. Rows[k].message \in Nat /\ Rows[k].data \subseteq Nat /\ Rows[k].unit \in Nat
    <3>1. Rows[k] \in Row BY <2>2, StatAssumption
    <3> QED BY <3>1 DEF Row
  <2>5. \/ /\ Rows[k].data # {} /\ garbage' = garbage
           /\ \E data \in Rows[k].data :
                stat_offset' = stat_offset + Rows[k].message + data + Rows[k].unit
        \/ /\ Rows[k].data = {}
           /\ \E unit \in UnitGarbage : /\ stat_offset' = stat_offset + Rows[k].message + unit
                                        /\ garbage' = Append(garbage, unit)
    BY <1>8, <2>2 DEF PrintRow
  <2>6. Used' \in Int /\ Used' - Used = stat_offset' - stat_offset
    BY <1>1, <1>2, <2>1 DEF Used
  <2>7. Within(Used', garbage', R[k])
    <3>1. CASE Rows[k].data # {}
      <4>1. garbage' = garbage
        BY <2>5, <3>1
      <4>2. PICK data \in Rows[k].data :
              stat_offset' = stat_offset + Rows[k].message + data + Rows[k].unit
        BY <2>5, <3>1
      <4>3. Rows[k].message + data + Rows[k].unit <= LongestRows[k]
        BY <2>2, <3>1, LongestOfTheCode
      <4>4. data \in Nat
        BY <2>4
      <4>5. stat_offset' - stat_offset <= LongestRows[k]
        <5> DEFINE message == Rows[k].message
                   unit == Rows[k].unit
                   longest == LongestRows[k]
        <5>1. message \in Nat /\ unit \in Nat /\ longest \in Int /\ stat_offset \in Int
          BY <1>1, <2>3, <2>4
        <5>2. /\ stat_offset' = stat_offset + message + data + unit
              /\ message + data + unit <= longest
          BY <4>2, <4>3
        <5> HIDE DEF message, unit, longest
        <5>3. stat_offset' - stat_offset <= longest
          BY <4>4, <5>1, <5>2
        <5> QED BY <5>3 DEF longest
      <4>6. Used' - Used <= R[k] - R[printed]
        BY <2>3, <2>6, <4>5
      <4> QED BY <1>1, <2>3, <2>6, <4>1, <4>6, WithinGrows
    <3>2. CASE Rows[k].data = {}
      <4>1. PICK unit \in UnitGarbage : /\ stat_offset' = stat_offset + Rows[k].message + unit
                                        /\ garbage' = Append(garbage, unit)
        BY <2>5, <3>2
      <4>2. R[k] = R[printed] + (Rows[k].message + Longest(UnitGarbage))
        BY <2>2, <2>3, <3>2, LongestOfTheCode
      <4>3. unit \in Nat
        <5>1. UnitGarbage \subseteq Nat BY StatAssumption
        <5> QED BY <5>1, Zenon
      <4>4. Used' = Used + Rows[k].message + unit
        <5> DEFINE m == Rows[k].message
        <5>1. m \in Nat /\ stat_offset' = stat_offset + m + unit
          BY <2>4, <4>1
        <5> HIDE DEF m
        <5>2. Used' = Used + m + unit
          BY <1>1, <1>2, <2>1, <4>3, <5>1 DEF Used
        <5> QED BY <5>2 DEF m
      <4>5. Rows[k].message \in Int
        BY <2>4
      <4>6. Within(Used + Rows[k].message + unit, Append(garbage, unit),
                   R[printed] + (Rows[k].message + Longest(UnitGarbage)))
        BY <1>1, <2>3, <4>5, WithinMessage
      <4> QED BY <4>1, <4>2, <4>4, <4>6
    <3> QED BY <3>1, <3>2
  <2>8. UpTo(Sums(LongestRows)[printed])'
    BY <2>1, <2>2, <2>7 DEF UpTo, R
  <2>9. stat_at' = "rows" /\ printed' <= Len(Rows)
    BY <1>1, <2>1, <2>2
  <2>10. /\ Len(row') = Len(Rows) /\ \A j \in 1 .. Len(row') : row'[j] = j
         /\ metadata_end' = summary_start' + Total(Reserved) + GuardBanding
    BY <2>1 DEF SpaceInv
  <2> QED BY <2>8, <2>9, <2>10 DEF SpaceInv
<1>9. CASE StartSummaries
  <2>1. /\ stat_at = "rows" /\ printed = Len(row) /\ stat_at' = "summaries" /\ printed' = 0
        /\ UNCHANGED <<stat_offset, summary_start, metadata_end, row, garbage>>
    BY <1>9 DEF StartSummaries
  <2>2. /\ Len(row') = Len(Rows) /\ \A j \in 1 .. Len(row') : row'[j] = j
        /\ metadata_end' = summary_start' + Total(Reserved) + GuardBanding
        /\ printed = Len(Rows) /\ UpTo(Sums(LongestRows)[printed])
    BY <2>1 DEF SpaceInv
  <2>3. Within(Used, garbage, TR)
    BY <1>00, <2>2 DEF UpTo, R
  <2>4. TR = TR + S[0]
    BY <1>0
  <2>5. Used' = Used /\ garbage' = garbage
    BY <2>1 DEF Used
  <2>6. Within(Used', garbage', TR + S[0])
    BY <2>3, <2>4, <2>5
  <2>7. UpTo(Total(LongestRows) + Sums(LongestSummaries)[printed])'
    BY <2>1, <2>6 DEF UpTo, TR, S
  <2>8. printed' <= Len(Summaries)
    BY <1>1, <2>1
  <2> QED BY <2>1, <2>2, <2>7, <2>8 DEF SpaceInv
<1>10. CASE PrintSummary
  <2>1. /\ stat_at = "summaries" /\ printed < Len(Summaries) /\ printed' = printed + 1
        /\ UNCHANGED <<stat_at, summary_start, metadata_end, row, garbage>>
    BY <1>10 DEF PrintSummary
  <2>2. PICK k \in 1 .. Len(Summaries) : k = printed + 1
    BY <1>1, <2>1
  <2>3. PICK length \in Summaries[k] : stat_offset' = stat_offset + length
    BY <1>10, <2>2 DEF PrintSummary
  <2>4. /\ S[k] = S[printed] + LongestSummaries[k] /\ S[k] \in Int /\ S[printed] \in Int
        /\ LongestSummaries[k] \in Int /\ Within(Used, garbage, TR + S[printed])
    <3>1. k \in 0 .. Len(Summaries) /\ printed \in 0 .. Len(Summaries) /\ k - 1 = printed
      BY <1>1, <2>2
    <3>2. UpTo(Total(LongestRows) + Sums(LongestSummaries)[printed])
      BY <2>1 DEF SpaceInv
    <3> QED BY <1>0, <1>00, <3>1, <3>2 DEF UpTo, S, TR
  <2>5. length <= LongestSummaries[k] /\ length \in Nat
    <3>1. Summaries[k] \in SUBSET Nat BY <2>2, StatAssumption
    <3> QED BY <2>2, <2>3, <3>1, LongestOfTheCode
  <2>6. Used' \in Int /\ Used' - Used <= (TR + S[k]) - (TR + S[printed])
    <3> DEFINE a == S[printed]
               b == S[k]
               c == LongestSummaries[k]
    <3>1. TR \in Int /\ a \in Int /\ b \in Int /\ c \in Int /\ b = a + c /\ length <= c
      BY <1>0, <2>4, <2>5
    <3>2. Used' \in Int /\ Used' - Used = length
      BY <1>1, <1>2, <2>1, <2>3, <2>5 DEF Used
    <3> HIDE DEF a, b, c
    <3> HIDE DEF TR
    <3>3. length <= (TR + b) - (TR + a)
      <4>1. length \in Nat
        BY <2>5
      <4> QED BY <3>1, <4>1
    <3> QED BY <3>2, <3>3 DEF a, b
  <2>7. TR + S[k] \in Int /\ TR + S[printed] \in Int
    BY <1>0, <2>4
  <2>8. Within(Used', garbage', TR + S[k])
    BY <1>1, <2>1, <2>4, <2>6, <2>7, WithinGrows
  <2>9. UpTo(Total(LongestRows) + Sums(LongestSummaries)[printed])'
    BY <2>1, <2>2, <2>8 DEF UpTo, TR, S
  <2>10. stat_at' = "summaries" /\ printed' <= Len(Summaries)
    BY <1>1, <2>1, <2>2
  <2>11. /\ Len(row') = Len(Rows) /\ \A j \in 1 .. Len(row') : row'[j] = j
         /\ metadata_end' = summary_start' + Total(Reserved) + GuardBanding
    BY <2>1 DEF SpaceInv
  <2> QED BY <2>9, <2>10, <2>11 DEF SpaceInv
<1>11. CASE CloseStat
  <2>1. /\ stat_at = "summaries" /\ printed = Len(Summaries) /\ stat_at' = "closed"
        /\ stat_offset' = stat_offset + 1
        /\ UNCHANGED <<summary_start, metadata_end, row, garbage>>
    BY <1>11 DEF CloseStat
  <2>2. /\ Len(row') = Len(Rows) /\ \A j \in 1 .. Len(row') : row'[j] = j
        /\ metadata_end' = summary_start' + Total(Reserved) + GuardBanding
        /\ UpTo(Total(LongestRows) + Sums(LongestSummaries)[printed])
    BY <2>1 DEF SpaceInv
  <2>3. Within(Used, garbage, TR + TS)
    BY <1>00, <2>1, <2>2 DEF UpTo, TR, S
  <2>4. Used' \in Int /\ Used' - Used <= (TR + TS + 1) - (TR + TS)
    BY <1>0, <1>1, <1>2, <2>1 DEF Used
  <2>5. TR + TS \in Int /\ TR + TS + 1 \in Int
    BY <1>0
  <2>6. Within(Used', garbage', TR + TS + 1)
    BY <1>1, <2>1, <2>3, <2>4, <2>5, WithinGrows
  <2>7. UpTo(Total(LongestRows) + Total(LongestSummaries) + 1)'
    BY <2>6 DEF UpTo, TR, TS
  <2> QED BY <2>1, <2>2, <2>7 DEF SpaceInv
<1>12. CASE UNCHANGED statVars
  BY <1>12 DEF statVars, SpaceInv, UpTo, Used
<1> QED BY <1>3, <1>4, <1>5, <1>6, <1>7, <1>8, <1>9, <1>10, <1>11, <1>12 DEF StatNext

LEMMA SpaceInvariant == FilesSpec => [](StatTypes /\ SpaceInv /\ CellsInv)
<1>1. FilesInit => StatTypes /\ SpaceInv /\ CellsInv
  BY SpaceStart, CellsStart DEF FilesInit
<1>2. (StatTypes /\ SpaceInv /\ CellsInv) /\ [FilesNext]_filesVars
        => (StatTypes /\ SpaceInv /\ CellsInv)'
  BY StatStep, StatTypesStep, SpaceStep, CellsStep
<1> QED BY <1>1, <1>2, PTL DEF FilesSpec

\* Where a unit was not the longest, the longest of everything else fits.
LEMMA SpaceInvGivesReservation ==
  ASSUME StatTypes, SpaceInv
  PROVE  ReservationHolds
<1> DEFINE TR == Total(LongestRows)
           TS == Total(LongestSummaries)
           longest == Longest(UnitGarbage)
           space == Total(Reserved) + GuardBanding
<1>1. SUFFICES ASSUME stat_at \in {"rows", "summaries", "closed"},
                      NEW i \in DOMAIN garbage, NEW g \in UnitGarbage, ~(g <= garbage[i])
               PROVE  stat_offset <= metadata_end
  BY DEF ReservationHolds
<1>2. /\ TR \in Nat /\ TS \in Nat /\ longest \in Nat
      /\ \A k \in 0 .. Len(Rows) : Sums(LongestRows)[k] \in Nat /\ Sums(LongestRows)[k] <= TR
      /\ \A k \in 0 .. Len(Summaries) :
           Sums(LongestSummaries)[k] \in Nat /\ Sums(LongestSummaries)[k] <= TS
  BY LongestOfTheCode, SumsGrow
<1>3. garbage[i] \in UnitGarbage
  BY <1>1 DEF StatTypes
<1>4. garbage[i] \in Nat /\ g \in Nat /\ g <= longest
  <2>1. UnitGarbage \subseteq Nat
    BY StatAssumption
  <2>2. garbage[i] \in Nat /\ g \in Nat
    BY <1>3, <2>1, Zenon
  <2> QED BY <2>2, LongestOfTheCode
<1>5. space \in Int
  <2>1. Reserved \in Seq(Int) /\ GuardBanding \in Nat /\ Len(Reserved) \in Nat
    BY StatAssumption
  <2>2. Sums(Reserved) \in [0 .. Len(Reserved) -> Int] /\ Len(Reserved) \in 0 .. Len(Reserved)
    BY <2>1, SumsAreThem
  <2> QED BY <2>1, <2>2 DEF Total
<1>6. TR + TS + 1 <= space + longest - garbage[i]
  <2>1. garbage[i] < longest
    <3> DEFINE a == garbage[i]
    <3>1. a \in Nat /\ longest \in Nat /\ g \in Nat /\ g <= longest /\ ~(g <= a)
      BY <1>1, <1>2, <1>4
    <3> HIDE DEF a, longest
    <3>2. a < longest
      BY <3>1
    <3> QED BY <3>2 DEF a
  <2> QED BY <1>3, <2>1, SpaceAssumption
<1>7. PICK n \in Int : n <= TR + TS + 1 /\ UpTo(n)
  <2>1. CASE stat_at = "rows"
    <3>1. printed \in 0 .. Len(Rows) /\ UpTo(Sums(LongestRows)[printed])
      BY <2>1, StatAssumption DEF SpaceInv, StatTypes
    <3>2. Sums(LongestRows)[printed] \in Nat /\ Sums(LongestRows)[printed] <= TR
      BY <1>2, <3>1
    <3> HIDE DEF TR, TS
    <3> QED BY <1>2, <3>1, <3>2
  <2>2. CASE stat_at = "summaries"
    <3>1. /\ printed \in 0 .. Len(Summaries)
          /\ UpTo(TR + Sums(LongestSummaries)[printed])
      BY <2>2, StatAssumption DEF SpaceInv, StatTypes
    <3>2. Sums(LongestSummaries)[printed] \in Nat /\ Sums(LongestSummaries)[printed] <= TS
      BY <1>2, <3>1
    <3> HIDE DEF TR, TS
    <3> QED BY <1>2, <3>1, <3>2
  <2>3. CASE stat_at = "closed"
    <3>1. UpTo(TR + TS + 1)
      BY <2>3 DEF SpaceInv
    <3> HIDE DEF TR, TS
    <3> QED BY <1>2, <3>1
  <2> QED BY <1>1, <2>1, <2>2, <2>3
<1>8. Used <= n - (longest - garbage[i])
  BY <1>1, <1>7 DEF UpTo, Within
<1>9. metadata_end = summary_start + space /\ stat_offset \in Int /\ summary_start \in Int
  <2>1. metadata_end = summary_start + Total(Reserved) + GuardBanding
    BY <1>1 DEF SpaceInv
  <2>2. Total(Reserved) \in Int /\ GuardBanding \in Int
    <3>1. Reserved \in Seq(Int) /\ GuardBanding \in Nat /\ Len(Reserved) \in Nat
      BY StatAssumption
    <3>2. Sums(Reserved) \in [0 .. Len(Reserved) -> Int]
          /\ Len(Reserved) \in 0 .. Len(Reserved)
      BY <3>1, SumsAreThem
    <3> QED BY <3>1, <3>2 DEF Total
  <2>3. stat_offset \in Int /\ summary_start \in Int
    BY DEF StatTypes
  <2> QED BY <2>1, <2>2, <2>3
<1>10. Used = stat_offset - summary_start
  BY DEF Used
<1> HIDE DEF TR, TS, longest, space
<1> QED BY <1>2, <1>4, <1>5, <1>6, <1>7, <1>8, <1>9, <1>10

\* The state of the statistics file has its type.
THEOREM StatTypeCorrect == FilesSpec => []StatTypeOK
<1>1. StatTypes /\ CellsInv => StatTypeOK
  BY DEF StatTypes, CellsInv, StatTypeOK
<1> QED BY <1>1, SpaceInvariant, PTL

\* For any rows and summaries of which the longest fit, the summary ends before
\* the table begins: all of them may be the longest at once, but for one unit of a
\* message (power_measurement.c:263-288).
THEOREM ReservationHoldsAlways == FilesSpec => []ReservationHolds
  BY SpaceInvGivesReservation, SpaceInvariant, PTL

\* In a whole run the policies' table holds the board's frequencies, every record
\* is its sample's, there is one for every sample, and the file in which they are
\* written keeps its columns and its table.
THEOREM FilesAreCorrect ==
    FilesSpec => [](/\ FrequenciesRead /\ ReadingsAreSamples /\ EverySampleIsRead
                    /\ ColumnsAligned /\ ReservationHolds)
  BY FilesImplementTable, FrequenciesReadAlways, FilesImplementRecords,
     ReadingsAreSamplesAlways, EverySampleIsReadAlways, ColumnsAlignedAlways,
     ReservationHoldsAlways, PTL
=============================================================================
