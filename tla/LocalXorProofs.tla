--------------------------- MODULE LocalXorProofs ---------------------------
(***************************************************************************)
(* Proofs about LocalXor, for any number of files, any bytes, any sizes    *)
(* that lstat may report, any IntSize and any ReadSize that is a multiple  *)
(* of it.  The invariant says where the loops of s_riad are in the files:  *)
(* at a whole number of ints, all of which every file has, or past the     *)
(* last whole int.                                                         *)
(***************************************************************************)
EXTENDS LocalXor, FiniteSetTheorems, SequenceTheorems, TLAPS

\* Every input file has the size lstat reported, and no byte of the rest of the
\* first looks like EOF.
Plain == PlainTail /\ \A f \in Files : Len(content[f]) = st_size[f]

\* Every input file has at least the first k bytes.
Have(k) == \A f \in Files : Len(content[f]) >= k

\* The block loop has done k of the ints the size consists of.
Whole(k) ==
  /\ k \in 0..(file_total_size \div IntSize)
  /\ xor_total_size = k * IntSize /\ Have(xor_total_size)

\* The byte loop is where the block loop has done them all.
PastWhole == xor_total_size >= InBlocks /\ Have(InBlocks)

\* A block of every file that follows what has been XORed.
Loaded(k) ==
  /\ Whole(k) /\ k + num0 <= file_total_size \div IntSize
  /\ Have(xor_total_size + num0 * IntSize)
  /\ \A f \in Files : \A i \in 1..(num0 * IntSize) :
       input_buf[f][i] = content[f][xor_total_size + i]

Running == pc # "done" => ret = "none"
Agreed ==
  pc \in {"malloc", "read", "xor", "close"}
    \/ ret \in {"RIGHT", "ERROR_FREAD_FILE", "ERROR_XOR_FILE"} => SizesAgree
AtStart == pc \in {"open", "stat", "malloc"} => xor_total_size = 0 /\ num0 = 0
AtRead ==
  pc = "read" => /\ xor_total_size <= file_total_size
                 /\ (\E k \in Nat : Whole(k)) \/ PastWhole

\* XorBlock finds a block just read, or one that has been XORed already: then
\* the byte loop did not end at the size.
AtXor ==
  pc = "xor" => \/ \E k \in Nat : Loaded(k)
                \/ PastWhole /\ xor_total_size # file_total_size /\ ~Plain
AtEnd ==
  pc = "close" \/ ret = "RIGHT" => xor_total_size = file_total_size /\ PastWhole
Failed == ret \in {"ERROR_FREAD_FILE", "ERROR_XOR_FILE"} => ~Plain

Loop == Running /\ Agreed /\ AtStart /\ AtRead /\ AtXor /\ AtEnd /\ Failed

\* Nothing is counted that is not in the first file, and what is counted has been
\* written unless the disk is full.
Counted ==
  /\ ret # "ERROR_XOR_FILE" => xor_total_size <= Len(content[0])
  /\ ~lost => Len(out) = xor_total_size

\* What is written are the XORs of the bytes of the files at that position.
Written ==
  ret # "ERROR_XOR_FILE" /\ ~lost =>
    \A i \in 1..xor_total_size : out[i] = XorRow([f \in Files |-> fgetc(f, i)])

IInv == TypeOK /\ Loop /\ Counted /\ Written

-----------------------------------------------------------------------------
(* Whole ints.                                                             *)

\* Products of numbers are ordered as their factors.
LEMMA Products ==
  ASSUME NEW j \in Nat, NEW k \in Nat, NEW q \in Nat
  PROVE  /\ k * q \in Nat
         /\ (j + k) * q = j * q + k * q
         /\ j <= k => j * q <= k * q
         /\ j < k => j * q + q <= k * q
         /\ k > 0 => q <= k * q
<1>1. k * q \in Nat /\ (j + k) * q = j * q + k * q
  OBVIOUS
<1>2. ASSUME NEW l \in Nat
      PROVE  (j + l) * q = j * q + l * q /\ l * q \in Nat /\ (l > 0 => q <= l * q)
  <2>1. CASE l = 0
    BY <2>1
  <2>2. CASE l > 0
    <3>1. l - 1 \in Nat /\ l = (l - 1) + 1
      BY <2>2
    <3>2. l * q = (l - 1) * q + q /\ (l - 1) * q \in Nat
      BY <3>1
    <3> QED
      BY <3>2
  <2> QED
    BY <2>1, <2>2
<1>3. ASSUME j <= k
      PROVE  j * q <= k * q /\ (j < k => j * q + q <= k * q)
  <2>1. k - j \in Nat /\ j + (k - j) = k
    BY <1>3
  <2>2. k * q = j * q + (k - j) * q /\ (k - j) * q \in Nat /\ (k - j > 0 => q <= (k - j) * q)
    BY <2>1, <1>2
  <2> QED
    BY <2>2, <1>1
<1> QED
  BY <1>1, <1>2, <1>3

\* The integer quotient lies between two multiples.
LEMMA Division ==
  ASSUME NEW a \in Nat, NEW q \in Nat \ {0}
  PROVE  /\ a \div q \in Nat /\ (a \div q) * q \in Nat
         /\ (a \div q) * q <= a /\ a < (a \div q) * q + q
OBVIOUS

\* a \div q is the largest number of ints of q bytes in a bytes.
LEMMA MostInts ==
  ASSUME NEW a \in Nat, NEW q \in Nat \ {0}, NEW k \in Nat, k * q <= a
  PROVE  k <= a \div q
<1>1. SUFFICES ASSUME k > a \div q PROVE FALSE
  BY Division
<1>2. (a \div q) * q + q <= k * q
  BY <1>1, Division, Products
<1> QED
  BY <1>2, Division, Products

-----------------------------------------------------------------------------
(* Types.                                                                  *)

\* What the assumption on the constants says, by parts.
LEMMA Constants ==
  /\ FileNum \in Nat \ {0} /\ 0 \in Files /\ Files \subseteq Int
  /\ Bytes \subseteq SUBSET Bits /\ FF \in SUBSET Bits
  /\ MaxLen \in Nat /\ OtherLen \in 0..MaxLen /\ OtherSizes \subseteq Nat
  /\ IntSize \in Nat \ {0} /\ ReadSize \in Nat \ {0}
  /\ ReadSize \div IntSize \in Nat \ {0}
<1>1. /\ FileNum \in 1..1024 /\ Bytes \subseteq SUBSET Bits
      /\ MaxLen \in Nat /\ OtherLen \in 0..MaxLen /\ OtherSizes \subseteq Nat
      /\ IntSize \in Nat \ {0} /\ ReadSize \in Nat \ {0} /\ ReadSize % IntSize = 0
  BY LocalXorAssumption
<1>2. 0 \in Files /\ Files \subseteq Int
  BY <1>1 DEF Files
<1>3. FF \in SUBSET Bits
  BY DEF FF
<1>4. ReadSize \div IntSize \in Nat \ {0}
  BY <1>1, Division
<1> QED
  BY <1>1, <1>2, <1>3, <1>4

\* A shorter file's contents are among those of the longest.
LEMMA ContentsType ==
  ASSUME NEW len \in 0..MaxLen
  PROVE  Contents(len) \subseteq Contents(MaxLen) /\ Contents(MaxLen) \subseteq Seq(SUBSET Bits)
<1>1. Contents(len) \subseteq Contents(MaxLen)
  BY Constants DEF Contents
<1>2. ASSUME NEW s \in Contents(MaxLen)
      PROVE  s \in Seq(SUBSET Bits)
  <2>1. PICK m \in 0..MaxLen : s \in [1..m -> Bytes]
    BY <1>2 DEF Contents
  <2>2. m \in Nat /\ \A i \in 1..m : s[i] \in SUBSET Bits
    BY <2>1, Constants
  <2>3. [i \in 1..m |-> s[i]] \in Seq(SUBSET Bits)
    BY <2>2, IsASeq
  <2> QED
    BY <2>1, <2>3
<1> QED
  BY <1>1, <1>2

\* What a file holds, and what fgetc makes of it.
LEMMA FileFacts ==
  ASSUME TypeOK, NEW f \in Files
  PROVE  /\ content[f] \in Seq(SUBSET Bits) /\ Len(content[f]) \in Nat
         /\ st_size[f] \in Nat
         /\ \A i \in Nat \ {0} : fgetc(f, i) \in SUBSET Bits
<1>1. content[f] \in Seq(SUBSET Bits)
  BY ContentsType, Constants DEF TypeOK
<1>2. Len(content[f]) \in Nat
  BY <1>1
<1>3. st_size[f] \in Nat
  <2>1. st_size[f] \in OtherSizes \cup 0..MaxLen
    BY DEF TypeOK
  <2>2. OtherSizes \subseteq Nat /\ 0..MaxLen \subseteq Nat
    BY Constants
  <2> QED
    BY <2>1, <2>2
<1>4. ASSUME NEW i \in Nat \ {0} PROVE fgetc(f, i) \in SUBSET Bits
  BY <1>1, <1>2, ElementOfSeq, Constants DEF fgetc
<1> QED
  BY <1>1, <1>2, <1>3, <1>4

\* The XOR of a row is a byte.
LEMMA Rows == ASSUME NEW row PROVE XorRow(row) \in SUBSET Bits
BY DEF XorRow

\* The size, the ints it consists of and the bytes they are.
LEMMA Sizes ==
  ASSUME TypeOK
  PROVE  /\ file_total_size \in Nat /\ file_total_size \div IntSize \in Nat
         /\ InBlocks \in Nat /\ InBlocks <= file_total_size
         /\ file_total_size < InBlocks + IntSize
<1>1. file_total_size \in Nat
  BY FileFacts, Constants DEF file_total_size
<1> QED
  BY <1>1, Constants, Division DEF InBlocks

\* What a round of the loop asks for.
LEMMA ReadSizes ==
  ASSUME TypeOK, xor_total_size <= file_total_size
  PROVE  /\ read_size \in 0..(ReadSize \div IntSize)
         /\ xor_total_size + read_size * IntSize <= file_total_size
         /\ read_size = 0 => file_total_size < xor_total_size + IntSize
         /\ read_size # 0 => xor_total_size + IntSize <= file_total_size
<1> DEFINE left == file_total_size - xor_total_size
<1>1. left \in Nat /\ xor_total_size \in Nat /\ file_total_size \in Nat
  BY Sizes DEF TypeOK
<1>2. /\ left \div IntSize \in Nat /\ (left \div IntSize) * IntSize <= left
      /\ left < (left \div IntSize) * IntSize + IntSize
      /\ (left \div IntSize) * IntSize \in Nat
  BY <1>1, Constants, Division
<1>3. CASE left <= ReadSize
  <2>1. read_size = left \div IntSize
    BY <1>3 DEF read_size
  <2>2. (left \div IntSize) * IntSize <= ReadSize
    BY <1>2, <1>3, <1>1, Constants
  <2>3. left \div IntSize <= ReadSize \div IntSize
    BY <1>2, <2>2, MostInts, Constants
  <2>4. left \div IntSize = 0 => left < IntSize
    BY <1>2, Constants
  <2>5. left \div IntSize # 0 => IntSize <= left
    BY <1>2, <1>1, Products, Constants
  <2> QED
    BY <1>1, <1>2, <2>1, <2>3, <2>4, <2>5, Constants
<1>4. CASE left > ReadSize
  <2>1. read_size = ReadSize \div IntSize
    BY <1>4, <1>1, Constants DEF read_size
  <2>2. (ReadSize \div IntSize) * IntSize <= ReadSize /\ (ReadSize \div IntSize) * IntSize \in Nat
    BY Constants, Division
  <2>3. IntSize <= (ReadSize \div IntSize) * IntSize
    BY Products, Constants
  <2> QED
    BY <1>1, <1>4, <2>1, <2>2, <2>3, Constants
<1> QED
  BY <1>1, <1>3, <1>4, Constants

\* What fread returns for a file: whole ints the file has.
LEMMA IntsRead ==
  ASSUME TypeOK, xor_total_size <= file_total_size, NEW f \in Files
  PROVE  /\ Ints(f) \in 0..read_size /\ Ints(f) * IntSize \in Nat
         /\ Ints(f) = 0 \/ xor_total_size + Ints(f) * IntSize <= Len(content[f])
<1>1. read_size \in Nat
  BY ReadSizes, Constants
<1>2. xor_total_size \in Nat /\ Len(content[f]) \in Nat
  BY FileFacts DEF TypeOK
<1>3. CASE Len(content[f]) <= xor_total_size
  BY <1>1, <1>3, Constants DEF Ints
<1>4. CASE Len(content[f]) > xor_total_size
  <2> DEFINE rest == Len(content[f]) - xor_total_size
             most == rest \div IntSize
  <2>1. rest \in Nat /\ xor_total_size + rest = Len(content[f])
    BY <1>2, <1>4
  <2>2. most \in Nat /\ most * IntSize <= rest /\ most * IntSize \in Nat
    BY <2>1, Constants, Division
  <2>3. Ints(f) = IF most <= read_size THEN most ELSE read_size
    BY <1>2, <1>4 DEF Ints
  <2> HIDE DEF most, rest
  <2>4. Ints(f) \in 0..read_size /\ Ints(f) <= most
    BY <1>1, <2>2, <2>3
  <2>5. Ints(f) \in Nat
    BY <1>1, <2>4
  <2>6. Ints(f) * IntSize \in Nat /\ Ints(f) * IntSize <= most * IntSize
    BY <2>2, <2>4, <2>5, Products, Constants
  <2> QED
    BY <1>2, <2>1, <2>2, <2>4, <2>6
<1> QED
  BY <1>2, <1>3, <1>4

-----------------------------------------------------------------------------
(* Types are kept.                                                         *)

\* While not all files are open, their number is the index of a file.
LEMMA OpenedCount ==
  ASSUME NEW S \in SUBSET Files, S # Files
  PROVE  Cardinality(S) \in Files
<1>1. IsFiniteSet(Files) /\ Cardinality(Files) = FileNum
  <2>1. 0 \in Int /\ FileNum - 1 \in Int /\ 0 <= FileNum - 1
    BY Constants
  <2>2. IsFiniteSet(0..(FileNum - 1)) /\ Cardinality(0..(FileNum - 1)) = FileNum - 1 - 0 + 1
    BY <2>1, FS_Interval
  <2> QED
    BY <2>2, Constants DEF Files
<1>2. /\ IsFiniteSet(S) /\ Cardinality(S) <= Cardinality(Files)
      /\ Cardinality(S) # Cardinality(Files)
  BY <1>1, FS_Subset
<1>3. Cardinality(S) \in Nat
  BY <1>2, FS_CardinalityType
<1> QED
  BY <1>1, <1>2, <1>3, Constants DEF Files

\* Types: the initial states.
LEMMA TypeInit == Init => TypeOK
<1> SUFFICES ASSUME Init PROVE TypeOK
  OBVIOUS
<1>1. OtherLen \in 0..MaxLen /\ MaxLen \in 0..MaxLen /\ 0..OtherLen \subseteq 0..MaxLen
  BY Constants
<1>2. content \in [Files -> Contents(MaxLen)]
  BY <1>1, ContentsType DEF Init
<1>3. st_size \in [Files -> OtherSizes \cup 0..MaxLen]
  <2>1. CASE st_size = [f \in Files |-> Len(content[f])] /\ content \in [Files -> Contents(MaxLen)]
    <3>1. ASSUME NEW f \in Files PROVE Len(content[f]) \in 0..MaxLen
      <4>1. PICK m \in 0..MaxLen : content[f] \in [1..m -> Bytes]
        BY <2>1 DEF Contents
      <4>2. content[f] \in Seq(SUBSET Bits)
        BY <1>1, <2>1, ContentsType
      <4>3. Len(content[f]) = m
        BY <4>1, <4>2, LenProperties
      <4> QED
        BY <4>3
    <3> QED
      BY <2>1, <3>1
  <2>2. CASE st_size \in [Files -> OtherSizes \cup 0..OtherLen]
    BY <1>1, <2>2
  <2> QED
    BY <2>1, <2>2 DEF Init
<1>4. /\ input_buf \in [Files -> Seq(SUBSET Bits)]
      /\ out \in Seq(SUBSET Bits) /\ Len(out) <= xor_total_size
  BY EmptySeq DEF Init
<1>5. num0 \in 0..(ReadSize \div IntSize) /\ xor_total_size \in Nat
  BY Constants DEF Init
<1>6. /\ opened \subseteq Files /\ lost \in BOOLEAN
      /\ ret \in {"none", "RIGHT", "ERROR_FILE_OPEN", "ERROR_OUTPUT_FILE", "ERROR_FILE_SIZE",
                  "ERROR_APPLY_MALLOC", "ERROR_FREAD_FILE", "ERROR_XOR_FILE"}
      /\ pc \in {"open", "stat", "malloc", "read", "xor", "close", "done"}
  BY DEF Init
<1> QED
  BY <1>2, <1>3, <1>4, <1>5, <1>6 DEF TypeOK

\* A sequence of n XORs is a sequence of n bytes.
LEMMA RowSeq ==
  ASSUME NEW m \in Nat, NEW rows
  PROVE  /\ [i \in 1..m |-> XorRow(rows[i])] \in Seq(SUBSET Bits)
         /\ Len([i \in 1..m |-> XorRow(rows[i])]) = m
<1>1. \A i \in 1..m : XorRow(rows[i]) \in SUBSET Bits
  BY Rows
<1> DEFINE s == [i \in 1..m |-> XorRow(rows[i])]
<1>2. s \in Seq(SUBSET Bits)
  BY <1>1, IsASeq
<1> HIDE DEF s
<1>3. Len(s) \in Nat /\ DOMAIN s = 1..Len(s)
  BY <1>2, LenProperties
<1>4. DOMAIN s = 1..m
  BY DEF s
<1> QED
  BY <1>2, <1>3, <1>4 DEF s

\* The actions that leave the bytes alone, and the end of the behaviour.
Plainly ==
  OpenInput \/ OpenOutput \/ CompareSizes \/ Malloc \/ Close \/ UNCHANGED vars

\* Types: the steps that leave the bytes alone.
LEMMA TypePlainly == TypeOK /\ Plainly => TypeOK'
<1> SUFFICES ASSUME TypeOK, Plainly PROVE TypeOK'
  OBVIOUS
<1>1. opened' \subseteq Files
  <2>1. opened # Files => Cardinality(opened) \in Files
    BY OpenedCount DEF TypeOK
  <2> QED
    BY <2>1 DEF TypeOK, Plainly, OpenInput, OpenOutput, CompareSizes, Malloc, Close, vars
<1>2. UNCHANGED <<content, st_size, input_buf, num0, xor_total_size, out, lost>>
  BY DEF Plainly, OpenInput, OpenOutput, CompareSizes, Malloc, Close, vars
<1>3. /\ ret' \in {"none", "RIGHT", "ERROR_FILE_OPEN", "ERROR_OUTPUT_FILE", "ERROR_FILE_SIZE",
                   "ERROR_APPLY_MALLOC", "ERROR_FREAD_FILE", "ERROR_XOR_FILE"}
      /\ pc' \in {"open", "stat", "malloc", "read", "xor", "close", "done"}
  BY DEF TypeOK, Plainly, OpenInput, OpenOutput, CompareSizes, Malloc, Close, Return, vars
<1> QED
  BY <1>1, <1>2, <1>3 DEF TypeOK

\* Types: a block is read.
LEMMA TypeReadBlock == TypeOK /\ AtRead /\ ReadBlock => TypeOK'
<1> SUFFICES ASSUME TypeOK, AtRead, ReadBlock PROVE TypeOK'
  OBVIOUS
<1>1. xor_total_size <= file_total_size /\ xor_total_size \in Nat
  BY DEF AtRead, ReadBlock, TypeOK
<1>2. num0' \in 0..(ReadSize \div IntSize)
  <2>1. Ints(0) \in 0..read_size /\ read_size \in 0..(ReadSize \div IntSize)
    BY <1>1, IntsRead, ReadSizes, Constants
  <2>2. Ints(0) \in 0..(ReadSize \div IntSize)
    BY <2>1, Constants
  <2> QED
    BY <2>2 DEF ReadBlock, TypeOK
<1>3. input_buf' \in [Files -> Seq(SUBSET Bits)]
  <2>1. ASSUME NEW f \in Files
        PROVE  SubSeq(content[f], xor_total_size + 1, xor_total_size + Ints(f) * IntSize)
                 \in Seq(SUBSET Bits)
    <3> DEFINE a == xor_total_size + 1
               b == xor_total_size + Ints(f) * IntSize
    <3>1. /\ Ints(f) * IntSize \in Nat
          /\ Ints(f) = 0 \/ xor_total_size + Ints(f) * IntSize <= Len(content[f])
      BY <1>1, IntsRead
    <3>2. Ints(f) = 0 => Ints(f) * IntSize = 0
      BY Constants
    <3>3. content[f] \in Seq(SUBSET Bits) /\ Len(content[f]) \in Nat
      BY FileFacts
    <3>4. a \in Int /\ b \in Int /\ \A i \in a..b : i \in 1..Len(content[f])
      BY <1>1, <3>1, <3>2, <3>3
    <3>5. \A i \in a..b : content[f][i] \in SUBSET Bits
      BY <3>3, <3>4, ElementOfSeq
    <3> QED
      BY <3>4, <3>5, SubSeqProperties
  <2> QED
    BY <2>1 DEF ReadBlock, TypeOK
<1>4. UNCHANGED <<content, st_size, opened, xor_total_size, out, lost>>
  BY DEF ReadBlock
<1>5. /\ ret' \in {"none", "RIGHT", "ERROR_FILE_OPEN", "ERROR_OUTPUT_FILE", "ERROR_FILE_SIZE",
                   "ERROR_APPLY_MALLOC", "ERROR_FREAD_FILE", "ERROR_XOR_FILE"}
      /\ pc' \in {"open", "stat", "malloc", "read", "xor", "close", "done"}
  BY DEF TypeOK, ReadBlock, Return
<1> QED
  BY <1>2, <1>3, <1>4, <1>5 DEF TypeOK

\* What the byte loop adds: n bytes of file 0, up to one that looks like EOF, or
\* nothing on a full disk.
LEMMA TailAdds ==
  ASSUME TypeOK, XorTail
  PROVE  \E m \in Nat :
           /\ xor_total_size' = xor_total_size + m
           /\ fgetc(0, xor_total_size + m + 1) = FF
           /\ \A i \in 1..m : fgetc(0, xor_total_size + i) # FF
           /\ out' \in Seq(SUBSET Bits)
           /\ \/ /\ Len(out') = Len(out) + m /\ UNCHANGED lost
                 /\ \A i \in 1..Len(out) : out'[i] = out[i]
                 /\ \A i \in 1..m :
                      out'[Len(out) + i]
                        = XorRow([f \in Files |-> fgetc(f, xor_total_size + i)])
              \/ lost' = TRUE /\ UNCHANGED out
<1>1. PICK m \in 0..MaxLen :
        /\ fgetc(0, xor_total_size + m + 1) = FF
        /\ \A i \in 1..m : fgetc(0, xor_total_size + i) # FF
        /\ \/ /\ out' = out \o [i \in 1..m |->
                   XorRow([f \in Files |-> fgetc(f, xor_total_size + i)])]
              /\ UNCHANGED lost
           \/ lost' = TRUE /\ UNCHANGED out
        /\ xor_total_size' = xor_total_size + m
  BY DEF XorTail, TailCount
<1>2. m \in Nat /\ out \in Seq(SUBSET Bits) /\ Len(out) \in Nat
  BY <1>1, Constants DEF TypeOK
<1> DEFINE rows == [i \in 1..m |-> [f \in Files |-> fgetc(f, xor_total_size + i)]]
           t == [i \in 1..m |-> XorRow(rows[i])]
<1>3. t = [i \in 1..m |-> XorRow([f \in Files |-> fgetc(f, xor_total_size + i)])]
  OBVIOUS
<1>4. \A i \in 1..m : t[i] = XorRow([f \in Files |-> fgetc(f, xor_total_size + i)])
  OBVIOUS
<1> HIDE DEF rows
<1>5. t \in Seq(SUBSET Bits) /\ Len(t) = m
  BY <1>2, RowSeq
<1> HIDE DEF t
<1>6. CASE out' = out \o t /\ UNCHANGED lost
  <2>1. /\ out' \in Seq(SUBSET Bits) /\ Len(out') = Len(out) + m
        /\ \A i \in 1..(Len(out) + m) :
             out'[i] = IF i <= Len(out) THEN out[i] ELSE t[i - Len(out)]
    BY <1>2, <1>5, <1>6, ConcatProperties
  <2>2. \A i \in 1..Len(out) : out'[i] = out[i]
    BY <1>2, <2>1
  <2>3. \A i \in 1..m : out'[Len(out) + i] = t[i]
    BY <1>2, <2>1
  <2> QED
    BY <1>1, <1>2, <1>4, <1>6, <2>1, <2>2, <2>3
<1>7. CASE lost' = TRUE /\ UNCHANGED out
  BY <1>1, <1>2, <1>7
<1> QED
  BY <1>1, <1>3, <1>6, <1>7

\* What the block loop adds: a row for every position of the block, or nothing on
\* a full disk.
LEMMA BlockAdds ==
  ASSUME TypeOK, XorBlock
  PROVE  /\ num0 * IntSize \in Nat
         /\ xor_total_size' = xor_total_size + num0 * IntSize
         /\ input_buf' \in [Files -> Seq(SUBSET Bits)]
         /\ out' \in Seq(SUBSET Bits)
         /\ \/ /\ Len(out') = Len(out) + num0 * IntSize /\ UNCHANGED lost
               /\ \A i \in 1..Len(out) : out'[i] = out[i]
               /\ \A i \in 1..(num0 * IntSize) :
                    out'[Len(out) + i] = XorRow([f \in Files |-> input_buf[f][i]])
            \/ lost' = TRUE /\ UNCHANGED out
<1> DEFINE m == num0 * IntSize
           rows == [i \in 1..m |-> [f \in Files |-> input_buf[f][i]]]
           t == [i \in 1..m |-> XorRow(rows[i])]
<1>1. num0 \in Nat /\ m \in Nat /\ out \in Seq(SUBSET Bits) /\ Len(out) \in Nat
  BY Constants, Products DEF TypeOK
<1>2. t = [i \in 1..m |-> XorRow([f \in Files |-> input_buf[f][i]])]
  OBVIOUS
<1>3. \A i \in 1..m : t[i] = XorRow([f \in Files |-> input_buf[f][i]])
  OBVIOUS
<1> HIDE DEF rows, m
<1>4. t \in Seq(SUBSET Bits) /\ Len(t) = m
  BY <1>1, RowSeq
<1> HIDE DEF t
<1>5. /\ input_buf' = [input_buf EXCEPT ![0] = t]
      /\ (out' = out \o input_buf'[0] /\ UNCHANGED lost) \/ (lost' = TRUE /\ UNCHANGED out)
      /\ xor_total_size' = xor_total_size + m
  <2>1. input_buf' = [input_buf EXCEPT ![0] = t]
    BY <1>2 DEF XorBlock, m
  <2>2. (out' = out \o input_buf'[0] /\ UNCHANGED lost) \/ (lost' = TRUE /\ UNCHANGED out)
    BY DEF XorBlock
  <2>3. xor_total_size' = xor_total_size + m
    BY DEF XorBlock, m
  <2> QED
    BY <2>1, <2>2, <2>3
<1>6. input_buf' \in [Files -> Seq(SUBSET Bits)] /\ input_buf'[0] = t
  BY <1>5, <1>4, Constants DEF TypeOK
<1>7. CASE out' = out \o t /\ UNCHANGED lost
  <2>1. /\ out' \in Seq(SUBSET Bits) /\ Len(out') = Len(out) + m
        /\ \A i \in 1..(Len(out) + m) :
             out'[i] = IF i <= Len(out) THEN out[i] ELSE t[i - Len(out)]
    BY <1>1, <1>4, <1>7, ConcatProperties
  <2>2. \A i \in 1..Len(out) : out'[i] = out[i]
    BY <1>1, <2>1
  <2>3. \A i \in 1..m : out'[Len(out) + i] = t[i]
    BY <1>1, <2>1
  <2> QED
    BY <1>1, <1>3, <1>5, <1>6, <1>7, <2>1, <2>2, <2>3 DEF m
<1>8. CASE lost' = TRUE /\ UNCHANGED out
  BY <1>1, <1>5, <1>6, <1>8 DEF m
<1> QED
  BY <1>5, <1>6, <1>7, <1>8

\* Types: a block or the tail is XORed.
LEMMA TypeTailBlock == TypeOK /\ (XorTail \/ XorBlock) => TypeOK'
<1> SUFFICES ASSUME TypeOK, XorTail \/ XorBlock PROVE TypeOK'
  OBVIOUS
<1>1. xor_total_size \in Nat /\ Len(out) \in Nat /\ Len(out) <= xor_total_size
  BY DEF TypeOK
<1>2. /\ xor_total_size' \in Nat
      /\ out' \in Seq(SUBSET Bits) /\ Len(out') <= xor_total_size' /\ lost' \in BOOLEAN
  <2>1. CASE XorTail
    <3>1. lost \in BOOLEAN
      BY DEF TypeOK
    <3>2. PICK m \in Nat :
            /\ xor_total_size' = xor_total_size + m /\ out' \in Seq(SUBSET Bits)
            /\ (Len(out') = Len(out) + m /\ UNCHANGED lost) \/ (lost' = TRUE /\ UNCHANGED out)
      BY <2>1, TailAdds
    <3>3. lost' \in BOOLEAN
      BY <3>1, <3>2
    <3>4. xor_total_size' \in Nat /\ Len(out') <= xor_total_size'
      BY <1>1, <3>2
    <3> QED
      BY <3>2, <3>3, <3>4
  <2>2. CASE XorBlock
    <3>1. lost \in BOOLEAN
      BY DEF TypeOK
    <3>2. /\ num0 * IntSize \in Nat /\ xor_total_size' = xor_total_size + num0 * IntSize
          /\ out' \in Seq(SUBSET Bits)
          /\ \/ Len(out') = Len(out) + num0 * IntSize /\ UNCHANGED lost
             \/ lost' = TRUE /\ UNCHANGED out
      BY <2>2, BlockAdds
    <3> DEFINE m == num0 * IntSize
    <3>3. m \in Nat /\ xor_total_size' = xor_total_size + m
          /\ ((Len(out') = Len(out) + m /\ UNCHANGED lost) \/ (lost' = TRUE /\ UNCHANGED out))
      BY <3>2
    <3> HIDE DEF m
    <3>4. lost' \in BOOLEAN
      BY <3>1, <3>3
    <3>5. xor_total_size' \in Nat /\ Len(out') <= xor_total_size'
      BY <1>1, <3>2, <3>3
    <3> QED
      BY <3>2, <3>4, <3>5
  <2> QED
    BY <2>1, <2>2
<1>3. input_buf' \in [Files -> Seq(SUBSET Bits)]
  BY BlockAdds DEF XorTail, TypeOK
<1>4. UNCHANGED <<content, st_size, opened, num0>>
  BY DEF XorTail, XorBlock
<1>5. /\ ret' \in {"none", "RIGHT", "ERROR_FILE_OPEN", "ERROR_OUTPUT_FILE", "ERROR_FILE_SIZE",
                   "ERROR_APPLY_MALLOC", "ERROR_FREAD_FILE", "ERROR_XOR_FILE"}
      /\ pc' \in {"open", "stat", "malloc", "read", "xor", "close", "done"}
  <2>1. CASE XorTail
    BY <2>1 DEF TypeOK, XorTail
  <2>2. CASE XorBlock
    BY <2>2 DEF TypeOK, XorBlock, Return
  <2> QED
    BY <2>1, <2>2
<1> QED
  BY <1>2, <1>3, <1>4, <1>5 DEF TypeOK

-----------------------------------------------------------------------------
(* Where the loops are.                                                    *)

\* What is said of the files alone does not change.
LEMMA Fixed ==
  ASSUME UNCHANGED <<content, st_size>>
  PROVE  /\ Plain' = Plain /\ SizesAgree' = SizesAgree
         /\ file_total_size' = file_total_size /\ InBlocks' = InBlocks
         /\ Have(InBlocks)' = Have(InBlocks)
BY DEF Plain, PlainTail, SizesAgree, file_total_size, InBlocks, Have

\* The loop invariant holds at the start.
LEMMA LoopInit == Init => Loop
<1> SUFFICES ASSUME Init PROVE Loop
  OBVIOUS
<1>1. pc = "open" /\ ret = "none" /\ xor_total_size = 0 /\ num0 = 0
  BY DEF Init
<1> QED
  BY <1>1 DEF Loop, Running, Agreed, AtStart, AtRead, AtXor, AtEnd, Failed

\* Before the first block nothing has been done.
LEMMA NoneDone ==
  ASSUME TypeOK, xor_total_size = 0
  PROVE  xor_total_size <= file_total_size /\ Whole(0)
<1>1. file_total_size \in Nat /\ file_total_size \div IntSize \in Nat
  BY Sizes
<1>2. \A f \in Files : Len(content[f]) \in Nat
  BY FileFacts
<1>3. 0 * IntSize = 0 /\ 0 \in 0..(file_total_size \div IntSize)
  BY <1>1, Constants
<1>4. Have(xor_total_size)
  BY <1>2 DEF Have
<1> QED
  BY <1>1, <1>3, <1>4 DEF Whole

\* The loop invariant under the steps that leave the bytes alone.
LEMMA LoopPlainly == TypeOK /\ Loop /\ Plainly => Loop'
<1> SUFFICES ASSUME TypeOK, Loop, Plainly PROVE Loop'
  OBVIOUS
<1>1. UNCHANGED <<content, st_size, input_buf, num0, xor_total_size>>
  BY DEF Plainly, OpenInput, OpenOutput, CompareSizes, Malloc, Close, vars
<1>2. /\ Plain' = Plain /\ SizesAgree' = SizesAgree
      /\ file_total_size' = file_total_size /\ InBlocks' = InBlocks
      /\ Have(InBlocks)' = Have(InBlocks)
  BY <1>1, Fixed
<1>3. PastWhole' = PastWhole
  BY <1>1, <1>2 DEF PastWhole, Have
<1>4. \A k \in Nat : Whole(k)' = Whole(k)
  BY <1>1, <1>2 DEF Whole, Have
<1>5. \A k \in Nat : Loaded(k)' = Loaded(k)
  BY <1>1, <1>2, <1>4 DEF Loaded, Have
<1>6. Running' /\ Agreed'
  BY <1>2 DEF Loop, Running, Agreed, Plainly, OpenInput, OpenOutput, CompareSizes, Malloc,
     Close, Return, vars
<1>7. AtStart'
  BY <1>1 DEF Loop, AtStart, Plainly, OpenInput, OpenOutput, CompareSizes, Malloc, Close,
     Return, vars
<1>8. AtRead'
  <2>1. CASE pc' # "read"
    BY <2>1 DEF AtRead
  <2>2. CASE pc' = "read" /\ pc = "read"
    BY <2>2, <1>1, <1>2, <1>3, <1>4 DEF Loop, AtRead
  <2>3. CASE pc' = "read" /\ pc # "read"
    <3>1. pc = "malloc"
      BY <2>3 DEF Plainly, OpenInput, OpenOutput, CompareSizes, Malloc, Close, Return,
         vars
    <3>2. xor_total_size <= file_total_size /\ Whole(0)
      BY <3>1, NoneDone DEF Loop, AtStart
    <3> QED
      BY <3>2, <1>1, <1>2, <1>4 DEF AtRead
  <2> QED
    BY <2>1, <2>2, <2>3
<1>9. AtXor'
  <2>1. pc' = "xor" => pc = "xor"
    BY DEF Plainly, OpenInput, OpenOutput, CompareSizes, Malloc, Close, Return, vars
  <2> QED
    BY <2>1, <1>1, <1>2, <1>3, <1>5 DEF Loop, AtXor
<1>10. AtEnd' /\ Failed'
  <2>1. /\ pc' = "close" \/ ret' = "RIGHT" => pc = "close" \/ ret = "RIGHT"
        /\ ret' \in {"ERROR_FREAD_FILE", "ERROR_XOR_FILE"}
             => ret \in {"ERROR_FREAD_FILE", "ERROR_XOR_FILE"}
    BY DEF Plainly, OpenInput, OpenOutput, CompareSizes, Malloc, Close, Return, vars
  <2> QED
    BY <2>1, <1>1, <1>2, <1>3 DEF Loop, AtEnd, Failed
<1> QED
  BY <1>6, <1>7, <1>8, <1>9, <1>10 DEF Loop

\* As long as a whole int is asked for, the block loop has not done them all.
LEMMA StillWhole ==
  ASSUME TypeOK, AtRead, pc = "read", read_size # 0
  PROVE  \E k \in Nat : Whole(k)
<1>1. xor_total_size <= file_total_size /\ xor_total_size \in Nat
  BY DEF AtRead, TypeOK
<1>2. xor_total_size + IntSize <= file_total_size
  BY <1>1, ReadSizes
<1>3. ~PastWhole
  BY <1>1, <1>2, Sizes, Constants DEF PastWhole
<1> QED
  BY <1>3 DEF AtRead

\* When none is, it has.
LEMMA NowPast ==
  ASSUME TypeOK, AtRead, pc = "read", read_size = 0
  PROVE  PastWhole
<1>1. xor_total_size <= file_total_size /\ xor_total_size \in Nat
  BY DEF AtRead, TypeOK
<1>2. file_total_size < xor_total_size + IntSize
  BY <1>1, ReadSizes
<1>3. ASSUME NEW k \in Nat, Whole(k)
      PROVE  PastWhole
  <2> DEFINE most == file_total_size \div IntSize
  <2>1. most \in Nat /\ k <= most /\ xor_total_size = k * IntSize /\ InBlocks = most * IntSize
    BY <1>3, Sizes DEF Whole, InBlocks
  <2>2. k < most => k * IntSize + IntSize <= most * IntSize
    BY <2>1, Products, Constants
  <2>3. InBlocks \in Nat /\ InBlocks <= file_total_size /\ file_total_size \in Nat
    BY Sizes
  <2> HIDE DEF most
  <2>4. ~(k < most)
    BY <1>1, <1>2, <2>1, <2>2, <2>3, Constants
  <2>5. k = most
    BY <2>1, <2>4
  <2>6. InBlocks = xor_total_size
    BY <2>1, <2>5
  <2>7. Have(InBlocks)
    BY <1>3, <2>6 DEF Whole
  <2> QED
    BY <2>3, <2>6, <2>7 DEF PastWhole
<1> QED
  BY <1>3 DEF AtRead

\* A block that all files can fill follows what has been done; the files cannot
\* fall short one before the other if they have the sizes lstat reported.
LEMMA LoopReadBlock == TypeOK /\ Loop /\ ReadBlock => Loop'
<1> SUFFICES ASSUME TypeOK, Loop, ReadBlock PROVE Loop'
  OBVIOUS
<1>1. /\ pc = "read" /\ ret = "none" /\ read_size # 0 /\ SizesAgree
      /\ xor_total_size <= file_total_size /\ xor_total_size \in Nat
  BY DEF Loop, Running, Agreed, AtRead, ReadBlock, TypeOK
<1>2. UNCHANGED <<content, st_size, xor_total_size>>
  BY DEF ReadBlock
<1>3. /\ Plain' = Plain /\ SizesAgree' = SizesAgree
      /\ file_total_size' = file_total_size /\ InBlocks' = InBlocks
  BY <1>2, Fixed
<1>4. CASE \A f \in Files : Ints(f) = Ints(0)
  <2>1. /\ num0' = Ints(0) /\ pc' = "xor" /\ ret' = "none"
        /\ input_buf' = [f \in Files |->
             SubSeq(content[f], xor_total_size + 1, xor_total_size + Ints(f) * IntSize)]
    BY <1>1, <1>4 DEF ReadBlock
  <2>2. PICK k \in Nat : Whole(k)
    BY <1>1, StillWhole DEF Loop
  <2> DEFINE m == num0' * IntSize
  <2>3. /\ num0' \in Nat /\ num0' <= read_size /\ m \in Nat
        /\ \A f \in Files : num0' = Ints(f)
    BY <1>1, <1>4, <2>1, IntsRead, ReadSizes, Constants
  <2>4. \A f \in Files : xor_total_size + m <= Len(content[f])
    <3>1. SUFFICES ASSUME NEW f \in Files
                   PROVE  xor_total_size + m <= Len(content[f])
      OBVIOUS
    <3>2. Ints(f) = 0 \/ xor_total_size + Ints(f) * IntSize <= Len(content[f])
      BY <1>1, IntsRead
    <3>3. CASE num0' = 0
      <4>1. m = 0 /\ xor_total_size <= Len(content[f])
        BY <3>3, <2>2, Constants DEF Whole, Have
      <4> QED
        BY <4>1, <1>1
    <3>4. CASE num0' # 0
      BY <3>2, <3>4, <2>3
    <3> QED
      BY <3>3, <3>4
  <2>5. k + num0' <= file_total_size \div IntSize
    <3>1. xor_total_size + read_size * IntSize <= file_total_size
          /\ read_size \in Nat /\ file_total_size \in Nat
      BY <1>1, ReadSizes, Sizes, Constants
    <3>2. m <= read_size * IntSize /\ read_size * IntSize \in Nat
      BY <2>3, <3>1, Products, Constants
    <3>3. k * IntSize + m <= file_total_size
      BY <3>1, <3>2, <1>1, <2>2, <2>3 DEF Whole
    <3>4. (k + num0') * IntSize = k * IntSize + m /\ k + num0' \in Nat
      <4>1. \A j, l \in Nat : (j + l) * IntSize = j * IntSize + l * IntSize
        BY Products, Constants
      <4>2. PICK p \in Nat : p = num0'
        BY <2>3
      <4>3. (k + p) * IntSize = k * IntSize + p * IntSize
        BY <4>1
      <4>4. k + p \in Nat
        OBVIOUS
      <4> HIDE DEF m
      <4>5. m = p * IntSize
        BY <4>2 DEF m
      <4> QED
        BY ONLY <4>2, <4>3, <4>4, <4>5
    <3>5. (k + num0') * IntSize <= file_total_size
      BY <3>3, <3>4
    <3> QED
      BY <3>1, <3>4, <3>5, MostInts, Constants
  <2>6. ASSUME NEW f \in Files, NEW i \in 1..m
        PROVE  input_buf'[f][i] = content[f][xor_total_size + i]
    <3> DEFINE a == xor_total_size + 1
               b == xor_total_size + m
    <3>1. input_buf'[f] = SubSeq(content[f], a, b)
      BY <2>1, <2>3
    <3>2. content[f] \in Seq(SUBSET Bits) /\ Len(content[f]) \in Nat
      BY FileFacts
    <3> HIDE DEF m
    <3>3. a \in Int /\ b \in Int /\ i \in 1..(b - a + 1) /\ a + i - 1 = xor_total_size + i
      BY <1>1, <2>3
    <3>4. \A j \in a..b : j \in 1..Len(content[f])
      BY <1>1, <2>3, <2>4, <3>2
    <3>5. \A j \in a..b : content[f][j] \in SUBSET Bits
      BY <3>2, <3>4, ElementOfSeq
    <3> HIDE DEF a, b
    <3>6. SubSeq(content[f], a, b)[i] = content[f][a + i - 1]
      BY <3>3, <3>5, SubSeqProperties
    <3> QED
      BY <3>1, <3>3, <3>6
  <2>7. Whole(k)'
    BY <1>2, <1>3, <2>2 DEF Whole, Have
  <2>8. Loaded(k)'
    BY <1>2, <1>3, <2>4, <2>5, <2>6, <2>7 DEF Loaded, Have
  <2> QED
    BY <1>1, <1>3, <2>1, <2>8 DEF Loop, Running, Agreed, AtStart, AtRead, AtXor, AtEnd,
       Failed
<1>5. CASE \E f \in Files : Ints(f) # Ints(0)
  <2>1. ret' = "ERROR_FREAD_FILE" /\ pc' = "done"
    BY <1>1, <1>5 DEF ReadBlock, Return
  <2>2. ~Plain
    <3>1. SUFFICES ASSUME Plain PROVE FALSE
      OBVIOUS
    <3>2. \A f \in Files : Len(content[f]) = Len(content[0])
      BY <3>1, <1>1, Constants DEF Plain, SizesAgree
    <3>3. \A f \in Files : Ints(f) = Ints(0)
      BY <3>2 DEF Ints
    <3> QED
      BY <1>5, <3>3
  <2> QED
    BY <1>1, <1>3, <2>1, <2>2 DEF Loop, Running, Agreed, AtStart, AtRead, AtXor, AtEnd,
       Failed
<1> QED
  BY <1>4, <1>5

\* The byte loop ends at the size if nothing looks like EOF before the end.
LEMMA LoopXorTail == TypeOK /\ Loop /\ XorTail => Loop'
<1> SUFFICES ASSUME TypeOK, Loop, XorTail PROVE Loop'
  OBVIOUS
<1>1. /\ pc = "read" /\ ret = "none" /\ read_size = 0 /\ SizesAgree
      /\ xor_total_size <= file_total_size /\ xor_total_size \in Nat
  BY DEF Loop, Running, Agreed, AtRead, XorTail, TypeOK
<1>2. UNCHANGED <<content, st_size, num0, ret>>
  BY DEF XorTail
<1>3. /\ Plain' = Plain /\ SizesAgree' = SizesAgree
      /\ file_total_size' = file_total_size /\ InBlocks' = InBlocks
      /\ Have(InBlocks)' = Have(InBlocks)
  BY <1>2, Fixed
<1>4. PICK m \in Nat : /\ xor_total_size' = xor_total_size + m
                       /\ fgetc(0, xor_total_size + m + 1) = FF
                       /\ \A i \in 1..m : fgetc(0, xor_total_size + i) # FF
  BY TailAdds
<1>5. PastWhole
  BY <1>1, NowPast DEF Loop
<1>6. PastWhole'
  <2>1. xor_total_size' >= InBlocks
    BY <1>1, <1>4, <1>5, Sizes DEF PastWhole
  <2> QED
    BY <1>3, <1>5, <2>1 DEF PastWhole
<1>7. xor_total_size' # file_total_size => ~Plain
  <2> SUFFICES ASSUME Plain PROVE xor_total_size + m = file_total_size
    BY <1>4
  <2>1. Len(content[0]) = file_total_size /\ file_total_size \in Nat /\ InBlocks \in Nat
        /\ xor_total_size >= InBlocks
    BY <1>5, Sizes, Constants DEF Plain, file_total_size, PastWhole
  <2>2. ~(xor_total_size + m < file_total_size)
    <3>1. SUFFICES ASSUME xor_total_size + m < file_total_size PROVE FALSE
      OBVIOUS
    <3> DEFINE i == xor_total_size + m + 1
    <3>2. i \in (InBlocks + 1)..file_total_size /\ i <= Len(content[0])
      BY <1>1, <2>1, <3>1
    <3>3. content[0][i] # FF
      BY <3>2 DEF Plain, PlainTail
    <3> QED
      BY <1>4, <3>2, <3>3 DEF fgetc
  <2>3. ~(xor_total_size + m > file_total_size)
    <3>1. SUFFICES ASSUME xor_total_size + m > file_total_size PROVE FALSE
      OBVIOUS
    <3>2. m \in 1..m /\ ~(xor_total_size + m <= Len(content[0]))
      BY <1>1, <2>1, <3>1
    <3>3. fgetc(0, xor_total_size + m) = FF
      BY <3>2 DEF fgetc
    <3> QED
      BY <1>4, <3>2, <3>3
  <2> QED
    BY <1>1, <2>1, <2>2, <2>3
<1>8. CASE xor_total_size' = file_total_size
  <2>1. pc' = "close" /\ ret' = "none"
    BY <1>1, <1>8 DEF XorTail
  <2> QED
    BY <1>1, <1>3, <1>6, <1>8, <2>1 DEF Loop, Running, Agreed, AtStart, AtRead, AtXor,
       AtEnd, Failed
<1>9. CASE xor_total_size' # file_total_size
  <2>1. pc' = "xor" /\ ret' = "none"
    BY <1>1, <1>9 DEF XorTail
  <2> QED
    BY <1>1, <1>3, <1>6, <1>7, <1>9, <2>1 DEF Loop, Running, Agreed, AtStart, AtRead,
       AtXor, AtEnd, Failed
<1> QED
  BY <1>8, <1>9

\* Blocks never pass the size: only a byte loop that stopped elsewhere can.
LEMMA LoopXorBlock == TypeOK /\ Loop /\ XorBlock => Loop'
<1> SUFFICES ASSUME TypeOK, Loop, XorBlock PROVE Loop'
  OBVIOUS
<1> DEFINE m == num0 * IntSize
<1>1. /\ pc = "xor" /\ ret = "none" /\ SizesAgree
      /\ xor_total_size \in Nat /\ num0 \in Nat
  BY Constants DEF Loop, Running, Agreed, XorBlock, TypeOK
<1>2. UNCHANGED <<content, st_size, num0>>
  BY DEF XorBlock
<1>3. /\ Plain' = Plain /\ SizesAgree' = SizesAgree
      /\ file_total_size' = file_total_size /\ InBlocks' = InBlocks
      /\ Have(InBlocks)' = Have(InBlocks)
  BY <1>2, Fixed
<1>4. /\ m \in Nat /\ xor_total_size' = xor_total_size + m
      /\ num0 # 0 => m >= IntSize
  BY <1>1, BlockAdds, Products, Constants
<1>5. /\ file_total_size \in Nat /\ InBlocks \in Nat /\ InBlocks <= file_total_size
      /\ file_total_size < InBlocks + IntSize
  BY Sizes
<1> HIDE DEF m
<1>6. /\ xor_total_size' = file_total_size => pc' = "close" /\ ret' = "none"
      /\ xor_total_size' > file_total_size => pc' = "done" /\ ret' = "ERROR_XOR_FILE"
      /\ xor_total_size' < file_total_size => pc' = "read" /\ ret' = "none"
  BY <1>1, <1>4, <1>5 DEF XorBlock, Return
<1>7. CASE \E k \in Nat : Loaded(k)
  <2>1. PICK k \in Nat : Loaded(k)
    BY <1>7
  <2> DEFINE most == file_total_size \div IntSize
  <2>2. /\ most \in Nat /\ InBlocks = most * IntSize
        /\ k + num0 \in 0..most /\ xor_total_size = k * IntSize
        /\ \A f \in Files : Len(content[f]) >= xor_total_size + m
    BY <1>1, <2>1, Sizes DEF Loaded, Whole, InBlocks, Have, m
  <2> HIDE DEF most
  <2>3. (k + num0) * IntSize = k * IntSize + m /\ (k + num0) * IntSize <= most * IntSize
    BY <1>1, <2>2, Products, Constants DEF m
  <2>4. xor_total_size' = (k + num0) * IntSize /\ xor_total_size' <= InBlocks
    BY <1>4, <2>2, <2>3
  <2>5. \A f \in Files : Len(content[f]) >= xor_total_size'
    BY <1>4, <2>2
  <2>6. \E l \in Nat : Whole(l)'
    <3>1. PICK l \in Nat : l = k + num0
      BY <1>1
    <3>2. l \in 0..(file_total_size' \div IntSize) /\ xor_total_size' = l * IntSize
      BY <1>3, <2>2, <2>4, <3>1 DEF most
    <3>3. Have(xor_total_size)'
      BY <1>2, <2>5 DEF Have
    <3>4. Whole(l)'
      BY <3>2, <3>3 DEF Whole
    <3> QED
      BY <3>4
  <2>7. CASE xor_total_size' = file_total_size
    <3>1. xor_total_size' = InBlocks
      BY <1>4, <1>5, <2>4, <2>7
    <3>2. Have(InBlocks)
      BY <2>5, <3>1 DEF Have
    <3>3. PastWhole'
      BY <1>3, <1>5, <3>1, <3>2 DEF PastWhole
    <3> QED
      BY <1>1, <1>3, <1>6, <2>7, <3>3 DEF Loop, Running, Agreed, AtStart, AtRead, AtXor,
         AtEnd, Failed
  <2>8. CASE xor_total_size' < file_total_size
    <3>1. xor_total_size' <= file_total_size
      BY <1>4, <1>5, <1>1, <2>8
    <3>2. AtRead'
      BY <1>3, <2>6, <3>1 DEF AtRead
    <3> QED
      BY <1>1, <1>3, <1>6, <2>8, <3>2 DEF Loop, Running, Agreed, AtStart, AtXor, AtEnd,
         Failed
  <2> QED
    BY <1>1, <1>4, <1>5, <2>4, <2>7, <2>8
<1>8. CASE PastWhole /\ xor_total_size # file_total_size /\ ~Plain
  <2>1. PastWhole'
    <3>1. xor_total_size' >= InBlocks
      BY <1>1, <1>4, <1>5, <1>8 DEF PastWhole
    <3> QED
      BY <1>3, <1>8, <3>1 DEF PastWhole
  <2>2. xor_total_size' # file_total_size
    <3>1. CASE num0 = 0
      <4>1. m = 0
        BY <3>1, Constants DEF m
      <4> QED
        BY <1>1, <1>4, <1>8, <4>1
    <3>2. CASE num0 # 0
      BY <1>1, <1>4, <1>5, <1>8, <3>2, Constants DEF PastWhole
    <3> QED
      BY <3>1, <3>2
  <2>3. CASE xor_total_size' > file_total_size
    BY <1>1, <1>3, <1>6, <1>8, <2>3 DEF Loop, Running, Agreed, AtStart, AtRead, AtXor,
       AtEnd, Failed
  <2>4. CASE xor_total_size' < file_total_size
    <3>1. xor_total_size' <= file_total_size
      BY <1>4, <1>5, <1>1, <2>4
    <3> QED
      BY <1>1, <1>3, <1>6, <2>1, <2>4, <3>1 DEF Loop, Running, Agreed, AtStart, AtRead,
         AtXor, AtEnd, Failed
  <2> QED
    BY <1>1, <1>4, <1>5, <2>2, <2>3, <2>4
<1> QED
  BY <1>1, <1>7, <1>8 DEF Loop, AtXor

-----------------------------------------------------------------------------
(* What is written.                                                        *)

\* The count is that of bytes of the first file, after both loops.
LEMMA CountedNext ==
  TypeOK /\ Loop /\ Counted /\ (Plainly \/ ReadBlock \/ XorTail \/ XorBlock) => Counted'
<1> SUFFICES ASSUME TypeOK, Loop, Counted, Plainly \/ ReadBlock \/ XorTail \/ XorBlock
             PROVE  Counted'
  OBVIOUS
<1>1. /\ xor_total_size \in Nat /\ Len(out) \in Nat /\ 0 \in Files
      /\ Len(content[0]) \in Nat /\ content' = content
  BY FileFacts, Constants DEF TypeOK, Plainly, OpenInput, OpenOutput, CompareSizes,
     Malloc, Close, ReadBlock, XorTail, XorBlock, vars
<1>2. CASE Plainly \/ ReadBlock
  <2>1. UNCHANGED <<xor_total_size, out, lost>>
    BY <1>2 DEF Plainly, OpenInput, OpenOutput, CompareSizes, Malloc, Close, ReadBlock,
       vars
  <2>2. ret' # "ERROR_XOR_FILE" => ret # "ERROR_XOR_FILE"
    BY <1>2 DEF Loop, Running, Plainly, OpenInput, OpenOutput, CompareSizes, Malloc,
       Close, ReadBlock, Return, vars
  <2> QED
    BY <1>1, <2>1, <2>2 DEF Counted
<1>3. CASE XorTail
  <2>1. ret = "none"
    BY <1>3 DEF Loop, Running, XorTail
  <2>2. PICK m \in Nat :
          /\ xor_total_size' = xor_total_size + m
          /\ \A i \in 1..m : fgetc(0, xor_total_size + i) # FF
          /\ (Len(out') = Len(out) + m /\ UNCHANGED lost) \/ lost' = TRUE
    BY <1>3, TailAdds
  <2>3. xor_total_size + m <= Len(content[0])
    <3>1. CASE m = 0
      BY <1>1, <2>1, <3>1 DEF Counted
    <3>2. CASE m # 0
      <4>1. fgetc(0, xor_total_size + m) # FF
        BY <2>2, <3>2
      <4> QED
        BY <4>1 DEF fgetc
    <3> QED
      BY <3>1, <3>2
  <2>4. ~lost' => Len(out') = xor_total_size'
    BY <1>1, <2>2 DEF Counted
  <2> QED
    BY <1>1, <2>2, <2>3, <2>4 DEF Counted
<1>4. CASE XorBlock
  <2> DEFINE m == num0 * IntSize
  <2>1. /\ m \in Nat /\ xor_total_size' = xor_total_size + m
        /\ (Len(out') = Len(out) + m /\ UNCHANGED lost) \/ lost' = TRUE
    BY <1>4, BlockAdds
  <2>2. ~lost' => Len(out') = xor_total_size'
    BY <1>1, <2>1 DEF Counted
  <2>3. ret' # "ERROR_XOR_FILE" => xor_total_size + m <= Len(content[0])
    <3>1. SUFFICES ASSUME ret' # "ERROR_XOR_FILE"
                   PROVE  xor_total_size + m <= Len(content[0])
      OBVIOUS
    <3>2. ret = "none" /\ pc = "xor"
      BY <1>4 DEF Loop, Running, XorBlock
    <3>3. CASE \E k \in Nat : Loaded(k)
      BY <1>1, <3>3 DEF Loaded, Have
    <3>4. CASE PastWhole
      <4>1. ~(xor_total_size' > file_total_size)
        BY <1>1, <1>4, <2>1, <3>1, Sizes DEF XorBlock, Return
      <4>2. num0 # 0 => m >= IntSize
        BY Products, Constants DEF TypeOK
      <4>3. num0 = 0 => m = 0
        BY Constants
      <4>4. m = 0
        BY <1>1, <2>1, <3>4, <4>1, <4>2, <4>3, Sizes, Constants DEF PastWhole
      <4> QED
        BY <1>1, <3>2, <4>4 DEF Counted
    <3> QED
      BY <3>2, <3>3, <3>4 DEF Loop, AtXor
  <2> QED
    BY <1>1, <2>1, <2>2, <2>3 DEF Counted
<1> QED
  BY <1>2, <1>3, <1>4

\* The row of XORs at a position of the files.
Row(i) == XorRow([f \in Files |-> fgetc(f, i)])

\* What has been written is kept by every step.
LEMMA WrittenNext ==
  TypeOK /\ Loop /\ Counted /\ Written /\ (Plainly \/ ReadBlock \/ XorTail \/ XorBlock)
    => Written'
<1> SUFFICES ASSUME TypeOK, Loop, Counted, Written,
                    Plainly \/ ReadBlock \/ XorTail \/ XorBlock,
                    ret' # "ERROR_XOR_FILE", ~lost',
                    NEW i \in 1..xor_total_size'
             PROVE  out'[i] = Row(i)'
  BY DEF Written, Row
<1>1. xor_total_size \in Nat /\ Len(out) \in Nat /\ content' = content
  BY DEF TypeOK, Plainly, OpenInput, OpenOutput, CompareSizes, Malloc, Close, ReadBlock,
     XorTail, XorBlock, vars
<1>2. Row(i)' = Row(i)
  BY <1>1 DEF Row, XorRow, fgetc
<1>3. ret # "ERROR_XOR_FILE"
  BY DEF Loop, Running, Plainly, OpenInput, OpenOutput, CompareSizes, Malloc, Close,
     ReadBlock, XorTail, XorBlock, Return, vars
<1>4. ~lost => Len(out) = xor_total_size /\ \A j \in 1..xor_total_size : out[j] = Row(j)
  BY <1>3 DEF Counted, Written, Row
<1>5. CASE Plainly \/ ReadBlock
  <2>1. UNCHANGED <<xor_total_size, out, lost>>
    BY <1>5 DEF Plainly, OpenInput, OpenOutput, CompareSizes, Malloc, Close, ReadBlock,
       vars
  <2> QED
    BY <1>2, <1>4, <2>1
<1>6. CASE XorTail
  <2>1. PICK m \in Nat :
          /\ xor_total_size' = xor_total_size + m
          /\ Len(out') = Len(out) + m /\ UNCHANGED lost
          /\ \A j \in 1..Len(out) : out'[j] = out[j]
          /\ \A j \in 1..m : out'[Len(out) + j] = Row(xor_total_size + j)
    BY <1>6, TailAdds DEF Row
  <2>2. Len(out) = xor_total_size /\ \A j \in 1..xor_total_size : out[j] = Row(j)
    BY <1>4, <2>1
  <2>3. CASE i <= xor_total_size
    BY <1>1, <1>2, <2>1, <2>2, <2>3
  <2>4. CASE i > xor_total_size
    <3>1. i - xor_total_size \in 1..m /\ xor_total_size + (i - xor_total_size) = i
      BY <1>1, <2>1, <2>4
    <3> QED
      BY <1>2, <2>1, <2>2, <3>1
  <2> QED
    BY <1>1, <2>1, <2>3, <2>4
<1>7. CASE XorBlock
  <2> DEFINE m == num0 * IntSize
  <2>1. /\ m \in Nat /\ xor_total_size' = xor_total_size + m
        /\ Len(out') = Len(out) + m /\ UNCHANGED lost
        /\ \A j \in 1..Len(out) : out'[j] = out[j]
        /\ \A j \in 1..m : out'[Len(out) + j] = XorRow([f \in Files |-> input_buf[f][j]])
    BY <1>7, BlockAdds
  <2>2. Len(out) = xor_total_size /\ \A j \in 1..xor_total_size : out[j] = Row(j)
    BY <1>4, <2>1
  <2>3. CASE i <= xor_total_size
    BY <1>1, <1>2, <2>1, <2>2, <2>3
  <2>4. CASE i > xor_total_size
    <3> DEFINE j == i - xor_total_size
    <3>1. j \in 1..m /\ xor_total_size + j = i
      BY <1>1, <2>1, <2>4
    <3>2. pc = "xor" /\ m # 0
      BY <1>7, <3>1 DEF XorBlock
    <3>3. PICK k \in Nat : Loaded(k)
      <4>1. SUFFICES ASSUME PastWhole PROVE FALSE
        BY <3>2 DEF Loop, AtXor
      <4>2. num0 \in Nat /\ (num0 # 0 => m >= IntSize)
        BY Products, Constants DEF TypeOK
      <4>3. num0 = 0 => m = 0
        BY Constants
      <4>4. xor_total_size' > file_total_size
        <5>1. m >= IntSize /\ IntSize \in Nat
          BY <3>2, <4>2, <4>3, Constants
        <5>2. /\ xor_total_size >= InBlocks /\ InBlocks \in Nat
              /\ file_total_size \in Nat /\ file_total_size < InBlocks + IntSize
          BY <4>1, Sizes DEF PastWhole
        <5> HIDE DEF m
        <5> QED
          BY <1>1, <2>1, <5>1, <5>2
      <4>5. ret' = "ERROR_XOR_FILE"
        BY <1>1, <1>7, <2>1, <4>4, Sizes DEF XorBlock, Return
      <4> QED
        BY <4>5
    <3>4. \A f \in Files : input_buf[f][j] = fgetc(f, i)
      <4>1. SUFFICES ASSUME NEW f \in Files PROVE input_buf[f][j] = fgetc(f, i)
        OBVIOUS
      <4>2. input_buf[f][j] = content[f][i] /\ Len(content[f]) >= xor_total_size + m
        BY <3>1, <3>3 DEF Loaded, Have
      <4>3. i <= Len(content[f])
        BY <1>1, <2>1, <3>1, <4>2, FileFacts
      <4> QED
        BY <4>2, <4>3 DEF fgetc
    <3>5. [f \in Files |-> input_buf[f][j]] = [f \in Files |-> fgetc(f, i)]
      BY <3>4
    <3>6. out'[Len(out) + j] = XorRow([f \in Files |-> input_buf[f][j]])
      BY <2>1, <3>1
    <3> QED
      BY <1>2, <2>2, <3>1, <3>5, <3>6 DEF Row
  <2> QED
    BY <1>1, <2>1, <2>3, <2>4
<1> QED
  BY <1>5, <1>6, <1>7

-----------------------------------------------------------------------------
(* The theorems.                                                           *)

\* The invariant is inductive.
THEOREM LocalInductive == Spec => []IInv
<1>1. Init => IInv
  <2>1. Init => Counted /\ Written
    <3> SUFFICES ASSUME Init PROVE Counted /\ Written
      OBVIOUS
    <3>1. xor_total_size = 0 /\ Len(out) = 0
      BY DEF Init
    <3>2. Len(content[0]) \in Nat
      BY TypeInit, FileFacts, Constants
    <3> QED
      BY <3>1, <3>2 DEF Counted, Written
  <2> QED
    BY <2>1, TypeInit, LoopInit DEF IInv
<1>2. IInv /\ [Next]_vars => IInv'
  <2> SUFFICES ASSUME IInv, [Next]_vars PROVE IInv'
    OBVIOUS
  <2>1. Plainly \/ ReadBlock \/ XorTail \/ XorBlock
    BY DEF Next, Plainly
  <2>2. TypeOK' /\ Loop'
    BY <2>1, TypePlainly, TypeReadBlock, TypeTailBlock, LoopPlainly, LoopReadBlock,
       LoopXorTail, LoopXorBlock DEF IInv, Loop
  <2>3. Counted' /\ Written'
    BY <2>1, CountedNext, WrittenNext DEF IInv
  <2> QED
    BY <2>2, <2>3 DEF IInv
<1> QED
  BY <1>1, <1>2, PTL DEF Spec

\* Every variable keeps its type; the output never outgrows the counter of s_riad.
THEOREM LocalTypeCorrect == Spec => []TypeOK
<1>1. IInv => TypeOK
  BY DEF IInv
<1> QED
  BY <1>1, LocalInductive, PTL

\* open_file returns RIGHT only for files of one size, whose whole ints are all
\* there, and after every byte was XORed and written (or lost on a full disk).
THEOREM RightIsXor == Spec => []RightMeansXor
<1>1. IInv => RightMeansXor
  <2> SUFFICES ASSUME IInv, ret = "RIGHT" PROVE RightMeansXor
    BY DEF RightMeansXor
  <2>1. xor_total_size = file_total_size /\ PastWhole /\ SizesAgree
    BY DEF IInv, Loop, AtEnd, Agreed
  <2>2. xor_total_size <= Len(content[0]) /\ (~lost => Len(out) = xor_total_size)
    BY DEF IInv, Counted
  <2>3. lost \in BOOLEAN /\ file_total_size \in Nat /\ Len(content[0]) \in Nat
    BY Sizes, FileFacts, Constants DEF IInv, TypeOK
  <2>4. lost \/ Len(out) = file_total_size
    BY <2>1, <2>2
  <2>5. Len(content[0]) >= file_total_size
    BY <2>1, <2>2, <2>3
  <2> QED
    BY <2>1, <2>4, <2>5 DEF RightMeansXor, PastWhole, Have, SizesAgree, file_total_size
<1> QED
  BY <1>1, LocalInductive, PTL

\* s_riad fails only because of a byte of the rest that looks like EOF or a file
\* that does not have the size lstat reported.
THEOREM FailsOnlyForFF == Spec => []XorFailsOnlyForFF
<1>1. IInv => XorFailsOnlyForFF
  BY DEF IInv, Loop, Failed, Plain, XorFailsOnlyForFF
<1> QED
  BY <1>1, LocalInductive, PTL

\* Until s_riad gives up, the output is a prefix of the XOR of the files: neither
\* the block loop nor the byte loop skips, repeats or misplaces a byte.
THEOREM PrefixOfXor == Spec => []OutputIsPrefix
<1>1. IInv => OutputIsPrefix
  <2> SUFFICES ASSUME IInv, ret # "ERROR_XOR_FILE", ~lost
               PROVE  IsPrefix(out, XorOfFiles)
    BY DEF OutputIsPrefix
  <2> DEFINE len == Len(out)
  <2>1. /\ len = xor_total_size /\ xor_total_size <= Len(content[0])
        /\ \A i \in 1..xor_total_size : out[i] = Row(i)
    BY DEF IInv, Counted, Written, Row
  <2>2. len \in Nat /\ Len(content[0]) \in Nat /\ out \in Seq(SUBSET Bits)
    BY FileFacts, Constants DEF IInv, TypeOK
  <2>3. ASSUME NEW i \in Nat \ {0}
        PROVE  Row(i) = {b \in Bits : Cardinality({f \in Files : b \in fgetc(f, i)}) % 2 = 1}
    <3>1. ASSUME NEW b
          PROVE  {f \in Files : b \in [g \in Files |-> fgetc(g, i)][f]}
                   = {f \in Files : b \in fgetc(f, i)}
      OBVIOUS
    <3> QED
      BY <3>1 DEF Row, XorRow
  <2> DEFINE full == XorOfFiles
  <2>4. /\ DOMAIN full = 1..Len(content[0])
        /\ \A i \in 1..Len(content[0]) : full[i] = Row(i) /\ full[i] \in SUBSET Bits
    BY <2>3 DEF XorOfFiles
  <2>5. full \in Seq(SUBSET Bits) /\ Len(full) = Len(content[0])
    <3> DEFINE t == [i \in 1..Len(content[0]) |-> full[i]]
    <3>1. full = t
      BY <2>4 DEF XorOfFiles
    <3> HIDE DEF full
    <3>2. t \in Seq(SUBSET Bits)
      BY <2>2, <2>4, IsASeq
    <3>3. full \in Seq(SUBSET Bits)
      BY <3>1, <3>2
    <3>4. Len(full) \in Nat /\ DOMAIN full = 1..Len(full)
      BY <3>3, LenProperties
    <3> QED
      BY <2>2, <2>4, <3>3, <3>4
  <2> HIDE DEF full
  <2>6. /\ SubSeq(out, 1, len) \in Seq(SUBSET Bits) /\ Len(SubSeq(out, 1, len)) = len
        /\ \A i \in 1..len : SubSeq(out, 1, len)[i] = out[i]
    <3>1. \A i \in 1..len : out[i] \in SUBSET Bits
      BY <2>2, ElementOfSeq
    <3>2. /\ SubSeq(out, 1, len) \in Seq(SUBSET Bits)
          /\ Len(SubSeq(out, 1, len)) = IF 1 <= len THEN len - 1 + 1 ELSE 0
          /\ \A i \in 1..(len - 1 + 1) : SubSeq(out, 1, len)[i] = out[1 + i - 1]
      BY <2>2, <3>1, SubSeqProperties
    <3> QED
      BY <2>2, <3>2
  <2>7. /\ SubSeq(full, 1, len) \in Seq(SUBSET Bits) /\ Len(SubSeq(full, 1, len)) = len
        /\ \A i \in 1..len : SubSeq(full, 1, len)[i] = full[i]
    <3>1. \A i \in 1..len : full[i] \in SUBSET Bits
      BY <2>1, <2>2, <2>4
    <3>2. /\ SubSeq(full, 1, len) \in Seq(SUBSET Bits)
          /\ Len(SubSeq(full, 1, len)) = IF 1 <= len THEN len - 1 + 1 ELSE 0
          /\ \A i \in 1..(len - 1 + 1) : SubSeq(full, 1, len)[i] = full[1 + i - 1]
      BY <2>2, <3>1, SubSeqProperties
    <3> QED
      BY <2>2, <3>2
  <2>8. \A i \in 1..len : out[i] = full[i]
    BY <2>1, <2>2, <2>4
  <2> HIDE DEF len
  <2>9. SubSeq(out, 1, len) = SubSeq(full, 1, len)
    BY <2>6, <2>7, <2>8, SeqEqual
  <2> QED
    BY <2>1, <2>2, <2>5, <2>9 DEF IsPrefix, len, full
<1> QED
  BY <1>1, LocalInductive, PTL
=============================================================================
