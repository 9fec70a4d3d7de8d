------------------------------ MODULE LocalXor ------------------------------
(***************************************************************************)
(* A local request: open_file opens the files of the group and the output, *)
(* compares the sizes lstat reports and calls s_riad, which XORs blocks of *)
(* READ_SIZE bytes as ints and the bytes left over one by one.             *)
(*                                                                         *)
(* A byte is the set of its one-bits.  The byte with all bits set is 0xFF, *)
(* which read into a char compares equal to EOF.  The code runs in one     *)
(* thread; an action is one round of a loop of the code.                   *)
(***************************************************************************)
EXTENDS Integers, Sequences, FiniteSets, SequencesExt

CONSTANTS
  FileNum,    \* a_set_of_files.size()
  Bits,       \* the bits of a byte
  Bytes,      \* the bytes that occur in the input files
  MaxLen,     \* bound on the length of an input file
  OtherSizes, \* what lstat may report for a file whose length is not that
  OtherLen,   \* bound on the length of the files of a group with such a file
  IntSize,    \* sizeof(int), 4 in the code
  ReadSize,   \* READ_SIZE
  Faults      \* the kinds of failure the environment may produce

ASSUME LocalXorAssumption ==
  /\ FileNum \in 1..1024        \* in_fd[MAX_FILE_NUM]
  /\ Bytes \subseteq SUBSET Bits
  /\ MaxLen \in Nat /\ OtherLen \in 0..MaxLen /\ OtherSizes \subseteq Nat
  /\ IntSize \in Nat \ {0}
  /\ ReadSize \in Nat \ {0} /\ ReadSize % IntSize = 0
  /\ Faults \subseteq {"open", "output", "malloc", "full"}

Files == 0..(FileNum - 1)
FF == Bits

VARIABLES
  content,          \* the bytes of the input files
  st_size,          \* the sizes lstat reports
  opened,           \* the input files opened and not closed
  input_buf, num0,  \* the blocks read, and how many ints fread returned
  xor_total_size, out, ret, pc,
  lost              \* whether fwrite wrote less than it was asked to

vars == <<content, st_size, opened, input_buf, num0, xor_total_size, out, ret, pc, lost>>

Contents(len) == UNION {[1..n -> Bytes] : n \in 0..len}

\* lstat reports the length of a file, but the length of its target's name for
\* a symbolic link, and an older length for a file that is truncated or written
\* to before it is read.
Init ==
  /\ \/ /\ content \in [Files -> Contents(MaxLen)]
        /\ st_size = [f \in Files |-> Len(content[f])]
     \/ /\ content \in [Files -> Contents(OtherLen)]
        /\ st_size \in [Files -> OtherSizes \cup 0..OtherLen]
        /\ \A f \in Files : st_size[f] \in OtherSizes \cup {Len(content[f])}
  /\ opened = {}
  /\ input_buf = [f \in Files |-> << >>] /\ num0 = 0
  /\ xor_total_size = 0 /\ out = << >> /\ ret = "none" /\ pc = "open" /\ lost = FALSE

Return(r) == ret' = r /\ pc' = "done"

\* Faulty variant: the last file is left out.
XorRowSkipsLast(row) ==
  {b \in Bits : Cardinality({f \in Files : f < FileNum - 1 /\ b \in row[f]}) % 2 = 1}

\* The XOR of one byte of every file.
XorRow(row) == {b \in Bits : Cardinality({f \in Files : b \in row[f]}) % 2 = 1}

-----------------------------------------------------------------------------
(* open_file                                                               *)

\* The input files are opened in turn; an error leaves the earlier ones open.
OpenInput ==
  /\ pc = "open" /\ opened # Files
  /\ \/ /\ opened' = opened \cup {Cardinality(opened)}
        /\ UNCHANGED <<ret, pc>>
     \/ /\ "open" \in Faults
        /\ Return("ERROR_FILE_OPEN") /\ UNCHANGED opened
  /\ UNCHANGED <<content, st_size, input_buf, num0, xor_total_size, out, lost>>

OpenOutput ==
  /\ pc = "open" /\ opened = Files
  /\ \/ pc' = "stat" /\ UNCHANGED ret
     \/ "output" \in Faults /\ Return("ERROR_OUTPUT_FILE")
  /\ UNCHANGED <<content, st_size, opened, input_buf, num0, xor_total_size, out, lost>>

\* Faulty variant: the last file is not compared.
SizesAgreeButLast == \A f \in Files \ {FileNum - 1} : st_size[f] = st_size[0]

\* size0 and size1 are the same for every file.
SizesAgree == \A f \in Files : st_size[f] = st_size[0]

CompareSizes ==
  /\ pc = "stat"
  /\ IF SizesAgree THEN pc' = "malloc" /\ UNCHANGED ret ELSE Return("ERROR_FILE_SIZE")
  /\ UNCHANGED <<content, st_size, opened, input_buf, num0, xor_total_size, out, lost>>

\* After s_riad returned RIGHT all files are closed.
Close ==
  /\ pc = "close"
  /\ opened' = {}
  /\ Return("RIGHT")
  /\ UNCHANGED <<content, st_size, input_buf, num0, xor_total_size, out, lost>>

-----------------------------------------------------------------------------
(* s_riad                                                                  *)

file_total_size == st_size[0]

Malloc ==
  /\ pc = "malloc"
  /\ \/ pc' = "read" /\ UNCHANGED ret
     \/ "malloc" \in Faults /\ Return("ERROR_APPLY_MALLOC")
  /\ UNCHANGED <<content, st_size, opened, input_buf, num0, xor_total_size, out, lost>>

\* Faulty variant: the last block is not shortened.
read_size_whole == ReadSize \div IntSize

\* How many ints the next fread of each file asks for.
read_size ==
  IF file_total_size - xor_total_size <= ReadSize
  THEN (file_total_size - xor_total_size) \div IntSize
  ELSE ReadSize \div IntSize

\* What fread returns: the whole ints there are, at most read_size.  The read
\* position of every file is xor_total_size, or the end of the file, whenever
\* fread is called.
Ints(f) ==
  LET left == IF Len(content[f]) <= xor_total_size THEN 0
              ELSE (Len(content[f]) - xor_total_size) \div IntSize
  IN  IF left <= read_size THEN left ELSE read_size

\* A block of every file; files that run short one before the other are an
\* error.
ReadBlock ==
  /\ pc = "read" /\ read_size # 0
  /\ IF \A f \in Files : Ints(f) = Ints(0)
     THEN /\ num0' = Ints(0)
          /\ input_buf' = [f \in Files |->
               SubSeq(content[f], xor_total_size + 1, xor_total_size + Ints(f) * IntSize)]
          /\ pc' = "xor" /\ UNCHANGED ret
     ELSE Return("ERROR_FREAD_FILE") /\ UNCHANGED <<num0, input_buf>>
  /\ UNCHANGED <<content, st_size, opened, xor_total_size, out, lost>>

\* fgetc, assigned to a char: past the end of a file it gives EOF, which is
\* the byte FF.
fgetc(f, i) == IF i <= Len(content[f]) THEN content[f][i] ELSE FF

\* Faulty variant: the bytes are not counted.
TailCountForgotten(n) == xor_total_size

TailCount(n) == xor_total_size + n

\* Less than one int is left: the bytes of file 0 are read up to the first
\* that looks like EOF.  If the total is then wrong, the code goes on to XOR
\* the block it read last once more.
XorTail ==
  /\ pc = "read" /\ read_size = 0
  /\ \E n \in 0..MaxLen :
       /\ fgetc(0, xor_total_size + n + 1) = FF
       /\ \A i \in 1..n : fgetc(0, xor_total_size + i) # FF
       /\ \/ /\ out' = out \o [i \in 1..n |->
                  XorRow([f \in Files |-> fgetc(f, xor_total_size + i)])]
             /\ UNCHANGED lost
          \/ /\ "full" \in Faults /\ n > 0     \* fputc fails, which is not checked
             /\ lost' = TRUE /\ UNCHANGED out
       /\ xor_total_size' = TailCount(n)
  /\ pc' = IF xor_total_size' = file_total_size THEN "close" ELSE "xor"
  /\ UNCHANGED <<content, st_size, opened, input_buf, num0, ret>>

\* The ints of the block are XORed into input_buf[0] and written.  fwrite
\* returns an unsigned count, so the test ret < 0 never sees it fail.
XorBlock ==
  /\ pc = "xor"
  /\ input_buf' = [input_buf EXCEPT ![0] =
       [i \in 1..(num0 * IntSize) |-> XorRow([f \in Files |-> input_buf[f][i]])]]
  /\ \/ out' = out \o input_buf'[0] /\ UNCHANGED lost
     \/ "full" \in Faults /\ num0 > 0 /\ lost' = TRUE /\ UNCHANGED out
  /\ xor_total_size' = xor_total_size + num0 * IntSize
  /\ CASE xor_total_size' = file_total_size -> pc' = "close" /\ UNCHANGED ret
       [] xor_total_size' > file_total_size -> Return("ERROR_XOR_FILE")
       [] OTHER -> pc' = "read" /\ UNCHANGED ret
  /\ UNCHANGED <<content, st_size, opened, num0>>

-----------------------------------------------------------------------------
Next == OpenInput \/ OpenOutput \/ CompareSizes \/ Malloc \/ ReadBlock \/ XorTail \/ XorBlock \/ Close

Spec == Init /\ [][Next]_vars

\* The thread that serves the request keeps running.
FairSpec == Spec /\ WF_vars(Next)

-----------------------------------------------------------------------------
(* Properties.                                                             *)

\* Every variable has values of its type; the output never outgrows what the
\* counter xor_total_size of s_riad says.
TypeOK ==
  /\ content \in [Files -> Contents(MaxLen)]
  /\ st_size \in [Files -> OtherSizes \cup 0..MaxLen]
  /\ opened \subseteq Files
  /\ input_buf \in [Files -> Seq(SUBSET Bits)]
  /\ num0 \in 0..(ReadSize \div IntSize)
  /\ xor_total_size \in Nat
  /\ out \in Seq(SUBSET Bits) /\ Len(out) <= xor_total_size
  /\ ret \in {"none", "RIGHT", "ERROR_FILE_OPEN", "ERROR_OUTPUT_FILE", "ERROR_FILE_SIZE",
              "ERROR_APPLY_MALLOC", "ERROR_FREAD_FILE", "ERROR_XOR_FILE"}
  /\ pc \in {"open", "stat", "malloc", "read", "xor", "close", "done"}
  /\ lost \in BOOLEAN

\* The XOR of the files: a bit is set where an odd number of files has it.
XorOfFiles ==
  [i \in 1..Len(content[0]) |->
     {b \in Bits : Cardinality({f \in Files : b \in fgetc(f, i)}) % 2 = 1}]

\* Until s_riad gives up with an error, the output is a prefix of the XOR of the
\* files, whatever bytes they hold: neither the block loop nor the byte loop
\* skips, repeats or misplaces a byte.
OutputIsPrefix == ret # "ERROR_XOR_FILE" /\ ~lost => IsPrefix(out, XorOfFiles)

\* The bytes that are XORed in blocks.
InBlocks == (file_total_size \div IntSize) * IntSize

\* RIGHT is returned only for files of one size, after as many bytes as lstat
\* reported, all of them bytes of file 0, were XORed, and written unless the disk
\* is full (the result of fwrite is not seen).  A file that has fewer bytes than
\* lstat reported is noticed, unless only bytes of the rest are missing.
RightMeansXor ==
  ret = "RIGHT" => /\ \A f \in Files : st_size[f] = file_total_size
                   /\ lost \/ Len(out) = file_total_size
                   /\ Len(content[0]) >= file_total_size
                   /\ \A f \in Files : Len(content[f]) >= InBlocks

\* File 0 has the bytes lstat reported, and none of those that the block loop
\* leaves to the byte loop is FF.
PlainTail ==
  /\ Len(content[0]) >= file_total_size
  /\ \A i \in (InBlocks + 1)..file_total_size : content[0][i] # FF

\* s_riad itself fails only because of a byte that looks like EOF, or a file
\* that does not have the size lstat reported: for other files the ints and the
\* bytes left over add up to the size.
XorFailsOnlyForFF ==
  ret \in {"ERROR_XOR_FILE", "ERROR_FREAD_FILE"} /\ PlainTail
    => \E f \in Files : Len(content[f]) # st_size[f]

\* open_file returns, whatever lstat reported for the other files, unless such a
\* byte or a first file that is too short keeps s_riad in its loop.
PlainReturns == PlainTail ~> ret # "none"

\* "the bytes left over are XORed one by one" and "RIGHT, XOR successful"
\* (raid_all_file.h): files of one size are XORed successfully.
SameSizeSucceeds ==
  ret # "none" /\ (\A f \in Files : Len(content[f]) = Len(content[0])) => ret = "RIGHT"
=============================================================================
