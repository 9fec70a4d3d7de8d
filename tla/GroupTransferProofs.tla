------------------------ MODULE GroupTransferProofs ------------------------
(***************************************************************************)
(* Proofs about GroupTransfer, for every number of files, file size,       *)
(* buffer size and set of faults.  FullNumNeverOverstates says that the    *)
(* racy counter never exceeds the number of files that have filled and     *)
(* counted their buffer; so when it reaches file_num all have, and         *)
(* BufferExclusion follows.  The invariant needs the facts below besides.  *)
(***************************************************************************)
EXTENDS GroupTransfer, FiniteSetTheorems, SequenceTheorems, TLAPS

\* Before its buffers are armed, a reader has none in use.
UnarmedIsEmpty ==
  \A f \in Files : pc[f] \in {"none", "connect", "alloc0", "alloc1"} =>
    \A k \in Bufs : buf_flag[f][k] = 0

\* A reader counts only a buffer it has marked full.
CountingIsFull ==
  \A f \in Files : pc[f] \in {"load", "count"} => buf_flag[f][cur[f]] = 2

\* The value a reader has loaded is still no overstatement when it is stored.
LoadedIsSafe ==
  \A f \in Files, k \in Bufs :
    pc[f] = "count" /\ cur[f] = k => tmp[f] <= Cardinality(Fresh(k))

\* While the coordinator XORs buffer ck, every file has counted it.
XoringIsCounted == XoringBuffer => \A f \in Files : f \in Counted(ck)

\* A buffer that has still to be handed back is counted.
PendingIsCounted ==
  cpc = "resetflag" => \A f \in Files : f >= ci => f \in Counted(ck)

\* buf_xor has compared the sizes before it XORs.
XorSizesAgree == cpc = "xor" => SameSizes

\* A reader that has not been started yet has done nothing.
SpawnOrder ==
  cpc \in {"open", "spawn"} => \A f \in Files : f >= ci => pc[f] = "none"

Counters ==
  /\ SpawnOrder /\ UnarmedIsEmpty /\ CountingIsFull /\ LoadedIsSafe
  /\ FullNumNeverOverstates /\ XoringIsCounted /\ PendingIsCounted /\ XorSizesAgree

IInv == TypeOK /\ Counters

-----------------------------------------------------------------------------
(* Subsets of Files.                                                       *)

\* The files are finitely many, file_num of them.
LEMMA FilesCard == IsFiniteSet(Files) /\ Cardinality(Files) = FileNum /\ FileNum \in Nat
<1>1. FileNum \in 1..50
  BY ConstantsAssumption
<1>2. QED
  BY <1>1, FS_Interval, 0 \in Int, FileNum - 1 \in Int DEF Files

\* A set of files has at most file_num elements, and so many only if it is all.
LEMMA SubsetCard ==
  ASSUME NEW S \in SUBSET Files
  PROVE  /\ IsFiniteSet(S) /\ Cardinality(S) \in Nat /\ Cardinality(S) <= FileNum
         /\ Cardinality(S) = FileNum => S = Files
BY FilesCard, FS_Subset, FS_CardinalityType

\* More files, no smaller cardinality.
LEMMA SubsetMono ==
  ASSUME NEW T \in SUBSET Files, NEW S \in SUBSET T
  PROVE  Cardinality(S) <= Cardinality(T)
BY SubsetCard, FS_Subset

\* One more file, one more in the cardinality.
LEMMA SubsetAdd ==
  ASSUME NEW T \in SUBSET Files, NEW S \in SUBSET T, NEW f \in T, f \notin S
  PROVE  Cardinality(S) + 1 <= Cardinality(T)
<1>1. IsFiniteSet(S) /\ Cardinality(S \cup {f}) = Cardinality(S) + 1
  BY SubsetCard, FS_AddElement, S \in SUBSET Files
<1>2. QED
  BY <1>1, SubsetMono, S \cup {f} \in SUBSET T

-----------------------------------------------------------------------------
(* Type correctness.                                                       *)

\* Facts about the constants that the steps use.
LEMMA Constants ==
  /\ FileNum \in Nat /\ FileNum >= 1 /\ FileSize \in Nat
  /\ ReadBufSize \in Nat /\ MaxLine \in Nat /\ MaxLine <= ReadBufSize /\ BlockLen \in Nat
BY ConstantsAssumption

\* A file index is a number below file_num.
LEMMA FileIndex == \A f : f \in Files <=> f \in Nat /\ f < FileNum
BY Constants DEF Files

\* The initial state is well typed.
LEMMA TypeInit == Init => TypeOK
BY Constants, EmptySeq DEF Init, TypeOK, GroupType, BufType, BlockType, ReaderType, CoordType,
   ConnType, Bufs, Files, ReaderPcs, CoordPcs

\* Variables that a step leaves alone keep their types.
LEMMA Frame ==
  /\ GroupType /\ UNCHANGED groupVars => GroupType'
  /\ BufType /\ UNCHANGED bufVars => BufType'
  /\ BlockType /\ UNCHANGED blockVars => BlockType'
  /\ ReaderType /\ UNCHANGED readerVars => ReaderType'
  /\ CoordType /\ UNCHANGED coordVars => CoordType'
  /\ ConnType /\ UNCHANGED conn => ConnType'
<1>1. GroupType /\ UNCHANGED groupVars => GroupType'
  BY DEF GroupType, groupVars
<1>2. BufType /\ UNCHANGED bufVars => BufType'
  BY DEF BufType, bufVars
<1>3. BlockType /\ UNCHANGED blockVars => BlockType'
  BY DEF BlockType, blockVars
<1>4. ReaderType /\ UNCHANGED readerVars => ReaderType'
  BY DEF ReaderType, readerVars
<1>5. CoordType /\ UNCHANGED coordVars => CoordType'
  BY DEF CoordType, coordVars
<1>6. ConnType /\ UNCHANGED conn => ConnType'
  BY DEF ConnType
<1>7. QED
  BY <1>1, <1>2, <1>3, <1>4, <1>5, <1>6

\* A step of the data server or of the network changes a connection only.
LEMMA TypeServer ==
  ASSUME TypeOK, NEW f \in Files, DataServer(f)
  PROVE  TypeOK'
<1>0. ConnType
  BY DEF TypeOK
<1>1. CASE ServerSends(f)
  <2> DEFINE b == Smaller(BlockLen, FileSize - conn[f].sent)
             c == [st |-> "block", hdr |-> 1, unread |-> b, sent |-> conn[f].sent + b]
  <2>1. b \in Nat /\ conn[f].sent \in Nat
    BY <1>0, <1>1, Constants DEF ConnType, ServerSends, Smaller
  <2>2. conn' = [conn EXCEPT ![f] = c]
    BY <1>1 DEF ServerSends
  <2> HIDE DEF b
  <2>3. ConnType'
    BY <1>0, <2>1, <2>2 DEF ConnType
  <2>4. QED
    BY <1>1, <2>3, Frame DEF TypeOK, ServerSends
<1>2. CASE ServerCloses(f)
  <2>1. ConnType'
    BY <1>0, <1>2 DEF ConnType, ServerCloses
  <2>2. QED
    BY <1>2, <2>1, Frame DEF TypeOK, ServerCloses
<1>3. CASE ServerResets(f)
  <2>1. /\ conn' = [conn EXCEPT ![f] = conn'[f]]
        /\ conn'[f] = [st |-> "rst", hdr |-> 0, unread |-> 0, sent |-> conn[f].sent]
    BY <1>0, <1>3 DEF ConnType, ServerResets
  <2>2. conn[f].sent \in Nat
    BY <1>0 DEF ConnType
  <2>3. ConnType'
    BY <1>0, <2>1, <2>2 DEF ConnType
  <2>4. QED
    BY <1>3, <2>3, Frame DEF TypeOK, ServerResets
<1>4. QED
  BY <1>1, <1>2, <1>3 DEF DataServer

\* A step of the coordinator keeps the types; XorBuffers needs to know that
\* the buffers have the same fill.
LEMMA TypeCoordinator ==
  ASSUME TypeOK, XorSizesAgree, Coordinator
  PROVE  TypeOK'
<1>0. /\ GroupType /\ BufType /\ BlockType /\ ReaderType /\ CoordType /\ ConnType
      /\ proc \in {"run", "exit"}
  BY DEF TypeOK
<1>1. CASE OpenOutput \/ OpenOutputFails
  <2>1. CoordType'
    BY <1>0, <1>1 DEF CoordType, OpenOutput, OpenOutputFails, Return, CoordPcs
  <2>2. QED
    BY <1>0, <1>1, <2>1, Frame DEF TypeOK, OpenOutput, OpenOutputFails
<1>2. CASE SpawnReader
  <2>1. CoordType'
    BY <1>0, <1>2, Constants DEF CoordType, SpawnReader, CoordPcs
  <2>2. ReaderType'
    BY <1>0, <1>2 DEF ReaderType, SpawnReader, ReaderPcs
  <2>3. QED
    BY <1>0, <1>2, <2>1, <2>2, Frame DEF TypeOK, SpawnReader
<1>3. CASE SpawnFails
  <2>1. CoordType' /\ GroupType'
    BY <1>0, <1>3 DEF CoordType, GroupType, SpawnFails, Return, CoordPcs
  <2>2. QED
    BY <1>0, <1>3, <2>1, Frame DEF TypeOK, SpawnFails
<1>4. CASE Poll0 \/ Poll1
  <2>1. CoordType'
    BY <1>0, <1>4 DEF CoordType, Poll0, Poll1, CoordPcs, Bufs
  <2>2. QED
    BY <1>0, <1>4, <2>1, Frame DEF TypeOK, Poll0, Poll1
<1>5. CASE CheckSizes
  <2>1. CoordType' /\ GroupType'
    BY <1>0, <1>5 DEF CoordType, GroupType, CheckSizes, CoordPcs
  <2>2. QED
    BY <1>0, <1>5, <2>1, Frame DEF TypeOK, CheckSizes
<1>6. CASE XorBuffers
  <2>1. ck \in Bufs /\ 0 \in Files
    BY <1>0, FileIndex, Constants DEF CoordType
  <2> DEFINE len == Len(in_buf[0][ck])
             rows == [i \in 1..len |-> Row(i)]
  <2>2. \A g \in Files : in_buf[g][ck] \in Seq(Nat) /\ Len(in_buf[g][ck]) = len
    BY <1>0, <1>6, <2>1 DEF XorSizesAgree, SameSizes, XorBuffers, BufType
  <2>3. len \in Nat
    BY <2>1, <2>2, LenProperties
  <2>4. \A i \in 1..len : Row(i) \in [Files -> Nat]
    BY <2>2, <2>3, ElementOfSeq DEF Row
  <2>5. rows \in Seq([Files -> Nat])
    BY <2>3, <2>4, IsASeq
  <2>6. out' = out \o rows /\ xor_size' = xor_size + len
    BY <1>6 DEF XorBuffers
  <2> HIDE DEF rows, len
  <2>7. CoordType'
    BY <1>0, <1>6, <2>5, <2>6, ConcatProperties DEF XorBuffers, CoordType, CoordPcs
  <2>8. GroupType'
    BY <1>0, <1>6, <2>3, <2>6 DEF XorBuffers, GroupType
  <2>9. QED
    BY <1>0, <1>6, <2>7, <2>8, Frame DEF TypeOK, XorBuffers
<1>7. CASE XorWriteFails
  <2>1. CoordType' /\ GroupType'
    BY <1>0, <1>7 DEF CoordType, GroupType, XorWriteFails, CoordPcs
  <2>2. QED
    BY <1>0, <1>7, <2>1, Frame DEF TypeOK, XorWriteFails
<1>8. CASE XorFaults
  BY <1>0, <1>8, Frame DEF TypeOK, XorFaults
<1>9. CASE SetXorFlag
  <2>1. CoordType' /\ GroupType'
    BY <1>0, <1>9 DEF CoordType, GroupType, SetXorFlag, CoordPcs
  <2>2. QED
    BY <1>0, <1>9, <2>1, Frame DEF TypeOK, SetXorFlag
<1>10. CASE FreeAll
  <2>1. CoordType' /\ proc' \in {"run", "exit"}
    BY <1>0, <1>10 DEF CoordType, FreeAll, CoordPcs
  <2>2. BufType'
    BY <1>0, <1>10 DEF BufType, FreeAll
  <2>3. QED
    BY <1>0, <1>10, <2>1, <2>2, Frame DEF TypeOK, FreeAll
<1>11. CASE ResetNum
  <2>1. CoordType' /\ GroupType'
    BY <1>0, <1>11, Constants DEF CoordType, GroupType, ResetNum, CoordPcs
  <2>2. QED
    BY <1>0, <1>11, <2>1, Frame DEF TypeOK, ResetNum
<1>12. CASE ResetFlag
  <2>1. CoordType'
    BY <1>0, <1>12, Constants DEF CoordType, ResetFlag, CoordPcs
  <2>2. BufType'
    BY <1>0, <1>12 DEF BufType, ResetFlag
  <2>3. QED
    BY <1>0, <1>12, <2>1, <2>2, Frame DEF TypeOK, ResetFlag
<1>13. CASE LoopCondition \/ Result
  <2>1. CoordType'
    BY <1>0, <1>13 DEF CoordType, LoopCondition, Result, Return, CoordPcs
  <2>2. QED
    BY <1>0, <1>13, <2>1, Frame DEF TypeOK, LoopCondition, Result
<1>14. QED
  BY <1>1, <1>2, <1>3, <1>4, <1>5, <1>6, <1>7, <1>8, <1>9, <1>10, <1>11, <1>12, <1>13
     DEF Coordinator

\* A table with a row per file and a column per buffer.
Table(S) == [Files -> [Bufs -> S]]

Contents == Seq(Nat)
Flags == {0, 1, 2}
MemStates == {"null", "live", "freed"}

\* The types of the buffers as tables.
LEMMA BufTables ==
  BufType <=> /\ buf_flag \in Table(Flags)
              /\ in_buf \in Table(Contents)
              /\ \A f \in Files, k \in Bufs : Len(in_buf[f][k]) <= ReadBufSize
              /\ mem \in Table(MemStates)
BY DEF BufType, Table, Contents, Flags, MemStates

\* The elements of Flags and MemStates.
LEMMA TableElements ==
  /\ 0 \in Flags /\ 1 \in Flags /\ 2 \in Flags
  /\ "null" \in MemStates /\ "live" \in MemStates /\ "freed" \in MemStates
BY DEF Flags, MemStates

\* Setting one entry of a table.
LEMMA SetEntry ==
  ASSUME NEW S, NEW a \in Table(S), NEW f \in Files, NEW k \in Bufs, NEW v \in S
  PROVE  /\ [a EXCEPT ![f][k] = v] \in Table(S)
         /\ \A g \in Files, j \in Bufs :
              [a EXCEPT ![f][k] = v][g][j] = IF g = f /\ j = k THEN v ELSE a[g][j]
BY DEF Table

\* Setting a whole row of a table.
LEMMA SetRow ==
  ASSUME NEW S, NEW a \in Table(S), NEW f \in Files, NEW v \in [Bufs -> S]
  PROVE  [a EXCEPT ![f] = v] \in Table(S)
BY DEF Table

\* A block of consecutive offsets is a sequence of numbers.
LEMMA OffsetsType ==
  ASSUME NEW a \in Nat, NEW n \in Nat
  PROVE  Offsets(a, n) \in Seq(Nat) /\ Len(Offsets(a, n)) = n
<1>1. \A i \in 1..n : a + i - 1 \in Nat
  OBVIOUS
<1>2. Offsets(a, n) \in Seq(Nat)
  BY <1>1, IsASeq DEF Offsets
<1>3. QED
  BY <1>2, LenProperties DEF Offsets

\* Bytes taken from the socket are at most MaxLine offsets of the file.
LEMMA TypeTake ==
  ASSUME ReaderType, ConnType, NEW f \in Files, NEW n \in Nat,
         n <= MaxLine, n <= conn[f].unread, Take(f, n),
         UNCHANGED <<cur, tmp, cp_size>>
  PROVE  ReaderType' /\ ConnType'
<1>1. /\ conn[f].sent \in Nat /\ conn[f].unread \in Nat
      /\ conn[f].sent - conn[f].unread \in Nat /\ conn[f].unread - n \in Nat
      /\ conn[f].st \in {"none", "idle", "block", "fin", "rst"}
      /\ conn[f].unread - n <= conn[f].sent
  BY DEF ConnType
<1> DEFINE a == conn[f].sent - conn[f].unread
           c == [st |-> conn[f].st, hdr |-> 0, unread |-> conn[f].unread - n,
                 sent |-> conn[f].sent]
<1>2. Offsets(a, n) \in Seq(Nat) /\ Len(Offsets(a, n)) = n
  BY <1>1, OffsetsType
<1>3. data' = [data EXCEPT ![f] = Offsets(a, n)]
  BY DEF Take
<1> HIDE DEF a
<1>4. ReaderType'
  BY <1>2, <1>3 DEF ReaderType, Take, Goto, ReaderPcs
<1>5. conn' = [conn EXCEPT ![f] = conn'[f]] /\ conn'[f] = c
  BY DEF ConnType, Take
<1>6. ConnType'
  BY <1>1, <1>5 DEF ConnType
<1>7. QED
  BY <1>4, <1>6

\* Storing a sequence in a buffer where it fits keeps the types of the buffers.
LEMMA TypeStore ==
  ASSUME BufType, NEW f \in Files, NEW k \in Bufs, NEW s \in Seq(Nat),
         Len(in_buf[f][k]) + Len(s) <= ReadBufSize,
         in_buf' = [in_buf EXCEPT ![f][k] = @ \o s],
         \/ UNCHANGED buf_flag
         \/ buf_flag' = [buf_flag EXCEPT ![f][k] = 2],
         UNCHANGED mem
  PROVE  BufType'
<1>1. /\ in_buf[f][k] \o s \in Seq(Nat)
      /\ Len(in_buf[f][k] \o s) = Len(in_buf[f][k]) + Len(s)
  BY ConcatProperties DEF BufType
<1> DEFINE t == in_buf[f][k] \o s
<1>2. in_buf' = [in_buf EXCEPT ![f][k] = t]
  BY DEF BufType
<1>3. t \in Seq(Nat) /\ Len(t) <= ReadBufSize
  BY <1>1
<1> HIDE DEF t
<1>4. /\ in_buf' \in Table(Contents)
      /\ \A g \in Files, j \in Bufs :
           in_buf'[g][j] = IF g = f /\ j = k THEN t ELSE in_buf[g][j]
  <2>0. t \in Contents /\ f \in Files /\ k \in Bufs
    BY <1>3 DEF Contents
  <2>1. in_buf \in Table(Contents)
    BY BufTables
  <2> DEFINE b == [in_buf EXCEPT ![f][k] = t]
  <2>2. /\ b \in Table(Contents)
        /\ \A g \in Files, j \in Bufs : b[g][j] = IF g = f /\ j = k THEN t ELSE in_buf[g][j]
    BY ONLY <2>0, <2>1 DEF Table
  <2>3. in_buf' = b
    BY <1>2
  <2> HIDE DEF b
  <2>4. QED
    BY <2>2, <2>3
<1>5. \A g \in Files, j \in Bufs : Len(in_buf'[g][j]) <= ReadBufSize
  BY <1>3, <1>4 DEF BufType
<1>6. buf_flag' \in Table(Flags) /\ mem' \in Table(MemStates)
  BY BufTables, SetEntry, TableElements
<1>7. QED
  BY <1>4, <1>5, <1>6 DEF BufType, Table, Contents, Flags, MemStates

\* A step of a reader keeps the types.
LEMMA TypeReader ==
  ASSUME TypeOK, NEW f \in Files, Reader(f)
  PROVE  TypeOK'
<1>0. /\ GroupType /\ BufType /\ BlockType /\ ReaderType /\ CoordType /\ ConnType
      /\ proc \in {"run", "exit"}
  BY DEF TypeOK
<1>1. CASE Connect(f)
  <2>1. ReaderType'
    BY <1>0, <1>1 DEF ReaderType, Connect, Goto, ReaderPcs
  <2>2. ConnType'
    BY <1>0, <1>1 DEF ConnType, Connect
  <2>3. QED
    BY <1>0, <1>1, <2>1, <2>2, Frame DEF TypeOK, Connect
<1>2. CASE ConnectFails(f) \/ RecvFails(f)
  <2>1. ReaderType'
    BY <1>0, <1>2 DEF ReaderType, ConnectFails, RecvFails, Goto, ReaderPcs
  <2>2. GroupType'
    BY <1>0, <1>2 DEF GroupType, ConnectFails, RecvFails
  <2>3. QED
    BY <1>0, <1>2, <2>1, <2>2, Frame DEF TypeOK, ConnectFails, RecvFails
<1>3. ASSUME NEW k \in Bufs, Alloc(f, k)
      PROVE  TypeOK'
  <2>1. ReaderType'
    BY <1>0, <1>3 DEF ReaderType, Alloc, Goto, ReaderPcs
  <2>2. mem' \in Table(MemStates)
    BY <1>0, <1>3, BufTables, SetEntry, TableElements DEF Alloc
  <2>3. ArmedFlags \in [Bufs -> Flags]
    BY DEF ArmedFlags, Bufs, Flags
  <2>4. buf_flag' \in Table(Flags) /\ UNCHANGED in_buf
    BY <1>0, <1>3, <2>3, BufTables, SetRow DEF Alloc
  <2>5. BufType'
    BY <1>0, <2>2, <2>4 DEF BufType, Table, Flags, MemStates
  <2>6. QED
    BY <1>0, <1>3, <2>1, <2>5, Frame DEF TypeOK, Alloc
<1>4. ASSUME NEW k \in Bufs, AllocGivesUp(f, k)
      PROVE  TypeOK'
  <2>1. ReaderType'
    BY <1>0, <1>4 DEF ReaderType, AllocGivesUp, Goto, ReaderPcs
  <2>2. mem' \in Table(MemStates)
    BY <1>0, <1>4, BufTables, SetEntry, TableElements DEF AllocGivesUp
  <2>3. BufType'
    BY <1>0, <1>4, <2>2 DEF BufType, AllocGivesUp, Table, MemStates
  <2>4. QED
    BY <1>0, <1>4, <2>1, <2>3, Frame DEF TypeOK, AllocGivesUp
<1>5. CASE CallbackFrees(f)
  <2>1. [k \in Bufs |-> "freed"] \in [Bufs -> MemStates]
    BY TableElements
  <2>2. mem' \in Table(MemStates) /\ proc' \in {"run", "exit"}
    <3>1. mem \in Table(MemStates)
      BY <1>0, BufTables
    <3>2. [mem EXCEPT ![f] = [k \in Bufs |-> "freed"]] \in Table(MemStates)
      BY <2>1, <3>1, SetRow
    <3>3. mem' = mem \/ mem' = [mem EXCEPT ![f] = [k \in Bufs |-> "freed"]]
      BY <1>5 DEF CallbackFrees
    <3>4. proc' = proc \/ proc' = "exit"
      BY <1>5 DEF CallbackFrees
    <3>5. QED
      BY <1>0, <3>1, <3>2, <3>3, <3>4
  <2>3. BufType'
    BY <1>0, <1>5, <2>2 DEF BufType, CallbackFrees, Table, MemStates
  <2>4. QED
    BY <1>0, <1>5, <2>2, <2>3, Frame DEF TypeOK, CallbackFrees
<1>6. CASE CallbackReceives(f)
  <2>1. ReaderType'
    BY <1>0, <1>6 DEF ReaderType, CallbackReceives, Goto, ReaderPcs
  <2>2. QED
    BY <1>0, <1>6, <2>1, Frame DEF TypeOK, CallbackReceives
<1>7. CASE RecvEof(f)
  <2>1. ReaderType'
    BY <1>0, <1>7 DEF ReaderType, RecvEof, Goto, ReaderPcs
  <2>2. BlockType'
    BY <1>0, <1>7 DEF BlockType, RecvEof
  <2>3. QED
    BY <1>0, <1>7, <2>1, <2>2, Frame DEF TypeOK, RecvEof
<1>8. CASE RecvHeader(f)
  <2>0. conn[f].unread \in Nat
    BY <1>0 DEF ConnType
  <2>1. PICK n \in 0..Smaller(MaxLine, conn[f].unread) :
          /\ Take(f, n)
          /\ IF n >= conn[f].unread
             THEN UNCHANGED <<write_state, write_index, write_total_size>>
             ELSE /\ write_state' = [write_state EXCEPT ![f] = 1]
                  /\ write_index' = [write_index EXCEPT ![f] = n]
                  /\ write_total_size' = [write_total_size EXCEPT ![f] = conn[f].unread]
    BY <1>8 DEF RecvHeader
  <2>2. n \in Nat /\ n <= MaxLine /\ n <= conn[f].unread
    BY <2>0, Constants DEF Smaller
  <2>3. ReaderType' /\ ConnType'
    BY <1>0, <1>8, <2>1, <2>2, TypeTake DEF RecvHeader
  <2>4. BlockType'
    BY <1>0, <1>8, <2>0, <2>1, <2>2 DEF BlockType, RecvHeader
  <2>5. QED
    BY <1>0, <1>8, <2>3, <2>4, Frame DEF TypeOK, RecvHeader
<1>9. CASE RecvSplitHeader(f)
  BY <1>0, <1>9, Frame DEF TypeOK, RecvSplitHeader
<1>10. CASE RecvMore(f)
  <2>0. conn[f].unread \in Nat
    BY <1>0 DEF ConnType
  <2>1. PICK n \in 1..Smaller(MaxLine, conn[f].unread) :
          /\ Take(f, n)
          /\ IF write_total_size[f] <= n + write_index[f]
             THEN /\ write_state' = [write_state EXCEPT ![f] = 0]
                  /\ write_index' = [write_index EXCEPT ![f] = 0]
                  /\ write_total_size' = [write_total_size EXCEPT ![f] = 0]
             ELSE /\ write_index' = [write_index EXCEPT ![f] = @ + n]
                  /\ UNCHANGED <<write_state, write_total_size>>
    BY <1>10 DEF RecvMore
  <2>2. n \in Nat /\ n <= MaxLine /\ n <= conn[f].unread
    BY <2>0, Constants DEF Smaller
  <2>3. ReaderType' /\ ConnType'
    BY <1>0, <1>10, <2>1, <2>2, TypeTake DEF RecvMore
  <2>4. BlockType'
    BY <1>0, <1>10, <2>1, <2>2 DEF BlockType, RecvMore
  <2>5. QED
    BY <1>0, <1>10, <2>3, <2>4, Frame DEF TypeOK, RecvMore
<1>11. ASSUME NEW k \in Bufs, StoreBrim(f, k)
       PROVE  TypeOK'
  <2> DEFINE r == Room(f, k)
             s == SubSeq(data[f], 1, r)
  <2>1. in_buf[f][k] \in Seq(Nat) /\ Len(in_buf[f][k]) \in Nat /\ Len(in_buf[f][k]) <= ReadBufSize
    BY <1>0, LenProperties DEF BufType
  <2>2. data[f] \in Seq(Nat) /\ Len(data[f]) \in Nat
    BY <1>0, LenProperties DEF ReaderType
  <2>3. r \in 0..ReadBufSize /\ r <= Len(data[f]) /\ Len(in_buf[f][k]) + r = ReadBufSize
    <3>1. ~Fits(f, k)
      BY <1>11 DEF StoreBrim
    <3>2. QED
      <4> DEFINE a == Len(in_buf[f][k])
                 d == Len(data[f])
      <4>1. a \in Nat /\ a <= ReadBufSize /\ d \in Nat /\ ~(a + d <= ReadBufSize)
        BY <2>1, <2>2, <3>1 DEF Fits
      <4>2. r = ReadBufSize - a
        BY DEF Room
      <4> HIDE DEF a, d, r
      <4>3. r \in 0..ReadBufSize /\ r <= d /\ a + r = ReadBufSize
        BY <4>1, <4>2, Constants
      <4>4. QED
        BY <4>3 DEF a, d
  <2>4. s \in Seq(Nat) /\ Len(s) = r
    BY <2>2, <2>3, SubSeqProperties
  <2>5. /\ in_buf' = [in_buf EXCEPT ![f][k] = @ \o s]
        /\ cp_size' = [cp_size EXCEPT ![f] = r]
        /\ buf_flag' = [buf_flag EXCEPT ![f][k] = 2] /\ UNCHANGED mem
    BY <1>11 DEF StoreBrim
  <2> HIDE DEF r, s
  <2>6. BufType'
    <3>1. Len(in_buf[f][k]) + Len(s) <= ReadBufSize
      BY <2>3, <2>4, Constants
    <3>2. QED
      BY <1>0, <2>4, <2>5, <3>1, TypeStore
  <2>7. ReaderType'
    BY <1>0, <1>11, <2>3, <2>5 DEF ReaderType, StoreBrim, Goto, ReaderPcs
  <2>8. QED
    BY <1>0, <1>11, <2>6, <2>7, Frame DEF TypeOK, StoreBrim
<1>12. ASSUME NEW k \in Bufs, StoreFits(f, k)
       PROVE  TypeOK'
  <2> DEFINE s == Rest(f)
  <2>1. in_buf[f][k] \in Seq(Nat) /\ Len(in_buf[f][k]) \in Nat
    BY <1>0, LenProperties DEF BufType
  <2>2. data[f] \in Seq(Nat) /\ Len(data[f]) \in Nat /\ cp_size[f] \in Nat
    BY <1>0, LenProperties, Constants DEF ReaderType
  <2>3. s \in Seq(Nat) /\ Len(s) \in Nat /\ Len(s) <= Len(data[f])
    <3>1. CASE flag[f] = 1 /\ cp_size[f] + 1 <= Len(data[f])
      <4>1. cp_size[f] + 1 \in 1..Len(data[f]) /\ Len(data[f]) \in 1..Len(data[f])
        BY <2>2, <3>1
      <4>2. /\ SubSeq(data[f], cp_size[f] + 1, Len(data[f])) \in Seq(Nat)
            /\ Len(SubSeq(data[f], cp_size[f] + 1, Len(data[f])))
                 = Len(data[f]) - (cp_size[f] + 1) + 1
        BY <2>2, <3>1, <4>1, SubSeqProperties
      <4>3. QED
        BY <2>2, <3>1, <4>2 DEF Rest
    <3>2. CASE flag[f] = 1 /\ cp_size[f] + 1 > Len(data[f])
      BY <2>2, <3>2, SubSeqProperties DEF Rest
    <3>3. CASE flag[f] # 1
      BY <2>2, <3>3 DEF Rest
    <3>4. QED
      BY <2>2, <3>1, <3>2, <3>3
  <2>4. Len(in_buf[f][k]) + Len(s) <= ReadBufSize
    <3>1. Fits(f, k)
      BY <1>12 DEF StoreFits
    <3> HIDE DEF s
    <3>2. QED
      <4> DEFINE a == Len(in_buf[f][k])
                 d == Len(data[f])
                 e == Len(s)
      <4>1. a \in Nat /\ d \in Nat /\ e \in Nat /\ e <= d /\ a + d <= ReadBufSize
        BY <2>1, <2>2, <2>3, <3>1 DEF Fits
      <4> HIDE DEF a, d, e
      <4>2. a + e <= ReadBufSize
        BY <4>1, Constants
      <4>3. QED
        BY <4>2 DEF a, e
  <2>5. in_buf' = [in_buf EXCEPT ![f][k] = @ \o s]
    BY <1>12 DEF StoreFits
  <2>6. UNCHANGED buf_flag \/ buf_flag' = [buf_flag EXCEPT ![f][k] = 2]
    BY <1>12 DEF StoreFits
  <2>7. UNCHANGED mem
    BY <1>12 DEF StoreFits
  <2> HIDE DEF s
  <2>8. BufType'
    BY <1>0, <2>3, <2>4, <2>5, <2>6, <2>7, TypeStore
  <2>9. ReaderType'
    <3>1. pc' \in [Files -> ReaderPcs]
      BY <1>0, <1>12 DEF ReaderType, StoreFits, Goto, ReaderPcs
    <3>2. cp_size' \in [Files -> 0..ReadBufSize]
      BY <1>0, <1>12, Constants DEF ReaderType, StoreFits
    <3>3. flag' \in [Files -> {0, 1}] /\ cur' \in [Files -> Bufs] /\ UNCHANGED <<data, tmp>>
      BY <1>0, <1>12 DEF ReaderType, StoreFits
    <3>4. QED
      BY <1>0, <3>1, <3>2, <3>3 DEF ReaderType
  <2>10. BlockType'
    BY <1>0, <1>12, <2>2 DEF BlockType, StoreFits
  <2>11. QED
    BY <1>0, <1>12, <2>8, <2>9, <2>10, Frame DEF TypeOK, StoreFits
<1>13. CASE CountLoad(f)
  <2>1. ReaderType'
    BY <1>0, <1>13 DEF ReaderType, GroupType, CountLoad, Goto, ReaderPcs
  <2>2. QED
    BY <1>0, <1>13, <2>1, Frame DEF TypeOK, CountLoad
<1>14. CASE CountStore(f)
  <2>1. ReaderType'
    BY <1>0, <1>14 DEF ReaderType, CountStore, Goto, ReaderPcs
  <2>2. GroupType'
    BY <1>0, <1>14 DEF ReaderType, GroupType, CountStore
  <2>3. QED
    BY <1>0, <1>14, <2>1, <2>2, Frame DEF TypeOK, CountStore
<1>15. ASSUME NEW k \in Bufs, Rearm(f, k)
       PROVE  TypeOK'
  <2>1. ReaderType'
    BY <1>0, <1>15 DEF ReaderType, Rearm, RearmPc, Goto, ReaderPcs
  <2>2. << >> \in Seq(Nat) /\ Len(<< >>) <= ReadBufSize
    BY EmptySeq, Constants
  <2>3. buf_flag' \in Table(Flags) /\ UNCHANGED mem
    BY <1>0, <1>15, BufTables, SetEntry, TableElements DEF Rearm
  <2>4. /\ in_buf' \in Table(Contents)
        /\ \A g \in Files, j \in Bufs :
             in_buf'[g][j] = in_buf[g][j] \/ in_buf'[g][j] = << >>
    <3>1. in_buf \in Table(Contents)
      BY <1>0, BufTables
    <3>2. in_buf' = in_buf \/ in_buf' = [in_buf EXCEPT ![f][k] = << >>]
      BY <1>15 DEF Rearm
    <3>0. << >> \in Contents
      BY <2>2 DEF Contents
    <3> DEFINE b == [in_buf EXCEPT ![f][k] = << >>]
    <3>3. /\ b \in Table(Contents)
          /\ \A g \in Files, j \in Bufs :
               b[g][j] = IF g = f /\ j = k THEN << >> ELSE in_buf[g][j]
      BY <3>0, <3>1, SetEntry
    <3>4. in_buf' = in_buf \/ in_buf' = b
      BY <3>2
    <3> HIDE DEF b
    <3>5. QED
      BY <3>1, <3>3, <3>4
  <2>5. \A g \in Files, j \in Bufs : Len(in_buf'[g][j]) <= ReadBufSize
    BY <1>0, <2>2, <2>4 DEF BufType
  <2>6. BufType'
    BY <1>0, <2>3, <2>4, <2>5 DEF BufType, Table, Contents, Flags
  <2>7. QED
    BY <1>0, <1>15, <2>1, <2>6, Frame DEF TypeOK, Rearm
<1>16. CASE CallbackReturns(f)
  <2>1. ReaderType'
    BY <1>0, <1>16 DEF ReaderType, CallbackReturns, Goto, ReaderPcs
  <2>2. ConnType'
    BY <1>0, <1>16 DEF ConnType, CallbackReturns
  <2>3. QED
    BY <1>0, <1>16, <2>1, <2>2, Frame DEF TypeOK, CallbackReturns
<1>17. QED
  BY <1>1, <1>2, <1>3, <1>4, <1>5, <1>6, <1>7, <1>8, <1>9, <1>10, <1>11, <1>12, <1>13,
     <1>14, <1>15, <1>16 DEF Reader

-----------------------------------------------------------------------------
(* The counters.                                                           *)

Unarmed  == {"none", "connect", "alloc0", "alloc1"}
Counting == {"load", "count"}

\* What a step of reader f may do to the state the counters depend on: it has
\* been started, touches its own fields only, leaves a full buffer alone, and
\* changes buf_full_num only by the second half of an increment.
Footprint(f) ==
  /\ UNCHANGED <<cpc, ci, ck>>
  /\ pc[f] # "none"
  /\ \A g \in Files : g # f =>
       /\ pc'[g] = pc[g] /\ cur'[g] = cur[g] /\ tmp'[g] = tmp[g]
       /\ buf_flag'[g] = buf_flag[g] /\ in_buf'[g] = in_buf[g]
  /\ \A k \in Bufs : buf_flag[f][k] = 2 =>
       /\ buf_flag'[f][k] = 2 /\ in_buf'[f][k] = in_buf[f][k]
       /\ ~(pc[f] \in Counting /\ cur[f] = k) => ~(pc'[f] \in Counting /\ cur'[f] = k)
  /\ pc'[f] \in Unarmed => pc[f] \in Unarmed /\ buf_flag'[f] = buf_flag[f]
  /\ pc'[f] \in Counting => buf_flag'[f][cur'[f]] = 2
  /\ pc'[f] = "count" => tmp'[f] = buf_full_num[cur'[f]] /\ UNCHANGED buf_full_num
  /\ \/ UNCHANGED buf_full_num
     \/ /\ pc[f] = "count" /\ pc'[f] \notin Counting
        /\ buf_full_num' = [buf_full_num EXCEPT ![cur[f]] = tmp[f] + 1]

\* Every step of a reader keeps to its footprint.
LEMMA ReaderFootprint ==
  ASSUME TypeOK, CountingIsFull, UnarmedIsEmpty, NEW f \in Files, Reader(f)
  PROVE  Footprint(f)
<1>0. /\ pc \in [Files -> ReaderPcs] /\ cur \in [Files -> Bufs] /\ tmp \in [Files -> Nat]
      /\ buf_flag \in [Files -> [Bufs -> {0, 1, 2}]] /\ DOMAIN in_buf = Files
      /\ \A g \in Files : DOMAIN in_buf[g] = Bufs
  BY DEF TypeOK, ReaderType, BufType
<1>1. ASSUME UNCHANGED <<cpc, ci, ck, cur, tmp, buf_flag, in_buf, buf_full_num>>,
             NEW l, pc' = [pc EXCEPT ![f] = l], l \notin Counting,
             pc[f] # "none", l \in Unarmed => pc[f] \in Unarmed
      PROVE  Footprint(f)
  BY <1>0, <1>1 DEF Footprint, Counting, Unarmed
<1>2. CASE Connect(f) \/ ConnectFails(f)
  BY <1>1, <1>2 DEF Connect, ConnectFails, Goto, Counting, Unarmed, groupVars, bufVars, coordVars
<1>3. ASSUME NEW k \in Bufs, Alloc(f, k)
      PROVE  Footprint(f)
  <2>1. CASE k = 0
    <3>1. pc[f] = "alloc0" /\ pc' = [pc EXCEPT ![f] = "alloc1"]
      BY <1>3, <2>1 DEF Alloc, AllocPc, Goto
    <3>2. UNCHANGED <<cpc, ci, ck, cur, tmp, buf_flag, in_buf, buf_full_num>>
      BY <1>3, <2>1 DEF Alloc, groupVars, coordVars
    <3>3. pc[f] # "none" /\ "alloc1" \notin Counting /\ pc[f] \in Unarmed
      BY <3>1 DEF Counting, Unarmed
    <3>4. QED
      BY <1>1, <3>1, <3>2, <3>3
  <2>2. CASE k # 0
    <3>1. pc[f] = "alloc1" /\ pc' = [pc EXCEPT ![f] = "loop"]
      BY <1>3, <2>2 DEF Alloc, AllocPc, Goto
    <3>2. /\ UNCHANGED <<cpc, ci, ck, cur, tmp, in_buf, buf_full_num>>
          /\ buf_flag' = [buf_flag EXCEPT ![f] = ArmedFlags]
      BY <1>3, <2>2 DEF Alloc, groupVars, coordVars
    <3>3. \A j \in Bufs : buf_flag[f][j] = 0
      BY <3>1 DEF UnarmedIsEmpty
    <3>4. QED
      BY <1>0, <3>1, <3>2, <3>3 DEF Footprint, Counting, Unarmed
  <2>3. QED
    BY <2>1, <2>2
<1>4. ASSUME NEW k \in Bufs, AllocGivesUp(f, k)
      PROVE  Footprint(f)
  <2>1. pc[f] # "none" /\ pc' = [pc EXCEPT ![f] = "gaveup"]
    BY <1>4 DEF AllocGivesUp, AllocPc, Goto
  <2>2. UNCHANGED <<cpc, ci, ck, cur, tmp, buf_flag, in_buf, buf_full_num>>
    BY <1>4 DEF AllocGivesUp, groupVars, coordVars
  <2>3. "gaveup" \notin Counting /\ "gaveup" \notin Unarmed
    BY DEF Counting, Unarmed
  <2>4. QED
    BY <1>1, <2>1, <2>2, <2>3
<1>5. CASE CallbackFrees(f) \/ RecvSplitHeader(f)
  BY <1>0, <1>5 DEF CallbackFrees, RecvSplitHeader, EventFires, Footprint, Counting, Unarmed,
     groupVars, bufVars, readerVars, coordVars
<1>6. CASE CallbackReceives(f) \/ RecvFails(f) \/ RecvEof(f) \/ CallbackReturns(f)
  BY <1>1, <1>6 DEF CallbackReceives, RecvFails, RecvEof, CallbackReturns, EventFires, Goto,
     Counting, Unarmed, groupVars, bufVars, coordVars
<1>7. CASE RecvHeader(f) \/ RecvMore(f)
  BY <1>1, <1>7 DEF RecvHeader, RecvMore, Take, Goto, Counting, Unarmed, groupVars, bufVars,
     coordVars
<1>8. ASSUME NEW k \in Bufs, StoreBrim(f, k)
      PROVE  Footprint(f)
  BY <1>0, <1>8 DEF StoreBrim, Writable, Goto, Footprint, Counting, Unarmed, groupVars, coordVars
<1>9. ASSUME NEW k \in Bufs, StoreFits(f, k)
      PROVE  Footprint(f)
  BY <1>0, <1>9 DEF StoreFits, Writable, Goto, Footprint, Counting, Unarmed, groupVars, coordVars
<1>10. CASE CountLoad(f)
  BY <1>0, <1>10 DEF CountingIsFull, CountLoad, Goto, Footprint, Counting, Unarmed, groupVars,
     bufVars, coordVars
<1>11. CASE CountStore(f)
  BY <1>0, <1>11 DEF CountStore, Goto, Footprint, Counting, Unarmed, bufVars, coordVars
<1>12. ASSUME NEW k \in Bufs, Rearm(f, k)
       PROVE  Footprint(f)
  BY <1>0, <1>12 DEF Rearm, RearmPc, Goto, Footprint, Counting, Unarmed, groupVars, coordVars
<1>13. QED
  BY <1>2, <1>3, <1>4, <1>5, <1>6, <1>7, <1>8, <1>9, <1>10, <1>11, <1>12 DEF Reader

\* Types the counter lemmas use.
LEMMA CounterTypes ==
  ASSUME TypeOK
  PROVE  /\ pc \in [Files -> ReaderPcs] /\ cur \in [Files -> Bufs] /\ tmp \in [Files -> Nat]
         /\ buf_flag \in [Files -> [Bufs -> {0, 1, 2}]] /\ buf_full_num \in [Bufs -> Nat]
         /\ ck \in Bufs /\ ci \in Nat /\ cpc \in CoordPcs
         /\ \A k \in Bufs : Fresh(k) \in SUBSET Files /\ Cardinality(Fresh(k)) \in Nat
<1>1. \A k \in Bufs : Fresh(k) \in SUBSET Files
  BY DEF Fresh, Counted
<1>2. \A k \in Bufs : Cardinality(Fresh(k)) \in Nat
  BY <1>1, SubsetCard
<1>3. QED
  BY <1>1, <1>2, Constants DEF TypeOK, GroupType, ReaderType, BufType, CoordType

\* A step that keeps to a reader's footprint keeps the counters right.
LEMMA ReaderCounters ==
  ASSUME TypeOK, TypeOK', Counters, NEW f \in Files, Footprint(f)
  PROVE  Counters'
<1>0. /\ SpawnOrder /\ UnarmedIsEmpty /\ CountingIsFull /\ LoadedIsSafe
      /\ FullNumNeverOverstates /\ XoringIsCounted /\ PendingIsCounted /\ XorSizesAgree
  BY DEF Counters
<1>1. /\ pc \in [Files -> ReaderPcs] /\ cur \in [Files -> Bufs] /\ tmp \in [Files -> Nat]
      /\ buf_flag \in [Files -> [Bufs -> {0, 1, 2}]] /\ buf_full_num \in [Bufs -> Nat]
      /\ ck \in Bufs /\ ci \in Nat /\ cpc \in CoordPcs
      /\ \A k \in Bufs : Fresh(k) \in SUBSET Files /\ Cardinality(Fresh(k)) \in Nat
  BY CounterTypes
<1>2. /\ cur' \in [Files -> Bufs]
      /\ \A k \in Bufs : Fresh(k)' \in SUBSET Files /\ Cardinality(Fresh(k)') \in Nat
  <2>1. \A k \in Bufs : Fresh(k)' \in SUBSET Files
    BY DEF Fresh, Counted
  <2>2. \A k \in Bufs : Cardinality(Fresh(k)') \in Nat
    BY <2>1, SubsetCard
  <2>3. QED
    BY <2>1, <2>2 DEF TypeOK, ReaderType
<1>3. \A g \in Files, k \in Bufs : g \in Counted(k) => g \in Counted(k)'
  BY <1>1 DEF Footprint, Counted, Counting
<1>4. \A k \in Bufs : Fresh(k) \in SUBSET Fresh(k)'
  BY <1>3 DEF Fresh, Counted, Footprint
<1>5. \A k \in Bufs : Cardinality(Fresh(k)) <= Cardinality(Fresh(k)')
  BY <1>2, <1>4, SubsetMono
<1>6. SpawnOrder'
  BY <1>0 DEF SpawnOrder, Footprint
<1>7. UnarmedIsEmpty'
  BY <1>0 DEF UnarmedIsEmpty, Footprint, Unarmed
<1>8. CountingIsFull'
  BY <1>0 DEF CountingIsFull, Footprint, Counting
<1>9. LoadedIsSafe'
  <2> SUFFICES ASSUME NEW g \in Files, NEW k \in Bufs, pc'[g] = "count", cur'[g] = k
               PROVE  tmp'[g] <= Cardinality(Fresh(k)')
    BY DEF LoadedIsSafe
  <2>1. tmp'[g] \in Nat /\ tmp'[g] <= Cardinality(Fresh(k))
    <3>1. CASE g = f
      <4>1. tmp'[g] = buf_full_num[k]
        BY <3>1 DEF Footprint
      <4>2. QED
        BY <1>0, <1>1, <4>1 DEF FullNumNeverOverstates
    <3>2. CASE g # f
      <4>1. tmp'[g] = tmp[g] /\ cur[g] = k /\ pc[g] = "count"
        BY <3>2 DEF Footprint
      <4>2. QED
        BY <1>0, <1>1, <4>1 DEF LoadedIsSafe
    <3>3. QED
      BY <3>1, <3>2
  <2>2. QED
    BY <1>1, <1>2, <1>5, <2>1
<1>10. FullNumNeverOverstates'
  <2>1. CASE UNCHANGED buf_full_num
    BY <1>0, <1>1, <1>2, <1>5, <2>1 DEF FullNumNeverOverstates
  <2>2. CASE /\ pc[f] = "count" /\ pc'[f] \notin Counting
             /\ buf_full_num' = [buf_full_num EXCEPT ![cur[f]] = tmp[f] + 1]
    <3>0. PICK c \in Bufs : c = cur[f]
      BY <1>1
    <3>1. tmp[f] \in Nat /\ tmp[f] <= Cardinality(Fresh(c))
      BY <1>0, <1>1, <2>2, <3>0 DEF LoadedIsSafe
    <3>2. f \notin Counted(c)
      BY <2>2, <3>0 DEF Counted
    <3>3. f \in Counted(c)'
      <4>1. buf_flag[f][c] = 2
        BY <1>0, <2>2, <3>0 DEF CountingIsFull
      <4>2. buf_flag'[f][c] = 2
        BY <4>1 DEF Footprint
      <4>3. QED
        BY <2>2, <4>2 DEF Counted, Counting
    <3>4. ~(cpc = "resetflag" /\ ck = c /\ f >= ci)
      BY <1>0, <3>2 DEF PendingIsCounted
    <3>5. f \notin Fresh(c)
      BY <3>2 DEF Fresh
    <3>6. f \in Fresh(c)'
      <4>1. cpc' = cpc /\ ck' = ck /\ ci' = ci
        BY DEF Footprint
      <4>2. cpc' = "resetflag" /\ ck' = c => f < ci'
        BY <1>1, <3>4, <4>1, FileIndex
      <4>3. QED
        BY <3>3, <4>2 DEF Fresh
    <3>7. Cardinality(Fresh(c)) + 1 <= Cardinality(Fresh(c)')
      BY <1>2, <1>4, <3>5, <3>6, SubsetAdd
    <3>8. buf_full_num'[c] = tmp[f] + 1
      BY <1>1, <2>2, <3>0
    <3>9. \A k \in Bufs : k # c => buf_full_num'[k] = buf_full_num[k]
      BY <1>1, <2>2, <3>0
    <3>10. buf_full_num'[c] <= Cardinality(Fresh(c)')
      BY <1>1, <1>2, <3>1, <3>7, <3>8
    <3>11. ASSUME NEW k \in Bufs
           PROVE  buf_full_num'[k] <= Cardinality(Fresh(k)')
      BY <1>0, <1>1, <1>2, <1>5, <3>9, <3>10 DEF FullNumNeverOverstates
    <3>12. QED
      BY <3>11 DEF FullNumNeverOverstates
  <2>3. QED
    BY <2>1, <2>2 DEF Footprint
<1>11. XoringIsCounted'
  BY <1>0, <1>1, <1>3 DEF XoringIsCounted, XoringBuffer, Footprint
<1>12. PendingIsCounted'
  BY <1>0, <1>1, <1>3 DEF PendingIsCounted, Footprint
<1>13. XorSizesAgree'
  <2> SUFFICES ASSUME cpc = "xor"
               PROVE  SameSizes'
    BY DEF XorSizesAgree, Footprint
  <2>1. \A g \in Files : buf_flag[g][ck] = 2
    BY <1>0 DEF XoringIsCounted, XoringBuffer, Counted
  <2>2. \A g \in Files : in_buf'[g][ck] = in_buf[g][ck]
    BY <1>1, <2>1 DEF Footprint
  <2>3. ck' = ck /\ 0 \in Files /\ SameSizes
    BY <1>0, FileIndex, Constants DEF Footprint, XorSizesAgree
  <2>4. QED
    BY <2>2, <2>3 DEF SameSizes
<1>14. QED
  BY <1>6, <1>7, <1>8, <1>9, <1>10, <1>11, <1>12, <1>13 DEF Counters

\* A step that leaves the readers' state and the counts alone, and neither
\* begins nor ends the hand-back, keeps all but three parts.
LEMMA QuietStep ==
  ASSUME Counters, UNCHANGED <<buf_flag, pc, cur, tmp, buf_full_num>>,
         cpc # "resetflag", cpc' # "resetflag"
  PROVE  /\ UnarmedIsEmpty' /\ CountingIsFull' /\ LoadedIsSafe'
         /\ FullNumNeverOverstates' /\ PendingIsCounted'
         /\ \A k \in Bufs : Counted(k)' = Counted(k)
<1>0. /\ UnarmedIsEmpty /\ CountingIsFull /\ LoadedIsSafe /\ FullNumNeverOverstates
  BY DEF Counters
<1>1. \A k \in Bufs : Counted(k)' = Counted(k)
  BY DEF Counted
<1>2. \A k \in Bufs : Fresh(k)' = Fresh(k)
  BY <1>1 DEF Fresh
<1>3. UnarmedIsEmpty' /\ CountingIsFull'
  BY <1>0 DEF UnarmedIsEmpty, CountingIsFull
<1>4. LoadedIsSafe' /\ FullNumNeverOverstates'
  BY <1>0, <1>2 DEF LoadedIsSafe, FullNumNeverOverstates
<1>5. PendingIsCounted'
  BY DEF PendingIsCounted
<1>6. QED
  BY <1>1, <1>3, <1>4, <1>5

\* When the count has reached file_num, every file has counted its buffer.
LEMMA FullMeansCounted ==
  ASSUME TypeOK, Counters, NEW k \in Bufs, AllFull(k)
  PROVE  \A f \in Files : f \in Counted(k)
<1>1. /\ Fresh(k) \in SUBSET Files /\ Cardinality(Fresh(k)) \in Nat
      /\ FileNum <= Cardinality(Fresh(k))
  BY CounterTypes DEF Counters, FullNumNeverOverstates, AllFull
<1>2. Fresh(k) = Files
  BY <1>1, SubsetCard, Constants
<1>3. QED
  BY <1>2 DEF Fresh

\* Starting a reader keeps the counters right: it has no buffer yet.
LEMMA SpawnCounters ==
  ASSUME TypeOK, Counters, SpawnReader
  PROVE  Counters'
<1>0. SpawnOrder /\ UnarmedIsEmpty /\ CountingIsFull /\ LoadedIsSafe /\ FullNumNeverOverstates
  BY DEF Counters
<1>1. /\ pc \in [Files -> ReaderPcs] /\ ci \in Nat /\ ci \in Files
      /\ pc' = [pc EXCEPT ![ci] = "connect"] /\ ci' = ci + 1
      /\ cpc = "spawn" /\ cpc' \in {"spawn", "poll0"}
      /\ UNCHANGED <<buf_flag, cur, tmp, buf_full_num>>
  BY CounterTypes, FileIndex DEF SpawnReader, groupVars, bufVars
<1>2. pc[ci] = "none"
  BY <1>0, <1>1 DEF SpawnOrder
<1>3. \A k \in Bufs : Counted(k)' = Counted(k)
  BY <1>1, <1>2 DEF Counted
<1>4. \A k \in Bufs : Fresh(k)' = Fresh(k)
  BY <1>1, <1>3 DEF Fresh
<1>5. SpawnOrder'
  BY <1>0, <1>1, FileIndex DEF SpawnOrder
<1>6. UnarmedIsEmpty' /\ CountingIsFull'
  BY <1>0, <1>1, <1>2 DEF UnarmedIsEmpty, CountingIsFull
<1>7. LoadedIsSafe' /\ FullNumNeverOverstates'
  BY <1>0, <1>1, <1>2, <1>4 DEF LoadedIsSafe, FullNumNeverOverstates
<1>8. XoringIsCounted' /\ PendingIsCounted' /\ XorSizesAgree'
  BY <1>1 DEF XoringIsCounted, XoringBuffer, PendingIsCounted, XorSizesAgree
<1>9. QED
  BY <1>5, <1>6, <1>7, <1>8 DEF Counters

\* Resetting the count keeps the counters right: no reader is about to store
\* an old count of the buffer that is handed back.
LEMMA ResetNumCounters ==
  ASSUME TypeOK, Counters, ResetNum
  PROVE  Counters'
<1>0. /\ UnarmedIsEmpty /\ CountingIsFull /\ LoadedIsSafe /\ FullNumNeverOverstates
      /\ XoringIsCounted
  BY DEF Counters
<1>1. /\ cpc = "resetnum" /\ cpc' = "resetflag" /\ ck' = ck /\ ci' = 0 /\ ck \in Bufs
      /\ buf_full_num \in [Bufs -> Nat] /\ buf_full_num' = [buf_full_num EXCEPT ![ck] = 0]
      /\ UNCHANGED <<buf_flag, pc, cur, tmp>>
  BY CounterTypes DEF ResetNum, bufVars, readerVars
<1>2. \A k \in Bufs : Counted(k)' = Counted(k)
  BY <1>1 DEF Counted
<1>3. \A k \in Bufs : k # ck => Fresh(k)' = Fresh(k)
  BY <1>1, <1>2 DEF Fresh
<1>4. \A k \in Bufs : Fresh(k)' \in SUBSET Files
  BY DEF Fresh, Counted
<1>5. \A k \in Bufs : Cardinality(Fresh(k)') \in Nat
  BY <1>4, SubsetCard
<1>6. \A f \in Files : f \in Counted(ck)
  BY <1>0, <1>1 DEF XoringIsCounted, XoringBuffer
<1>7. UnarmedIsEmpty' /\ CountingIsFull'
  BY <1>0, <1>1 DEF UnarmedIsEmpty, CountingIsFull
<1>8. LoadedIsSafe'
  BY <1>0, <1>1, <1>3, <1>6 DEF LoadedIsSafe, Counted
<1>9. FullNumNeverOverstates'
  BY <1>0, <1>1, <1>3, <1>5 DEF FullNumNeverOverstates
<1>10. PendingIsCounted'
  BY <1>1, <1>2, <1>6 DEF PendingIsCounted
<1>11. SpawnOrder' /\ XoringIsCounted' /\ XorSizesAgree'
  BY <1>1 DEF SpawnOrder, XoringIsCounted, XoringBuffer, XorSizesAgree
<1>12. QED
  BY <1>7, <1>8, <1>9, <1>10, <1>11 DEF Counters

\* Handing back the buffer of file ci keeps the counters right: it was counted
\* before the reset, so it is not among the files that count now.
LEMMA ResetFlagCounters ==
  ASSUME TypeOK, Counters, ResetFlag
  PROVE  Counters'
<1>0. /\ UnarmedIsEmpty /\ CountingIsFull /\ LoadedIsSafe /\ FullNumNeverOverstates
      /\ PendingIsCounted
  BY DEF Counters
<1>1. /\ cpc = "resetflag" /\ ck' = ck /\ ci' = ci + 1 /\ ck \in Bufs /\ ci \in Nat
      /\ ci < FileNum /\ ci \in Files
      /\ cpc' = IF ci + 1 = FileNum THEN "cond" ELSE "resetflag"
      /\ UNCHANGED <<pc, cur, tmp, buf_full_num>>
      /\ cur \in [Files -> Bufs]
  BY CounterTypes, FileIndex DEF ResetFlag, groupVars, readerVars
<1>2. \A f \in Files, k \in Bufs :
        buf_flag'[f][k] = IF f = ci /\ k = ck THEN 0 ELSE buf_flag[f][k]
  BY <1>1, CounterTypes DEF ResetFlag
<1>3. ci \in Counted(ck) /\ \A f \in Files : f >= ci => f \in Counted(ck)
  BY <1>0, <1>1 DEF PendingIsCounted
<1>4. \A f \in Files, k \in Bufs :
        f \in Counted(k)' <=> f \in Counted(k) /\ ~(f = ci /\ k = ck)
  <2> SUFFICES ASSUME NEW f \in Files, NEW k \in Bufs
               PROVE  f \in Counted(k)' <=> f \in Counted(k) /\ ~(f = ci /\ k = ck)
    OBVIOUS
  <2> DEFINE counting == pc[f] \in {"load", "count"} /\ cur[f] = k
  <2>1. f \in Counted(k) <=> buf_flag[f][k] = 2 /\ ~counting
    BY DEF Counted
  <2>2. f \in Counted(k)' <=> buf_flag'[f][k] = 2 /\ ~counting
    BY <1>1 DEF Counted
  <2> HIDE DEF counting
  <2>3. buf_flag'[f][k] = 2 <=> buf_flag[f][k] = 2 /\ ~(f = ci /\ k = ck)
    BY <1>2
  <2>4. QED
    BY <2>1, <2>2, <2>3
<1>5. \A f \in Files, k \in Bufs : f \in Fresh(k)' <=> f \in Fresh(k)
  <2> SUFFICES ASSUME NEW f \in Files, NEW k \in Bufs
               PROVE  f \in Fresh(k)' <=> f \in Fresh(k)
    OBVIOUS
  <2>1. f \in Nat /\ f < FileNum /\ FileNum \in Nat
    BY FileIndex, Constants
  <2>2. f \in Fresh(k)' <=> f \in Counted(k)' /\ (cpc' = "resetflag" /\ ck' = k => f < ci')
    BY DEF Fresh
  <2>3. f \in Fresh(k) <=> f \in Counted(k) /\ (cpc = "resetflag" /\ ck = k => f < ci)
    BY DEF Fresh
  <2>4. QED
    BY <1>1, <1>4, <2>1, <2>2, <2>3
<1>6. \A k \in Bufs : Fresh(k)' = Fresh(k)
  <2>1. \A k \in Bufs : Fresh(k)' \in SUBSET Files /\ Fresh(k) \in SUBSET Files
    BY DEF Fresh, Counted
  <2>2. QED
    BY <1>5, <2>1
<1>7. UnarmedIsEmpty'
  BY <1>0, <1>1, <1>2 DEF UnarmedIsEmpty
<1>8. CountingIsFull'
  BY <1>0, <1>1, <1>2, <1>3 DEF CountingIsFull, Counted
<1>9. LoadedIsSafe' /\ FullNumNeverOverstates'
  BY <1>0, <1>1, <1>6 DEF LoadedIsSafe, FullNumNeverOverstates
<1>10. PendingIsCounted'
  BY <1>1, <1>3, <1>4, FileIndex DEF PendingIsCounted
<1>11. SpawnOrder' /\ XoringIsCounted' /\ XorSizesAgree'
  BY <1>1 DEF SpawnOrder, XoringIsCounted, XoringBuffer, XorSizesAgree
<1>12. QED
  BY <1>7, <1>8, <1>9, <1>10, <1>11 DEF Counters

\* A step of the coordinator keeps the counters right.
LEMMA CoordinatorCounters ==
  ASSUME TypeOK, Counters, Coordinator
  PROVE  Counters'
<1>0. SpawnOrder /\ XoringIsCounted /\ XorSizesAgree /\ ck \in Bufs
  BY CounterTypes DEF Counters
<1>1. CASE OpenOutput \/ OpenOutputFails \/ SpawnFails \/ LoopCondition \/ Result
  <2>1. /\ UNCHANGED <<buf_flag, pc, cur, tmp, buf_full_num, ci>>
        /\ cpc \in {"open", "spawn", "cond", "result"}
        /\ cpc' \in {"spawn", "done", "poll0", "result"}
        /\ cpc' = "spawn" => cpc = "open"
    BY <1>1 DEF OpenOutput, OpenOutputFails, SpawnFails, LoopCondition, Result, Return,
       groupVars, bufVars, readerVars
  <2>2. SpawnOrder' /\ XoringIsCounted' /\ XorSizesAgree'
    BY <1>0, <2>1 DEF SpawnOrder, XoringIsCounted, XoringBuffer, XorSizesAgree
  <2>3. QED
    BY <2>1, <2>2, QuietStep DEF Counters
<1>2. ASSUME NEW k \in Bufs, cpc \in {"poll0", "poll1"},
             UNCHANGED <<buf_flag, pc, cur, tmp, buf_full_num>>,
             \/ AllFull(k) /\ cpc' = "sizes" /\ ck' = k
             \/ cpc' \in {"poll1", "cond"}
      PROVE  Counters'
  <2>1. /\ UnarmedIsEmpty' /\ CountingIsFull' /\ LoadedIsSafe'
        /\ FullNumNeverOverstates' /\ PendingIsCounted'
        /\ \A j \in Bufs : Counted(j)' = Counted(j)
    BY <1>2, QuietStep
  <2>2. XoringIsCounted'
    BY <1>2, <2>1, FullMeansCounted DEF XoringIsCounted, XoringBuffer
  <2>3. SpawnOrder' /\ XorSizesAgree'
    BY <1>2 DEF SpawnOrder, XorSizesAgree
  <2>4. QED
    BY <2>1, <2>2, <2>3 DEF Counters
<1>3. CASE Poll0
  <2>1. 0 \in Bufs
    BY DEF Bufs
  <2>2. QED
    BY <1>2, <1>3, <2>1 DEF Poll0, groupVars, bufVars, readerVars
<1>4. CASE Poll1
  <2>1. 1 \in Bufs
    BY DEF Bufs
  <2>2. QED
    BY <1>2, <1>4, <2>1 DEF Poll1, groupVars, bufVars, readerVars
<1>5. CASE CheckSizes \/ XorBuffers \/ XorWriteFails \/ XorFaults \/ SetXorFlag \/ FreeAll
  <2>1. /\ UNCHANGED <<buf_flag, in_buf, pc, cur, tmp, buf_full_num, ck>>
        /\ cpc \in {"sizes", "xor", "setflag", "freeall"}
        /\ cpc' \in {"xor", "setflag", "freeall", "resetnum"}
        /\ cpc' = "xor" => SameSizes \/ cpc = "xor"
    BY <1>5 DEF CheckSizes, XorBuffers, XorWriteFails, XorFaults, SetXorFlag, FreeAll,
       groupVars, bufVars, readerVars, coordVars
  <2>2. /\ UnarmedIsEmpty' /\ CountingIsFull' /\ LoadedIsSafe'
        /\ FullNumNeverOverstates' /\ PendingIsCounted'
        /\ \A j \in Bufs : Counted(j)' = Counted(j)
    BY <2>1, QuietStep
  <2>3. XoringIsCounted'
    BY <1>0, <2>1, <2>2 DEF XoringIsCounted, XoringBuffer
  <2>4. SpawnOrder' /\ XorSizesAgree'
    BY <1>0, <2>1 DEF SpawnOrder, XorSizesAgree, SameSizes
  <2>5. QED
    BY <2>2, <2>3, <2>4 DEF Counters
<1>6. CASE SpawnReader \/ ResetNum \/ ResetFlag
  BY <1>6, SpawnCounters, ResetNumCounters, ResetFlagCounters
<1>7. QED
  BY <1>1, <1>3, <1>4, <1>5, <1>6 DEF Coordinator

\* A step that changes nothing the counters depend on keeps them right.
LEMMA UnrelatedStep ==
  ASSUME Counters,
         UNCHANGED <<buf_flag, in_buf, pc, cur, tmp, buf_full_num, cpc, ci, ck>>
  PROVE  Counters'
<1>1. \A k \in Bufs : Counted(k)' = Counted(k)
  BY DEF Counted
<1>2. \A k \in Bufs : Fresh(k)' = Fresh(k)
  BY <1>1 DEF Fresh
<1>3. SpawnOrder' /\ UnarmedIsEmpty' /\ CountingIsFull' /\ XorSizesAgree'
  BY DEF Counters, SpawnOrder, UnarmedIsEmpty, CountingIsFull, XorSizesAgree, SameSizes
<1>4. LoadedIsSafe' /\ FullNumNeverOverstates'
  BY <1>2 DEF Counters, LoadedIsSafe, FullNumNeverOverstates
<1>5. XoringIsCounted' /\ PendingIsCounted'
  BY DEF Counters, XoringIsCounted, XoringBuffer, PendingIsCounted, Counted
<1>6. QED
  BY <1>3, <1>4, <1>5 DEF Counters

-----------------------------------------------------------------------------
(* The theorems.                                                           *)

\* IInv is inductive: the threads start in it and every step keeps it.
THEOREM Inductive == Spec => []IInv
<1>1. Init => IInv
  <2> SUFFICES ASSUME Init
               PROVE  IInv
    OBVIOUS
  <2>1. TypeOK
    BY TypeInit
  <2>2. \A k \in Bufs : Cardinality(Fresh(k)) \in Nat
    BY <2>1, CounterTypes
  <2>3. FullNumNeverOverstates
    BY <2>2 DEF Init, FullNumNeverOverstates
  <2>4. SpawnOrder /\ UnarmedIsEmpty /\ CountingIsFull /\ LoadedIsSafe
    BY DEF Init, SpawnOrder, UnarmedIsEmpty, CountingIsFull, LoadedIsSafe
  <2>5. XoringIsCounted /\ PendingIsCounted /\ XorSizesAgree
    BY DEF Init, XoringIsCounted, XoringBuffer, PendingIsCounted, XorSizesAgree
  <2>6. QED
    BY <2>1, <2>3, <2>4, <2>5 DEF IInv, Counters
<1>2. IInv /\ [Next]_vars => IInv'
  <2> SUFFICES ASSUME TypeOK, Counters, [Next]_vars
               PROVE  TypeOK' /\ Counters'
    BY DEF IInv
  <2>1. CASE Coordinator
    <3>1. TypeOK'
      BY <2>1, TypeCoordinator DEF Counters
    <3>2. QED
      BY <2>1, <3>1, CoordinatorCounters
  <2>2. ASSUME NEW f \in Files, Reader(f)
        PROVE  TypeOK' /\ Counters'
    <3>1. TypeOK'
      BY <2>2, TypeReader
    <3>2. Footprint(f)
      BY <2>2, ReaderFootprint DEF Counters
    <3>3. QED
      BY <3>1, <3>2, ReaderCounters
  <2>3. ASSUME NEW f \in Files, DataServer(f)
        PROVE  TypeOK' /\ Counters'
    <3>1. TypeOK'
      BY <2>3, TypeServer
    <3>2. UNCHANGED <<buf_flag, in_buf, pc, cur, tmp, buf_full_num, cpc, ci, ck>>
      BY <2>3 DEF DataServer, ServerSends, ServerCloses, ServerResets, groupVars, bufVars,
         readerVars, coordVars
    <3>3. QED
      BY <3>1, <3>2, UnrelatedStep
  <2>4. CASE UNCHANGED vars
    <3>1. UNCHANGED <<groupVars, bufVars, blockVars, readerVars, coordVars, conn, proc>>
      BY <2>4 DEF vars
    <3>2. TypeOK'
      BY <3>1, Frame DEF TypeOK
    <3>3. UNCHANGED <<buf_flag, in_buf, pc, cur, tmp, buf_full_num, cpc, ci, ck>>
      BY <3>1 DEF groupVars, bufVars, readerVars, coordVars
    <3>4. QED
      BY <3>2, <3>3, UnrelatedStep
  <2>5. QED
    BY <2>1, <2>2, <2>3, <2>4 DEF Next
<1>3. QED
  BY <1>1, <1>2, PTL DEF Spec

\* Every field keeps its type, and no buffer overflows (write_buf's memcpy).
THEOREM TypeCorrect == Spec => []TypeOK
<1>1. IInv => TypeOK
  BY DEF IInv
<1>2. QED
  BY <1>1, Inductive, PTL

\* The unlocked increments and resets of buf_full_num never make up a count.
THEOREM CountsAreReal == Spec => []FullNumNeverOverstates
<1>1. IInv => FullNumNeverOverstates
  BY DEF IInv, Counters
<1>2. QED
  BY <1>1, Inductive, PTL

\* buf_xor and the readers never use the same buffer at the same time.
THEOREM MutualExclusion == Spec => []BufferExclusion
<1>1. IInv => BufferExclusion
  BY DEF IInv, Counters, XoringIsCounted, BufferExclusion, Counted
<1>2. QED
  BY <1>1, Inductive, PTL

\* buf_xor reads the buffers word by word, without a lock: a reader that stored
\* into one of them meanwhile would tear its chunk.  A reader leaves full buffers
\* alone (Footprint), and no other step changes a buffer.
THEOREM XoredBuffersStayTheSame == Spec => XoredBuffersStay
<1> DEFINE Same == XoringBuffer => \A f \in Files : in_buf'[f][ck] = in_buf[f][ck]
<1>1. IInv /\ [Next]_vars => [Same]_vars
  <2> SUFFICES ASSUME IInv, Next, XoringBuffer, NEW f \in Files
               PROVE  in_buf'[f][ck] = in_buf[f][ck]
    OBVIOUS
  <2>1. ck \in Bufs /\ buf_flag[f][ck] = 2
    BY DEF IInv, TypeOK, CoordType, Counters, XoringIsCounted, Counted
  <2>2. ASSUME NEW g \in Files, Reader(g)
        PROVE  in_buf'[f][ck] = in_buf[f][ck]
    <3>1. Footprint(g)
      BY <2>2, ReaderFootprint DEF IInv, Counters
    <3>2. QED
      BY <2>1, <3>1 DEF Footprint
  <2>3. Coordinator => in_buf' = in_buf
    BY DEF Coordinator, OpenOutput, OpenOutputFails, SpawnReader, SpawnFails, Poll0, Poll1,
       CheckSizes, XorBuffers, XorWriteFails, XorFaults, SetXorFlag, FreeAll, ResetNum,
       ResetFlag, LoopCondition, Result, bufVars
  <2>4. ASSUME NEW g \in Files, DataServer(g)
        PROVE  in_buf' = in_buf
    BY <2>4 DEF DataServer, ServerSends, ServerCloses, ServerResets, bufVars
  <2>5. QED
    BY <2>2, <2>3, <2>4 DEF Next
<1>2. QED
  BY <1>1, Inductive, PTL DEF Spec, XoredBuffersStay
=============================================================================
