------------------------ MODULE GroupTransferMemory ------------------------
(***************************************************************************)
(* Proofs about the buffers of GroupTransfer: who may free them, when a    *)
(* reader may store, and how much the output can hold.  The argument is an *)
(* account of the bytes of each file: what has been XORed, what waits in   *)
(* the two buffers, what the running call of write_buf has in hand and     *)
(* what is still in the socket never add up to more than the data server   *)
(* has sent.  So a reader that still stores has a part of its file that is *)
(* not in the output, xor_size is below file_size, and the coordinator has *)
(* freed nothing yet.                                                      *)
(***************************************************************************)
EXTENDS GroupTransferProofs

\* A call of write_buf is under way in reader f: bytes are in data[f] that have
\* not all been stored.
InCall(f) ==
  \/ pc[f] = "store"
  \/ pc[f] \in {"load", "count", "rearm0", "rearm1"} /\ flag[f] = 1

\* The bytes of the call that are still to be stored, and all its bytes.
Pending(f)  == IF InCall(f) THEN Len(data[f]) - (IF flag[f] = 1 THEN cp_size[f] ELSE 0) ELSE 0
InFlight(f) == IF InCall(f) THEN Len(data[f]) ELSE 0

\* Buffer k of file f has been XORed and not been handed back.
Spent(f, k) ==
  /\ k = ck
  /\ \/ cpc \in {"setflag", "freeall", "resetnum"}
     \/ cpc = "resetflag" /\ f >= ci

\* The bytes of buffer k that are still to be XORed, and all the bytes of the
\* file that were ever stored and not dropped.
Held(f, k) == IF buf_flag[f][k] = 0 \/ Spent(f, k) THEN 0 ELSE Len(in_buf[f][k])
Stored(f)  == xor_size + Held(f, 0) + Held(f, 1)

\* No byte is stored twice: what is stored, to be stored and still in the
\* socket has been sent, and so has what file_index counts.
Bytes(f) ==
  /\ Stored(f) + Pending(f) + conn[f].unread <= conn[f].sent
  /\ file_index[f] + InFlight(f) + conn[f].unread <= conn[f].sent

\* The data server sends no more than the file and no empty block.
Sent(f) == conn[f].sent <= FileSize /\ (conn[f].hdr = 1 => conn[f].unread >= 1)

\* A call that stores has something left of the file, and after a change of
\* buffers a rest and an empty buffer for it.
Call(f) ==
  /\ pc[f] = "store" => Stored(f) < FileSize
  /\ pc[f] \in {"rearm0", "rearm1"} => flag[f] = 1
  /\ InCall(f) /\ flag[f] = 1 => cp_size[f] < Len(data[f])
  /\ pc[f] = "store" /\ flag[f] = 1 => \A k \in Bufs : buf_flag[f][k] = 1 => in_buf[f][k] = << >>

\* There is a buffer to store into, until the file is complete.
Filling(f) == \E k \in Bufs : buf_flag[f][k] = 1
Armed(f) ==
  /\ pc[f] = "store" => Filling(f)
  /\ pc[f] \in {"loop", "recv", "finish"} \/ (pc[f] \in {"load", "count"} /\ flag[f] = 0) =>
       Filling(f) \/ file_index[f] >= FileSize
  /\ pc[f] \in {"none", "connect", "alloc0", "alloc1"} => \A k \in Bufs : in_buf[f][k] = << >>

\* The buffers of a reader inside its callback are live until the whole output
\* has been written; between callbacks, until the group has ended.
Alive(f) ==
  /\ pc[f] = "alloc1" => mem[f][0] = "live"
  /\ \A k \in Bufs : mem[f][k] # "live" =>
       /\ pc[f] \in {"recv", "store", "load", "count", "rearm0", "rearm1", "finish"} => xor_flag = 1
       /\ GroupEnded \/ (pc[f] # "loop" /\ \A j \in Bufs : buf_flag[f][j] = 0)

\* The coordinator frees the buffers after the last XOR only, and does not XOR
\* again.
Ends ==
  /\ xor_size = Len(out)
  /\ cpc \in {"setflag", "freeall"} \/ xor_flag = 1 => xor_size = FileSize
  /\ cpc = "freeall" => xor_flag = 1
  /\ cpc \in {"open", "spawn", "poll0", "poll1", "sizes", "xor"} => xor_flag = 0

\* All that is said about one reader and its connection.
Reads(f) == Bytes(f) /\ Sent(f) /\ Call(f) /\ Armed(f) /\ Alive(f)

Safe == (\A f \in Files : Reads(f)) /\ Ends /\ SurvivesUntilEnd

-----------------------------------------------------------------------------
(* The account under the steps of the coordinator.                         *)

\* The terms of the account are numbers.
LEMMA AccountTypes ==
  ASSUME TypeOK, NEW f \in Files
  PROVE  /\ xor_size \in Nat /\ file_index[f] \in Nat
         /\ \A k \in Bufs : Len(in_buf[f][k]) \in Nat /\ Held(f, k) \in Nat
         /\ Stored(f) \in Nat /\ Stored(f) = xor_size + Held(f, 0) + Held(f, 1)
         /\ xor_size <= Stored(f)
         /\ Len(data[f]) \in Nat /\ cp_size[f] \in Nat
         /\ conn[f].unread \in Nat /\ conn[f].sent \in Nat
<1>1. \A k \in Bufs : Len(in_buf[f][k]) \in Nat
  BY LenProperties DEF TypeOK, BufType
<1>2. \A k \in Bufs : Held(f, k) \in Nat
  BY <1>1 DEF Held
<1>3. xor_size \in Nat /\ file_index[f] \in Nat
  BY DEF TypeOK, GroupType, BlockType
<1>4. Len(data[f]) \in Nat /\ cp_size[f] \in Nat
  BY LenProperties, Constants DEF TypeOK, ReaderType
<1>5. conn[f].unread \in Nat /\ conn[f].sent \in Nat
  BY DEF TypeOK, ConnType
<1>6. Stored(f) \in Nat /\ xor_size <= Stored(f)
  BY <1>2, <1>3 DEF Stored, Bufs
<1>7. QED
  BY <1>1, <1>2, <1>3, <1>4, <1>5, <1>6 DEF Stored

\* The same of the account after a step.
LEMMA StoredTypeNext ==
  ASSUME TypeOK', NEW f \in Files
  PROVE  /\ \A k \in Bufs : Held(f, k)' \in Nat
         /\ Stored(f)' \in Nat /\ Stored(f)' = xor_size' + Held(f, 0)' + Held(f, 1)'
<1>1. \A k \in Bufs : Len(in_buf'[f][k]) \in Nat
  BY LenProperties DEF TypeOK, BufType
<1>2. \A k \in Bufs : Held(f, k)' \in Nat
  BY <1>1 DEF Held
<1>3. xor_size' \in Nat
  BY DEF TypeOK, GroupType
<1>4. QED
  BY <1>2, <1>3 DEF Stored, Bufs

\* A buffer that is being XORed, or has been, is full and known to be.
LEMMA SpentIsFull ==
  ASSUME Counters, NEW f \in Files, NEW k \in Bufs,
         Spent(f, k) \/ (XoringBuffer /\ k = ck)
  PROVE  buf_flag[f][k] = 2 /\ ~(pc[f] \in {"load", "count"} /\ cur[f] = k)
BY DEF Counters, XoringIsCounted, PendingIsCounted, XoringBuffer, Spent, Counted

\* The coordinator moves bytes from the buffers to the output, or drops them.
LEMMA CoordinatorStored ==
  ASSUME TypeOK, Counters, Coordinator, NEW f \in Files
  PROVE  Stored(f)' <= Stored(f)
<1>0. /\ xor_size \in Nat /\ \A k \in Bufs : Held(f, k) \in Nat /\ Len(in_buf[f][k]) \in Nat
      /\ ck \in Bufs /\ ci \in Nat /\ f \in Nat /\ f < FileNum /\ FileNum \in Nat
      /\ buf_flag \in Table(Flags)
  BY AccountTypes, FileIndex, Constants, BufTables DEF TypeOK, CoordType, Files
<1>1. CASE XorBuffers
  <2> DEFINE len == Len(in_buf[f][ck])
  <2>1. cpc = "xor" /\ buf_flag[f][ck] = 2 /\ len = Len(in_buf[0][ck])
    BY <1>0, <1>1, SpentIsFull DEF XorBuffers, Counters, XoringBuffer, XorSizesAgree,
       SameSizes
  <2>2. /\ xor_size' = xor_size + len /\ cpc' \in {"setflag", "resetnum"}
        /\ ck' = ck /\ ci' = ci /\ buf_flag' = buf_flag /\ in_buf' = in_buf
    BY <1>1, <2>1 DEF XorBuffers, bufVars
  <2>3. Held(f, ck) = len /\ Held(f, ck)' = 0
    BY <2>1, <2>2 DEF Held, Spent
  <2>4. \A k \in Bufs : k # ck => Held(f, k)' = Held(f, k)
    BY <2>1, <2>2 DEF Held, Spent
  <2>5. len \in Nat
    BY <1>0
  <2> HIDE DEF len
  <2>6. QED
    BY <1>0, <2>2, <2>3, <2>4, <2>5 DEF Stored, Bufs
<1>2. CASE ResetFlag
  <2>1. /\ cpc = "resetflag" /\ ci < FileNum /\ ci' = ci + 1 /\ ck' = ck
        /\ xor_size' = xor_size /\ in_buf' = in_buf
        /\ cpc' = IF ci + 1 = FileNum THEN "cond" ELSE "resetflag"
        /\ buf_flag' = [buf_flag EXCEPT ![ci][ck] = 0]
    BY <1>2 DEF ResetFlag, groupVars
  <2>2. \A k \in Bufs : buf_flag'[f][k] = IF f = ci /\ k = ck THEN 0 ELSE buf_flag[f][k]
    <3>1. ci \in Files
      BY <1>0, <2>1, FileIndex
    <3>2. QED
      BY <1>0, <2>1, <3>1 DEF Table
  <2>3. \A k \in Bufs : Spent(f, k)' <=> Spent(f, k) /\ f # ci
    BY <1>0, <2>1 DEF Spent
  <2>4. \A k \in Bufs : f = ci /\ k = ck => Spent(f, k)
    BY <1>0, <2>1 DEF Spent
  <2>5. \A k \in Bufs : Spent(f, k) => k = ck
    BY DEF Spent
  <2>6. \A k \in Bufs : Held(f, k)' = Held(f, k)
    BY <2>1, <2>2, <2>3, <2>4, <2>5 DEF Held
  <2>7. QED
    BY <1>0, <2>1, <2>6 DEF Stored, Bufs
<1>3. CASE ~XorBuffers /\ ~ResetFlag
  <2>1. xor_size' = xor_size /\ buf_flag' = buf_flag /\ in_buf' = in_buf
    BY <1>3 DEF Coordinator, OpenOutput, OpenOutputFails, SpawnReader, SpawnFails, Poll0,
       Poll1, CheckSizes, XorWriteFails, XorFaults, SetXorFlag, FreeAll, ResetNum,
       LoopCondition, Result, groupVars, bufVars
  <2>2. \A k \in Bufs : Spent(f, k) => Spent(f, k)'
    BY <1>0, <1>3 DEF Spent, Coordinator, OpenOutput, OpenOutputFails, SpawnReader,
       SpawnFails, Poll0, Poll1, CheckSizes, XorWriteFails, XorFaults, SetXorFlag,
       FreeAll, ResetNum, LoopCondition, Result, coordVars
  <2>3. \A k \in Bufs : Held(f, k)' <= Held(f, k)
    BY <1>0, <2>1, <2>2 DEF Held
  <2>4. \A k \in Bufs : Held(f, k)' \in Nat
    BY <1>0, <2>1 DEF Held
  <2>5. QED
    BY <1>0, <2>1, <2>3, <2>4 DEF Stored, Bufs
<1>4. QED
  BY <1>1, <1>2, <1>3

\* What a step of the coordinator leaves of the locals of a reader.
LEMMA CoordinatorKeeps ==
  ASSUME TypeOK, Counters, Coordinator, NEW f \in Files
  PROVE  /\ UNCHANGED <<data, flag, cp_size, file_index, conn, in_buf>>
         /\ pc'[f] = pc[f] \/ (pc[f] = "none" /\ pc'[f] = "connect")
         /\ GroupEnded => GroupEnded'
         /\ \A k \in Bufs : /\ buf_flag'[f][k] = buf_flag[f][k]
                               \/ (buf_flag[f][k] = 2 /\ buf_flag'[f][k] = 0)
                            /\ mem'[f][k] = mem[f][k] \/ FreeAll
<1>0. /\ DOMAIN pc = Files /\ ck \in Bufs /\ ci \in Nat /\ buf_flag \in Table(Flags)
  BY BufTables DEF TypeOK, ReaderType, CoordType, Files
<1>1. UNCHANGED <<data, flag, cp_size, file_index, conn, in_buf>>
  BY DEF Coordinator, OpenOutput, OpenOutputFails, SpawnReader, SpawnFails, Poll0, Poll1,
     CheckSizes, XorBuffers, XorWriteFails, XorFaults, SetXorFlag, FreeAll, ResetNum,
     ResetFlag, LoopCondition, Result, groupVars, bufVars, blockVars, readerVars
<1>2. pc' = pc \/ SpawnReader
  BY DEF Coordinator, OpenOutput, OpenOutputFails, SpawnFails, Poll0, Poll1, CheckSizes,
     XorBuffers, XorWriteFails, XorFaults, SetXorFlag, FreeAll, ResetNum, ResetFlag,
     LoopCondition, Result, groupVars, bufVars, blockVars, readerVars
<1>3. SpawnReader => pc'[f] = pc[f] \/ (pc[f] = "none" /\ pc'[f] = "connect")
  <2>1. SpawnReader => pc[ci] = "none" /\ pc' = [pc EXCEPT ![ci] = "connect"]
    BY <1>0, FileIndex DEF SpawnReader, Counters, SpawnOrder
  <2>2. QED
    BY <1>0, <2>1
<1>4. GroupEnded => GroupEnded'
  BY DEF GroupEnded, Coordinator, OpenOutput, OpenOutputFails, SpawnReader, SpawnFails,
     Poll0, Poll1, CheckSizes, XorBuffers, XorWriteFails, XorFaults, SetXorFlag, FreeAll,
     ResetNum, ResetFlag, LoopCondition, Result, groupVars
<1>5. buf_flag' = buf_flag \/ ResetFlag
  BY DEF Coordinator, OpenOutput, OpenOutputFails, SpawnReader, SpawnFails, Poll0, Poll1,
     CheckSizes, XorBuffers, XorWriteFails, XorFaults, SetXorFlag, FreeAll, ResetNum,
     LoopCondition, Result, bufVars
<1>6. ASSUME ResetFlag, NEW k \in Bufs
      PROVE  buf_flag'[f][k] = buf_flag[f][k] \/ (buf_flag[f][k] = 2 /\ buf_flag'[f][k] = 0)
  <2>1. cpc = "resetflag" /\ buf_flag' = [buf_flag EXCEPT ![ci][ck] = 0]
    BY <1>6 DEF ResetFlag
  <2>2. f = ci /\ k = ck => Spent(f, k)
    BY <1>0, <2>1 DEF Spent
  <2>3. f = ci /\ k = ck => buf_flag[f][k] = 2
    BY <2>2, SpentIsFull
  <2>4. ~(f = ci /\ k = ck) => buf_flag'[f][k] = buf_flag[f][k]
    BY <1>0, <2>1 DEF Table
  <2>5. f = ci /\ k = ck => buf_flag'[f][k] = 0
    BY <1>0, <2>1 DEF Table
  <2>6. QED
    BY <2>3, <2>4, <2>5
<1>7. mem' = mem \/ FreeAll
  BY DEF Coordinator, OpenOutput, OpenOutputFails, SpawnReader, SpawnFails, Poll0, Poll1,
     CheckSizes, XorBuffers, XorWriteFails, XorFaults, SetXorFlag, ResetNum, ResetFlag,
     LoopCondition, Result, bufVars
<1>8. QED
  BY <1>1, <1>2, <1>3, <1>4, <1>5, <1>6, <1>7

\* A step of the coordinator keeps the account and the readers' places.
LEMMA CoordinatorReaders ==
  ASSUME TypeOK, Counters, Ends, Coordinator, NEW f \in Files,
         Bytes(f), Sent(f), Call(f), Armed(f), Alive(f)
  PROVE  Bytes(f)' /\ Sent(f)' /\ Call(f)' /\ Armed(f)' /\ Alive(f)'
<1>0. /\ UNCHANGED <<data, flag, cp_size, file_index, conn, in_buf>>
      /\ pc'[f] = pc[f] \/ (pc[f] = "none" /\ pc'[f] = "connect")
      /\ GroupEnded => GroupEnded'
      /\ \A k \in Bufs : buf_flag'[f][k] = buf_flag[f][k]
                            \/ (buf_flag[f][k] = 2 /\ buf_flag'[f][k] = 0)
  BY CoordinatorKeeps
<1>1. Stored(f)' <= Stored(f) /\ Stored(f)' \in Nat /\ Stored(f) \in Nat
  <2>1. TypeOK'
    BY TypeCoordinator DEF Counters
  <2>2. Stored(f)' \in Nat
    BY <2>1, StoredTypeNext
  <2>3. QED
    BY <2>2, AccountTypes, CoordinatorStored
<1>2. InCall(f)' = InCall(f)
  BY <1>0 DEF InCall
<1>3. Pending(f)' = Pending(f) /\ InFlight(f)' = InFlight(f)
  BY <1>0, <1>2 DEF Pending, InFlight
<1>4. Pending(f) \in Int /\ conn[f].unread \in Nat /\ conn[f].sent \in Nat
  BY AccountTypes DEF Pending
<1>5. Bytes(f)'
  BY <1>0, <1>1, <1>3, <1>4 DEF Bytes
<1>6. Sent(f)'
  BY <1>0 DEF Sent
<1>7. Call(f)'
  BY <1>0, <1>1, <1>2, Constants DEF Call
<1>8. Armed(f)'
  BY <1>0 DEF Armed, Filling
<1>9. Alive(f)'
  <2>1. CASE FreeAll
    <3>1. xor_flag = 1 /\ xor_flag' = 1 /\ pc'[f] = pc[f]
      BY <2>1 DEF FreeAll, Ends, groupVars, readerVars
    <3>2. buf_flag[f][ck] = 2 /\ ck \in Bufs
      BY <2>1, SpentIsFull DEF FreeAll, XoringBuffer, TypeOK, CoordType
    <3>3. pc[f] # "alloc1"
      BY <3>2 DEF Counters, UnarmedIsEmpty
    <3>4. QED
      BY <3>1, <3>3 DEF Alive, GroupEnded
  <2>2. CASE ~FreeAll
    <3>1. \A k \in Bufs : mem'[f][k] = mem[f][k]
      BY <2>2, CoordinatorKeeps
    <3>2. xor_flag = 1 => xor_flag' = 1
      BY DEF Coordinator, OpenOutput, OpenOutputFails, SpawnReader, SpawnFails, Poll0,
         Poll1, CheckSizes, XorBuffers, XorWriteFails, XorFaults, SetXorFlag, FreeAll,
         ResetNum, ResetFlag, LoopCondition, Result, groupVars
    <3>3. QED
      BY <1>0, <3>1, <3>2 DEF Alive, Bufs
  <2>3. QED
    BY <2>1, <2>2
<1>10. QED
  BY <1>5, <1>6, <1>7, <1>8, <1>9

\* The coordinator counts what it writes, frees after the last XOR, and faults
\* only when a reader has freed a buffer at the end of the group.
LEMMA CoordinatorEnds ==
  ASSUME TypeOK, Counters, Ends, proc = "run", Coordinator, \A f \in Files : Alive(f)
  PROVE  Ends' /\ SurvivesUntilEnd'
<1>0. ck \in Bufs /\ 0 \in Files /\ out \in Seq([Files -> Nat])
  BY FileIndex, Constants DEF TypeOK, CoordType
<1>1. CASE XorBuffers
  <2> DEFINE len == Len(in_buf[0][ck])
             rows == [i \in 1..len |-> Row(i)]
  <2>1. \A g \in Files : in_buf[g][ck] \in Seq(Nat) /\ Len(in_buf[g][ck]) = len
    BY <1>0, <1>1 DEF Counters, XorSizesAgree, SameSizes, XorBuffers, TypeOK, BufType
  <2>2. len \in Nat
    BY <1>0, <2>1, LenProperties
  <2>3. \A i \in 1..len : Row(i) \in [Files -> Nat]
    BY <2>1, <2>2, ElementOfSeq DEF Row
  <2>4. rows \in Seq([Files -> Nat]) /\ Len(rows) = len
    BY <2>2, <2>3, IsASeq, LenProperties
  <2>5. /\ out' = out \o rows /\ xor_size' = xor_size + len /\ UNCHANGED <<xor_flag, proc>>
        /\ cpc = "xor" /\ cpc' = IF xor_size' = FileSize THEN "setflag" ELSE "resetnum"
    BY <1>1 DEF XorBuffers
  <2> HIDE DEF rows, len
  <2>6. Len(out') = Len(out) + len
    BY <1>0, <2>4, <2>5, ConcatProperties
  <2>7. QED
    BY <2>5, <2>6 DEF Ends, SurvivesUntilEnd
<1>2. CASE XorFaults
  <2>1. PICK f \in Files : mem[f][ck] # "live"
    BY <1>2 DEF XorFaults
  <2>2. buf_flag[f][ck] = 2
    BY <1>0, <1>2, SpentIsFull DEF XorFaults, XoringBuffer
  <2>3. GroupEnded
    BY <1>0, <2>1, <2>2 DEF Alive
  <2>4. QED
    BY <1>2, <2>3 DEF XorFaults, Ends, SurvivesUntilEnd, GroupEnded, groupVars, coordVars
<1>3. CASE ~XorBuffers /\ ~XorFaults
  <2>1. xor_size' = xor_size /\ out' = out
    BY <1>3 DEF Coordinator, OpenOutput, OpenOutputFails, SpawnReader, SpawnFails, Poll0,
       Poll1, CheckSizes, XorWriteFails, SetXorFlag, FreeAll, ResetNum, ResetFlag,
       LoopCondition, Result, groupVars
  <2>2. xor_flag' = xor_flag \/ SetXorFlag
    BY <1>3 DEF Coordinator, OpenOutput, OpenOutputFails, SpawnReader, SpawnFails, Poll0,
       Poll1, CheckSizes, XorWriteFails, FreeAll, ResetNum, ResetFlag, LoopCondition,
       Result, groupVars
  <2>3. CASE SetXorFlag
    BY <2>1, <2>3 DEF SetXorFlag, Ends, SurvivesUntilEnd
  <2>4. CASE xor_flag' = xor_flag
    <3>1. /\ cpc' \in {"setflag"} => cpc = "setflag"
          /\ cpc' = "freeall" => cpc = "freeall" \/ SetXorFlag
          /\ cpc' \in {"open", "spawn", "poll0", "poll1", "sizes", "xor"} => xor_flag = 0
      BY <1>3 DEF Coordinator, OpenOutput, OpenOutputFails, SpawnReader, SpawnFails,
         Poll0, Poll1, CheckSizes, XorWriteFails, SetXorFlag, FreeAll, ResetNum,
         ResetFlag, LoopCondition, Result, Ends, Return, KeepWaiting
    <3>2. Ends'
      BY <2>1, <2>3, <2>4, <3>1 DEF Ends
    <3>3. proc' = "run" \/ FreeAll
      BY <1>3 DEF Coordinator, OpenOutput, OpenOutputFails, SpawnReader, SpawnFails,
         Poll0, Poll1, CheckSizes, XorWriteFails, SetXorFlag, ResetNum, ResetFlag,
         LoopCondition, Result
    <3>4. FreeAll => xor_flag = 1
      BY DEF FreeAll, Ends
    <3>5. QED
      BY <2>4, <3>2, <3>3, <3>4 DEF SurvivesUntilEnd
  <2>5. QED
    BY <2>2, <2>3, <2>4
<1>4. QED
  BY <1>1, <1>2, <1>3

-----------------------------------------------------------------------------
(* The account under the steps of the readers and the data server.         *)

\* A reader and a connection that a step leaves alone.
Kept(g) ==
  /\ UNCHANGED <<pc[g], flag[g], data[g], cp_size[g], buf_flag[g], in_buf[g], mem[g], file_index[g]>>
  /\ UNCHANGED <<xor_size, xor_flag, cpc, ci, ck>>
  /\ GroupEnded => GroupEnded'

\* Nothing changes for it.
LEMMA KeptReader ==
  ASSUME NEW g \in Files, Kept(g), conn'[g] = conn[g],
         Bytes(g), Sent(g), Call(g), Armed(g), Alive(g)
  PROVE  Bytes(g)' /\ Sent(g)' /\ Call(g)' /\ Armed(g)' /\ Alive(g)'
<1>1. Stored(g)' = Stored(g)
  BY DEF Kept, Stored, Held, Spent
<1>2. InCall(g)' = InCall(g)
  BY DEF Kept, InCall
<1>3. Pending(g)' = Pending(g) /\ InFlight(g)' = InFlight(g)
  BY <1>2 DEF Kept, Pending, InFlight
<1>4. Bytes(g)' /\ Sent(g)'
  BY <1>1, <1>3 DEF Kept, Bytes, Sent
<1>5. Call(g)'
  BY <1>1, <1>2 DEF Kept, Call
<1>6. Armed(g)'
  BY DEF Kept, Armed, Filling
<1>7. Alive(g)'
  BY DEF Kept, Alive
<1>8. QED
  BY <1>4, <1>5, <1>6, <1>7

\* The data server sends at most the file; what is lost was sent.
LEMMA ServerReaders ==
  ASSUME TypeOK, NEW f \in Files, DataServer(f), NEW g \in Files,
         Bytes(g), Sent(g), Call(g), Armed(g), Alive(g)
  PROVE  Bytes(g)' /\ Sent(g)' /\ Call(g)' /\ Armed(g)' /\ Alive(g)'
<1>1. Kept(g)
  BY DEF DataServer, ServerSends, ServerCloses, ServerResets, Kept, groupVars, bufVars,
     blockVars, readerVars, coordVars, GroupEnded
<1>2. conn \in [Files -> [st : {"none", "idle", "block", "fin", "rst"}, hdr : {0, 1},
                         unread : Nat, sent : Nat]]
  BY DEF TypeOK, ConnType
<1>3. CASE g # f
  <2>1. conn'[g] = conn[g]
    BY <1>2, <1>3 DEF DataServer, ServerSends, ServerCloses, ServerResets
  <2>2. QED
    BY <1>1, <2>1, KeptReader
<1>4. CASE g = f
  <2>1. /\ conn'[f].sent \in Nat /\ conn'[f].unread \in Nat
        /\ conn'[f].unread - conn[f].unread <= conn'[f].sent - conn[f].sent
        /\ conn'[f].sent <= FileSize
        /\ conn'[f].hdr = 1 => conn'[f].unread >= 1
    <3>1. CASE ServerSends(f)
      <4> DEFINE b == Smaller(BlockLen, FileSize - conn[f].sent)
      <4>1. b \in Nat /\ b >= 1 /\ conn[f].sent + b <= FileSize
        BY <1>2, <3>1, Constants, ConstantsAssumption DEF Smaller, ServerSends
      <4>2. conn'[f] = [st |-> "block", hdr |-> 1, unread |-> b, sent |-> conn[f].sent + b]
        BY <1>2, <3>1 DEF ServerSends
      <4> HIDE DEF b
      <4>3. QED
        BY <1>2, <4>1, <4>2
    <3>2. CASE ServerCloses(f) \/ ServerResets(f)
      BY <1>2, <1>4, <3>2 DEF ServerCloses, ServerResets, Sent
    <3>3. QED
      BY <3>1, <3>2 DEF DataServer
  <2>2. Stored(f)' = Stored(f)
    BY <1>1, <1>4 DEF Kept, Stored, Held, Spent
  <2>3. InCall(f)' = InCall(f)
    BY <1>1, <1>4 DEF Kept, InCall
  <2>4. Pending(f)' = Pending(f) /\ InFlight(f)' = InFlight(f)
    BY <1>1, <1>4, <2>3 DEF Kept, Pending, InFlight
  <2>5. /\ Stored(f) \in Nat /\ Pending(f) \in Int /\ InFlight(f) \in Nat /\ file_index[f] \in Nat
        /\ conn[f].unread \in Nat /\ conn[f].sent \in Nat
    BY AccountTypes DEF Pending, InFlight
  <2>6. Bytes(f)' /\ Sent(f)'
    BY <1>1, <1>4, <2>1, <2>2, <2>4, <2>5 DEF Kept, Bytes, Sent
  <2>7. Call(f)'
    BY <1>1, <1>4, <2>2, <2>3 DEF Kept, Call
  <2>8. Armed(f)' /\ Alive(f)'
    BY <1>1, <1>4 DEF Kept, Armed, Filling, Alive
  <2>9. QED
    BY <1>4, <2>6, <2>7, <2>8
<1>5. QED
  BY <1>3, <1>4

\* A reader keeps to its own file, and reports errors for good.
LEMMA ReaderKeepsOthers ==
  ASSUME TypeOK, NEW f \in Files, Reader(f), NEW g \in Files, g # f
  PROVE  Kept(g) /\ conn'[g] = conn[g]
<1>1. /\ UNCHANGED <<xor_size, xor_flag, cpc, ci, ck>>
      /\ GroupEnded => GroupEnded'
  BY DEF Reader, Connect, ConnectFails, Alloc, AllocGivesUp, CallbackFrees,
     CallbackReceives, RecvFails, RecvEof, RecvHeader, RecvSplitHeader, RecvMore,
     StoreBrim, StoreFits, Rearm, CountLoad, CountStore, CallbackReturns, groupVars,
     coordVars, GroupEnded
<1>2. UNCHANGED <<pc[g], flag[g], data[g], cp_size[g], file_index[g], conn[g]>>
  <2>0. /\ DOMAIN pc = Files /\ DOMAIN flag = Files /\ DOMAIN data = Files
        /\ DOMAIN cp_size = Files /\ DOMAIN file_index = Files /\ DOMAIN conn = Files
    BY DEF TypeOK, ReaderType, BlockType, ConnType
  <2>1. pc' = pc \/ \E v : pc' = [pc EXCEPT ![f] = v]
    BY DEF Reader, Connect, ConnectFails, Alloc, AllocGivesUp, CallbackFrees,
       CallbackReceives, RecvFails, RecvEof, RecvHeader, RecvSplitHeader, RecvMore,
       StoreBrim, StoreFits, Rearm, CountLoad, CountStore, CallbackReturns, Take, Goto,
       readerVars, blockVars
  <2>2. flag' = flag \/ \E v : flag' = [flag EXCEPT ![f] = v]
    BY DEF Reader, Connect, ConnectFails, Alloc, AllocGivesUp, CallbackFrees,
       CallbackReceives, RecvFails, RecvEof, RecvHeader, RecvSplitHeader, RecvMore,
       StoreBrim, StoreFits, Rearm, CountLoad, CountStore, CallbackReturns, Take, Goto,
       readerVars, blockVars
  <2>3. data' = data \/ \E v : data' = [data EXCEPT ![f] = v]
    BY DEF Reader, Connect, ConnectFails, Alloc, AllocGivesUp, CallbackFrees,
       CallbackReceives, RecvFails, RecvEof, RecvHeader, RecvSplitHeader, RecvMore,
       StoreBrim, StoreFits, Rearm, CountLoad, CountStore, CallbackReturns, Take, Goto,
       readerVars, blockVars
  <2>4. cp_size' = cp_size \/ \E v : cp_size' = [cp_size EXCEPT ![f] = v]
    BY DEF Reader, Connect, ConnectFails, Alloc, AllocGivesUp, CallbackFrees,
       CallbackReceives, RecvFails, RecvEof, RecvHeader, RecvSplitHeader, RecvMore,
       StoreBrim, StoreFits, Rearm, CountLoad, CountStore, CallbackReturns, Take, Goto,
       readerVars, blockVars
  <2>5. file_index' = file_index \/ \E v : file_index' = [file_index EXCEPT ![f] = v]
    BY DEF Reader, Connect, ConnectFails, Alloc, AllocGivesUp, CallbackFrees,
       CallbackReceives, RecvFails, RecvEof, RecvHeader, RecvSplitHeader, RecvMore,
       StoreBrim, StoreFits, Rearm, CountLoad, CountStore, CallbackReturns, Take, Goto,
       readerVars, blockVars
  <2>6. conn' = conn \/ \E v : conn' = [conn EXCEPT ![f] = v]
    BY DEF Reader, Connect, ConnectFails, Alloc, AllocGivesUp, CallbackFrees,
       CallbackReceives, RecvFails, RecvEof, RecvHeader, RecvSplitHeader, RecvMore,
       StoreBrim, StoreFits, Rearm, CountLoad, CountStore, CallbackReturns, Take, Goto,
       readerVars, blockVars
  <2>7. QED
    BY <2>0, <2>1, <2>2, <2>3, <2>4, <2>5, <2>6
<1>3. UNCHANGED <<buf_flag[g], in_buf[g], mem[g]>>
  <2>0. DOMAIN buf_flag = Files /\ DOMAIN in_buf = Files /\ DOMAIN mem = Files
    BY DEF TypeOK, BufType
  <2>1. buf_flag' = buf_flag \/ \E v : buf_flag' = [buf_flag EXCEPT ![f] = v]
    BY DEF Reader, Connect, ConnectFails, Alloc, AllocGivesUp, CallbackFrees,
       CallbackReceives, RecvFails, RecvEof, RecvHeader, RecvSplitHeader, RecvMore,
       StoreBrim, StoreFits, Rearm, CountLoad, CountStore, CallbackReturns, bufVars
  <2>2. in_buf' = in_buf \/ \E v : in_buf' = [in_buf EXCEPT ![f] = v]
    BY DEF Reader, Connect, ConnectFails, Alloc, AllocGivesUp, CallbackFrees,
       CallbackReceives, RecvFails, RecvEof, RecvHeader, RecvSplitHeader, RecvMore,
       StoreBrim, StoreFits, Rearm, CountLoad, CountStore, CallbackReturns, bufVars
  <2>3. mem' = mem \/ \E v : mem' = [mem EXCEPT ![f] = v]
    BY DEF Reader, Connect, ConnectFails, Alloc, AllocGivesUp, CallbackFrees,
       CallbackReceives, RecvFails, RecvEof, RecvHeader, RecvSplitHeader, RecvMore,
       StoreBrim, StoreFits, Rearm, CountLoad, CountStore, CallbackReturns, bufVars
  <2>4. QED
    BY <2>0, <2>1, <2>2, <2>3
<1>4. QED
  BY <1>1, <1>2, <1>3 DEF Kept

\* The steps of a reader before its loop.
LEMMA StartReads ==
  ASSUME TypeOK, Counters, NEW f \in Files, Reads(f),
         \/ Connect(f) \/ ConnectFails(f)
         \/ \E k \in Bufs : Alloc(f, k) \/ AllocGivesUp(f, k)
  PROVE  Reads(f)'
<1>0. /\ pc \in [Files -> ReaderPcs] /\ DOMAIN conn = Files
      /\ mem \in Table(MemStates) /\ buf_flag \in Table(Flags)
      /\ UNCHANGED <<xor_size, xor_flag, cpc, ci, ck, in_buf, file_index, data, flag, cp_size>>
      /\ GroupEnded => GroupEnded'
  BY BufTables DEF TypeOK, ReaderType, ConnType, Connect, ConnectFails, Alloc,
     AllocGivesUp, groupVars, coordVars, bufVars, blockVars, GroupEnded
<1>1. /\ pc[f] \in {"connect", "alloc0", "alloc1"}
      /\ pc'[f] \in {"alloc0", "alloc1", "loop", "exit", "gaveup"}
      /\ pc'[f] \in {"alloc0", "alloc1"} => pc[f] # "alloc1"
  BY <1>0 DEF Connect, ConnectFails, Alloc, AllocGivesUp, AllocPc, Goto, Bufs
<1>2. \A k \in Bufs : in_buf[f][k] = << >> /\ buf_flag[f][k] = 0 /\ Len(in_buf[f][k]) = 0
  BY <1>1, EmptySeq DEF Reads, Armed, Counters, UnarmedIsEmpty
<1>3. Stored(f)' = xor_size /\ Stored(f) = xor_size /\ xor_size \in Nat
  BY <1>0, <1>2, EmptySeq DEF Stored, Held, Bufs, TypeOK, GroupType
<1>4. ~InCall(f) /\ ~InCall(f)'
  BY <1>1 DEF InCall
<1>5. /\ conn'[f].sent = conn[f].sent /\ conn'[f].unread = conn[f].unread
      /\ conn'[f].hdr = conn[f].hdr
  BY <1>0 DEF Connect, ConnectFails, Alloc, AllocGivesUp, TypeOK, ConnType
<1>6. Bytes(f)' /\ Sent(f)'
  BY <1>0, <1>3, <1>4, <1>5 DEF Reads, Bytes, Sent, Pending, InFlight
<1>7. Call(f)'
  BY <1>1, <1>4 DEF Call
<1>8. pc'[f] = "loop" => /\ buf_flag'[f][0] = 1
                         /\ \A k \in Bufs : mem'[f][k] = "live"
  <2>1. pc'[f] = "loop" => Alloc(f, 1)
    BY <1>0 DEF Connect, ConnectFails, Alloc, AllocGivesUp, AllocPc, Goto, Bufs
  <2>2. Alloc(f, 1) => pc[f] = "alloc1" /\ buf_flag'[f] = ArmedFlags /\ mem' = [mem EXCEPT ![f][1] = "live"]
    BY <1>0 DEF Alloc, AllocPc, Table
  <2>3. pc[f] = "alloc1" => mem[f][0] = "live"
    BY DEF Reads, Alive
  <2>4. ArmedFlags[0] = 1
    BY DEF ArmedFlags, Bufs
  <2>5. QED
    BY <1>0, <2>1, <2>2, <2>3, <2>4 DEF Table, Bufs
<1>9. Armed(f)'
  BY <1>0, <1>1, <1>2, <1>8 DEF Armed, Filling, Bufs
<1>10. pc'[f] # "loop" => \A k \in Bufs : buf_flag'[f][k] = 0
  BY <1>0, <1>1, <1>2 DEF Connect, ConnectFails, Alloc, AllocGivesUp, AllocPc, Goto,
     bufVars
<1>11. pc'[f] = "alloc1" => mem'[f][0] = "live"
  BY <1>0, <1>1 DEF Connect, ConnectFails, Alloc, AllocGivesUp, AllocPc, Goto, Table, Bufs
<1>12. Alive(f)'
  BY <1>1, <1>8, <1>10, <1>11 DEF Alive
<1>13. QED
  BY <1>6, <1>7, <1>9, <1>12 DEF Reads

\* The steps of the callback that store nothing.
LEMMA CallbackReads ==
  ASSUME TypeOK, NEW f \in Files, Reads(f),
         \/ CallbackFrees(f) \/ CallbackReceives(f) \/ RecvFails(f) \/ RecvEof(f)
         \/ RecvSplitHeader(f) \/ CallbackReturns(f) \/ CountLoad(f) \/ CountStore(f)
  PROVE  Reads(f)'
<1>0. /\ pc \in [Files -> ReaderPcs] /\ DOMAIN conn = Files
      /\ DOMAIN mem = Files
      /\ UNCHANGED <<xor_size, xor_flag, cpc, ci, ck, in_buf, buf_flag, file_index, data, flag, cp_size>>
      /\ GroupEnded => GroupEnded'
  BY DEF TypeOK, BufType, ReaderType, ConnType, CallbackFrees, CallbackReceives,
     RecvFails, RecvEof, RecvSplitHeader, CallbackReturns, CountLoad, CountStore,
     groupVars, coordVars, bufVars, blockVars, readerVars, GroupEnded
<1>1. \/ pc'[f] = pc[f]
      \/ pc[f] \in {"loop", "recv", "finish"} /\ pc'[f] \in {"loop", "recv", "exit"}
      \/ pc[f] = "load" /\ pc'[f] = "count"
      \/ pc[f] = "count" /\ pc'[f] = IF flag[f] = 1 THEN "rearm0" ELSE "finish"
  <2>1. CASE CallbackFrees(f) \/ RecvSplitHeader(f)
    BY <2>1 DEF CallbackFrees, RecvSplitHeader, readerVars
  <2>2. CASE CallbackReceives(f) \/ RecvFails(f) \/ RecvEof(f) \/ CallbackReturns(f)
    BY <1>0, <2>2 DEF CallbackReceives, RecvFails, RecvEof, CallbackReturns, EventFires,
       Goto
  <2>3. CASE CountLoad(f) \/ CountStore(f)
    BY <1>0, <2>3 DEF CountLoad, CountStore, Goto
  <2>4. QED
    BY <2>1, <2>2, <2>3
<1>2. Stored(f)' = Stored(f)
  BY <1>0 DEF Stored, Held, Spent
<1>3. InCall(f)' = InCall(f)
  BY <1>0, <1>1 DEF InCall
<1>4. Pending(f)' = Pending(f) /\ InFlight(f)' = InFlight(f)
  BY <1>0, <1>3 DEF Pending, InFlight
<1>5. /\ conn'[f].sent = conn[f].sent /\ conn'[f].unread = conn[f].unread
      /\ conn'[f].hdr = conn[f].hdr
  <2>1. conn' = conn \/ conn' = [conn EXCEPT ![f].st = "idle"]
    BY DEF CallbackFrees, CallbackReceives, RecvFails, RecvEof, RecvSplitHeader,
       CallbackReturns, CountLoad, CountStore
  <2>2. QED
    BY <1>0, <2>1 DEF TypeOK, ConnType
<1>6. Bytes(f)' /\ Sent(f)'
  BY <1>0, <1>2, <1>4, <1>5 DEF Reads, Bytes, Sent
<1>7. flag[f] \in {0, 1}
  BY DEF TypeOK, ReaderType
<1>8. Call(f)'
  BY <1>0, <1>1, <1>2, <1>3 DEF Reads, Call
<1>9. Armed(f)'
  BY <1>0, <1>1, <1>7 DEF Reads, Armed, Filling
<1>10. Alive(f)'
  <2>1. CASE CallbackFrees(f)
    BY <1>0, <2>1 DEF CallbackFrees, GroupEnded, readerVars, groupVars, Alive, EventFires
  <2>2. CASE CallbackReceives(f)
    BY <1>0, <2>2 DEF CallbackReceives, Goto, bufVars, Reads, Alive, EventFires
  <2>3. CASE ~CallbackFrees(f) /\ ~CallbackReceives(f)
    <3>1. mem' = mem
      BY <2>3 DEF RecvFails, RecvEof, RecvSplitHeader, CallbackReturns, CountLoad,
         CountStore, bufVars
    <3>2. \/ pc'[f] = pc[f]
          \/ /\ pc[f] \in {"recv", "load", "count", "finish"}
             /\ pc'[f] \in {"loop", "exit", "count", "rearm0", "finish"}
      BY <1>0, <2>3 DEF RecvFails, RecvEof, RecvSplitHeader, CallbackReturns, CountLoad,
         CountStore, Goto, readerVars
    <3>3. QED
      BY <1>0, <3>1, <3>2 DEF Reads, Alive, GroupEnded
  <2>4. QED
    BY <2>1, <2>2, <2>3
<1>11. QED
  BY <1>6, <1>8, <1>9, <1>10 DEF Reads

\* The fill of a buffer changes with the bytes appended to it, and of no other.
LEMMA AppendEffect ==
  ASSUME TypeOK, NEW f \in Files, NEW k \in Bufs, NEW s \in Seq(Nat),
         in_buf' = [in_buf EXCEPT ![f][k] = @ \o s]
  PROVE  /\ in_buf'[f][k] = in_buf[f][k] \o s
         /\ Len(in_buf'[f][k]) = Len(in_buf[f][k]) + Len(s)
         /\ \A j \in Bufs : j # k => in_buf'[f][j] = in_buf[f][j]
<1>1. in_buf[f][k] \in Seq(Nat) /\ in_buf \in Table(Contents)
  BY BufTables DEF TypeOK, BufType
<1>2. /\ in_buf'[f][k] = in_buf[f][k] \o s
      /\ \A j \in Bufs : j # k => in_buf'[f][j] = in_buf[f][j]
  BY <1>1 DEF Table
<1>3. Len(in_buf[f][k] \o s) = Len(in_buf[f][k]) + Len(s)
  BY <1>1, ConcatProperties
<1>4. QED
  BY <1>2, <1>3

\* What StoreBrim stores: as much as there is room for, less than it has.
LEMMA BrimEffect ==
  ASSUME TypeOK, NEW f \in Files, NEW k \in Bufs, StoreBrim(f, k)
  PROVE  /\ Room(f, k) \in Nat /\ Room(f, k) < Len(data[f])
         /\ SubSeq(data[f], 1, Room(f, k)) \in Seq(Nat)
         /\ Len(SubSeq(data[f], 1, Room(f, k))) = Room(f, k)
         /\ Len(in_buf[f][k]) + Room(f, k) = ReadBufSize
<1> DEFINE a == Len(in_buf[f][k])
           d == Len(data[f])
           r == Room(f, k)
<1>1. data[f] \in Seq(Nat) /\ d \in Nat /\ a \in Nat /\ a <= ReadBufSize
  BY LenProperties DEF TypeOK, ReaderType, BufType
<1>2. ~(a + d <= ReadBufSize) /\ r = ReadBufSize - a
  BY DEF StoreBrim, Fits, Room
<1> HIDE DEF a, d, r
<1>3. r \in Nat /\ r < d /\ a + r = ReadBufSize
  BY <1>1, <1>2, Constants
<1>4. SubSeq(data[f], 1, r) \in Seq(Nat) /\ Len(SubSeq(data[f], 1, r)) = r
  <2>1. \A i \in 1..r : i \in 1..Len(data[f])
    BY <1>1, <1>3 DEF d
  <2>2. QED
    BY <1>1, <1>3, <2>1, SubSeqProperties
<1>5. QED
  BY <1>3, <1>4 DEF a, d, r

\* What StoreFits stores: the rest of the call.
LEMMA FitsEffect ==
  ASSUME TypeOK, NEW f \in Files, flag[f] = 1 => cp_size[f] < Len(data[f])
  PROVE  /\ Rest(f) \in Seq(Nat)
         /\ Len(Rest(f)) = Len(data[f]) - (IF flag[f] = 1 THEN cp_size[f] ELSE 0)
<1>1. data[f] \in Seq(Nat) /\ Len(data[f]) \in Nat /\ cp_size[f] \in Nat
  BY LenProperties, Constants DEF TypeOK, ReaderType
<1>2. CASE flag[f] = 1
  <2>1. cp_size[f] + 1 \in 1..Len(data[f]) /\ Len(data[f]) \in 1..Len(data[f])
    BY <1>1, <1>2
  <2>2. /\ SubSeq(data[f], cp_size[f] + 1, Len(data[f])) \in Seq(Nat)
        /\ Len(SubSeq(data[f], cp_size[f] + 1, Len(data[f]))) = Len(data[f]) - (cp_size[f] + 1) + 1
    BY <1>1, <2>1, SubSeqProperties
  <2>3. QED
    BY <1>1, <1>2, <2>2 DEF Rest
<1>3. CASE flag[f] # 1
  BY <1>1, <1>3 DEF Rest
<1>4. QED
  BY <1>2, <1>3

\* Bytes leave the socket and become the call of write_buf.
LEMMA ReceiveReads ==
  ASSUME TypeOK, NEW f \in Files, Reads(f), RecvHeader(f) \/ RecvMore(f)
  PROVE  Reads(f)'
<1>0. /\ pc \in [Files -> ReaderPcs] /\ DOMAIN data = Files /\ DOMAIN flag = Files
      /\ DOMAIN conn = Files /\ conn[f].unread \in Nat /\ conn[f].sent \in Nat
      /\ conn[f].sent - conn[f].unread \in Nat
  BY DEF TypeOK, ReaderType, ConnType
<1>1. PICK n \in Nat : n <= MaxLine /\ n <= conn[f].unread /\ Take(f, n)
  <2>1. \A n \in 0..Smaller(MaxLine, conn[f].unread) : n \in Nat /\ n <= MaxLine /\ n <= conn[f].unread
    BY <1>0, Constants DEF Smaller
  <2>2. \E n \in 0..Smaller(MaxLine, conn[f].unread) : Take(f, n)
    BY <1>0, Constants DEF RecvHeader, RecvMore, Smaller
  <2>3. QED
    BY <2>1, <2>2
<1>2. pc[f] = "recv" /\ conn[f].unread >= 1
  BY <1>0 DEF RecvHeader, RecvMore, Reads, Sent
<1>3. UNCHANGED <<xor_size, xor_flag, correct_flag, cpc, ci, ck, buf_flag, in_buf, mem, file_index, cp_size>>
  BY DEF RecvHeader, RecvMore, groupVars, bufVars, coordVars
<1>4. /\ pc'[f] = "store" /\ flag'[f] = 0 /\ Len(data'[f]) = n
      /\ conn'[f].hdr = 0 /\ conn'[f].unread = conn[f].unread - n /\ conn'[f].sent = conn[f].sent
  <2>1. Len(Offsets(conn[f].sent - conn[f].unread, n)) = n
    BY <1>0, OffsetsType
  <2>2. /\ pc'[f] = "store" /\ flag'[f] = 0
        /\ data'[f] = Offsets(conn[f].sent - conn[f].unread, n)
    BY <1>0, <1>1 DEF Take, Goto
  <2>3. conn'[f].hdr = 0 /\ conn'[f].unread = conn[f].unread - n /\ conn'[f].sent = conn[f].sent
    BY <1>0, <1>1 DEF Take, TypeOK, ConnType
  <2>4. QED
    BY <2>1, <2>2, <2>3
<1>5. Stored(f)' = Stored(f) /\ Stored(f) \in Nat /\ file_index[f] \in Nat /\ FileSize \in Nat
  BY <1>3, AccountTypes, Constants DEF Stored, Held, Spent
<1>6. Pending(f) = 0 /\ InFlight(f) = 0
  BY <1>2 DEF Pending, InFlight, InCall
<1>7. Pending(f)' = n /\ InFlight(f)' = n
  BY <1>4 DEF Pending, InFlight, InCall
<1>8. Bytes(f)' /\ Sent(f)'
  BY <1>0, <1>1, <1>3, <1>4, <1>5, <1>6, <1>7 DEF Reads, Bytes, Sent
<1>9. Stored(f) < FileSize /\ file_index[f] < FileSize
  BY <1>0, <1>2, <1>5, <1>6 DEF Reads, Bytes, Sent
<1>10. Call(f)'
  BY <1>4, <1>5, <1>9 DEF Call
<1>11. Armed(f)'
  BY <1>2, <1>3, <1>4, <1>5, <1>9 DEF Reads, Armed, Filling
<1>12. Alive(f)'
  BY <1>2, <1>3, <1>4 DEF Reads, Alive, GroupEnded
<1>13. QED
  BY <1>8, <1>10, <1>11, <1>12 DEF Reads

\* What a store leaves alone.
StoreKeeps(f, k) ==
  /\ UNCHANGED <<xor_size, xor_flag, correct_flag, cpc, ci, ck, mem, data, conn>>
  /\ pc[f] = "store" /\ buf_flag[f][k] = 1 /\ ~Spent(f, k) /\ ~Spent(f, k)'
  /\ \A j \in Bufs : j # k => buf_flag'[f][j] = buf_flag[f][j] /\ in_buf'[f][j] = in_buf[f][j]

\* Bytes stored in the writable buffer are added to the account.
LEMMA StoreAdds ==
  ASSUME TypeOK, NEW f \in Files, NEW k \in Bufs, StoreKeeps(f, k), NEW m \in Nat,
         Len(in_buf'[f][k]) = Len(in_buf[f][k]) + m, buf_flag'[f][k] # 0
  PROVE  Stored(f)' = Stored(f) + m
<1>1. /\ xor_size \in Nat /\ \A j \in Bufs : Held(f, j) \in Nat
      /\ Len(in_buf[f][k]) \in Nat
  BY AccountTypes
<1>2. Held(f, k) = Len(in_buf[f][k]) /\ Held(f, k)' = Len(in_buf[f][k]) + m
  BY DEF Held, StoreKeeps
<1>3. \A j \in Bufs : j # k => Held(f, j)' = Held(f, j)
  BY DEF Held, StoreKeeps, Spent
<1>4. xor_size' = xor_size
  BY DEF StoreKeeps
<1>5. /\ Stored(f) = xor_size + Held(f, 0) + Held(f, 1)
      /\ Stored(f)' = xor_size' + Held(f, 0)' + Held(f, 1)'
  BY DEF Stored
<1>6. Held(f, k)' = Held(f, k) + m /\ \A j \in Bufs : j # k => Held(f, j)' = Held(f, j)
  BY <1>2, <1>3
<1>7. 0 \in Bufs /\ 1 \in Bufs /\ (k = 0 \/ k = 1)
  BY DEF Bufs
<1>8. Held(f, 0) \in Nat /\ Held(f, 1) \in Nat
  BY <1>1, <1>7
<1>9. \/ Held(f, 0)' = Held(f, 0) + m /\ Held(f, 1)' = Held(f, 1)
      \/ Held(f, 1)' = Held(f, 1) + m /\ Held(f, 0)' = Held(f, 0)
  BY <1>6, <1>7
<1> HIDE DEF Held
<1>10. QED
  BY <1>1, <1>4, <1>5, <1>8, <1>9

\* The stores keep to what StoreKeeps says.
LEMMA StoresKeep ==
  ASSUME TypeOK, Counters, NEW f \in Files, NEW k \in Bufs, StoreBrim(f, k) \/ StoreFits(f, k)
  PROVE  StoreKeeps(f, k)
<1>1. /\ UNCHANGED <<xor_size, xor_flag, correct_flag, cpc, ci, ck, mem, data, conn>>
      /\ pc[f] = "store" /\ buf_flag[f][k] = 1
  BY DEF StoreBrim, StoreFits, Writable, groupVars, coordVars
<1>2. ~Spent(f, k) /\ ~Spent(f, k)'
  BY <1>1, SpentIsFull DEF Spent
<1>3. buf_flag' = buf_flag \/ buf_flag' = [buf_flag EXCEPT ![f][k] = 2]
  BY DEF StoreBrim, StoreFits
<1>4. \E v : in_buf' = [in_buf EXCEPT ![f][k] = v]
  BY DEF StoreBrim, StoreFits
<1>5. buf_flag \in Table(Flags) /\ in_buf \in Table(Contents)
  BY BufTables DEF TypeOK
<1>6. QED
  BY <1>1, <1>2, <1>3, <1>4, <1>5 DEF StoreKeeps, Table

\* The buffer is filled to the brim: the rest of the call stays in hand.
LEMMA BrimReads ==
  ASSUME TypeOK, Counters, NEW f \in Files, NEW k \in Bufs, Reads(f), StoreBrim(f, k)
  PROVE  Reads(f)'
<1> DEFINE r == Room(f, k)
<1>0. /\ pc \in [Files -> ReaderPcs] /\ DOMAIN flag = Files /\ DOMAIN cp_size = Files
      /\ flag[f] \in {0, 1} /\ buf_flag \in Table(Flags)
  BY BufTables DEF TypeOK, ReaderType
<1>1. r \in Nat /\ r < Len(data[f]) /\ Len(data[f]) \in Nat /\ Len(in_buf'[f][k]) = Len(in_buf[f][k]) + r
  <2>1. in_buf' = [in_buf EXCEPT ![f][k] = @ \o SubSeq(data[f], 1, r)]
    BY DEF StoreBrim
  <2>2. QED
    BY <2>1, BrimEffect, AppendEffect, AccountTypes
<1>2. StoreKeeps(f, k)
  BY StoresKeep
<1>3. flag[f] = 0
  <2>1. flag[f] = 1 => in_buf[f][k] = << >>
    BY <1>2 DEF Reads, Call, StoreKeeps
  <2>2. Len(data[f]) <= MaxLine
    BY DEF TypeOK, ReaderType
  <2>3. in_buf[f][k] = << >> => Fits(f, k)
    BY <1>1, <2>2, EmptySeq, Constants DEF Fits
  <2>4. QED
    BY <1>0, <2>1, <2>3 DEF StoreBrim
<1>4. /\ pc'[f] = "load" /\ flag'[f] = 1 /\ cp_size'[f] = r /\ buf_flag'[f][k] = 2
      /\ data' = data /\ file_index' = file_index /\ conn' = conn
  BY <1>0 DEF StoreBrim, Goto, Table, blockVars
<1> HIDE DEF r
<1>5. Stored(f)' = Stored(f) + r /\ Stored(f) \in Nat
  BY <1>1, <1>2, <1>4, StoreAdds, AccountTypes
<1>6. pc[f] = "store" /\ Pending(f) = Len(data[f]) /\ InFlight(f) = Len(data[f])
  BY <1>2, <1>3 DEF StoreKeeps, Pending, InFlight, InCall
<1>7. Pending(f)' = Len(data[f]) - r /\ InFlight(f)' = Len(data[f])
  BY <1>4 DEF Pending, InFlight, InCall
<1>8. Bytes(f)' /\ Sent(f)'
  <2>1. conn[f].unread \in Nat /\ conn[f].sent \in Nat /\ file_index[f] \in Nat
    BY AccountTypes
  <2>2. QED
    BY <1>1, <1>4, <1>5, <1>6, <1>7, <2>1 DEF Reads, Bytes, Sent
<1>9. Call(f)' /\ Armed(f)'
  BY <1>1, <1>4 DEF Call, Armed, InCall
<1>10. Alive(f)'
  BY <1>2, <1>4, <1>6 DEF StoreKeeps, Reads, Alive, GroupEnded
<1>11. QED
  BY <1>8, <1>9, <1>10 DEF Reads

\* The rest of the call fits, and the call is over.
LEMMA FitsReads ==
  ASSUME TypeOK, Counters, NEW f \in Files, NEW k \in Bufs, Reads(f), StoreFits(f, k)
  PROVE  Reads(f)'
<1> DEFINE m == Len(Rest(f))
<1>0. /\ pc \in [Files -> ReaderPcs] /\ DOMAIN flag = Files /\ DOMAIN file_index = Files
      /\ flag[f] \in {0, 1} /\ buf_flag \in Table(Flags)
  BY BufTables DEF TypeOK, ReaderType, BlockType
<1>1. StoreKeeps(f, k)
  BY StoresKeep
<1>2. flag[f] = 1 => cp_size[f] < Len(data[f])
  BY <1>1 DEF Reads, Call, InCall, StoreKeeps
<1>3. /\ m = Pending(f) /\ m \in Nat /\ Rest(f) \in Seq(Nat)
  <2>1. Rest(f) \in Seq(Nat) /\ m = Len(data[f]) - (IF flag[f] = 1 THEN cp_size[f] ELSE 0)
    BY <1>2, FitsEffect
  <2>2. QED
    BY <1>1, <2>1, LenProperties DEF StoreKeeps, Pending, InCall
<1>4. Len(in_buf'[f][k]) = Len(in_buf[f][k]) + m
  BY <1>3, AppendEffect DEF StoreFits
<1>5. /\ flag'[f] = 0 /\ data' = data /\ conn' = conn
      /\ file_index'[f] = file_index[f] + Len(data[f])
      /\ \/ file_index'[f] >= FileSize /\ pc'[f] = "load" /\ buf_flag'[f][k] = 2
         \/ pc'[f] = "finish" /\ buf_flag'[f][k] = 1
  BY <1>0, <1>1 DEF StoreFits, StoreKeeps, Goto, Table
<1> HIDE DEF m
<1>6. Stored(f)' = Stored(f) + m /\ Stored(f) \in Nat
  <2>1. buf_flag'[f][k] # 0
    BY <1>5
  <2>2. QED
    BY <1>1, <1>3, <1>4, <2>1, StoreAdds, AccountTypes
<1>7. InFlight(f) = Len(data[f]) /\ Pending(f)' = 0 /\ InFlight(f)' = 0
  BY <1>1, <1>5 DEF StoreKeeps, Pending, InFlight, InCall
<1>8. Bytes(f)' /\ Sent(f)'
  <2>1. /\ conn[f].unread \in Nat /\ conn[f].sent \in Nat /\ file_index[f] \in Nat
        /\ Len(data[f]) \in Nat
    BY AccountTypes
  <2>2. QED
    BY <1>3, <1>5, <1>6, <1>7, <2>1 DEF Reads, Bytes, Sent
<1>9. Call(f)' /\ Armed(f)'
  BY <1>5 DEF Call, Armed, Filling, InCall
<1>10. Alive(f)'
  BY <1>1, <1>5 DEF StoreKeeps, Reads, Alive, GroupEnded
<1>11. QED
  BY <1>8, <1>9, <1>10 DEF Reads

\* An empty buffer becomes the writable one.
LEMMA RearmReads ==
  ASSUME TypeOK, Counters, NEW f \in Files, NEW k \in Bufs, Reads(f), Rearm(f, k)
  PROVE  Reads(f)'
<1>0. /\ pc \in [Files -> ReaderPcs] /\ buf_flag \in Table(Flags) /\ in_buf \in Table(Contents)
      /\ UNCHANGED <<xor_size, xor_flag, correct_flag, cpc, ci, ck, mem, data, conn, flag, cp_size,
                     file_index>>
  BY BufTables DEF TypeOK, ReaderType, Rearm, groupVars, blockVars, coordVars
<1>1. pc[f] \in {"rearm0", "rearm1"} /\ flag[f] = 1 /\ flag'[f] = 1
  BY <1>0 DEF Rearm, RearmPc, Reads, Call
<1>2. \/ /\ pc'[f] = "store" /\ buf_flag[f][k] = 0
         /\ \A j \in Bufs : j # k => buf_flag'[f][j] # 1
         /\ buf_flag'[f][k] = 1 /\ in_buf'[f][k] = << >>
         /\ \A j \in Bufs : j # k => buf_flag'[f][j] = buf_flag[f][j] /\ in_buf'[f][j] = in_buf[f][j]
      \/ pc'[f] \in {"rearm0", "rearm1"} /\ UNCHANGED <<buf_flag, in_buf>>
  BY <1>0 DEF Rearm, RearmPc, Goto, Table, Bufs
<1>3. \A j \in Bufs : Held(f, j)' = Held(f, j)
  <2>1. \A j \in Bufs : Spent(f, j)' = Spent(f, j)
    BY <1>0 DEF Spent
  <2>2. QED
    BY <1>2, <2>1, EmptySeq DEF Held
<1>4. Stored(f)' = Stored(f)
  BY <1>0, <1>3 DEF Stored, Bufs
<1>5. InCall(f) /\ InCall(f)'
  BY <1>1, <1>2 DEF InCall
<1>6. Pending(f)' = Pending(f) /\ InFlight(f)' = InFlight(f)
  BY <1>0, <1>5 DEF Pending, InFlight
<1>7. Bytes(f)' /\ Sent(f)'
  BY <1>0, <1>4, <1>6 DEF Reads, Bytes, Sent
<1>8. cp_size[f] < Len(data[f])
  BY <1>1, <1>5 DEF Reads, Call
<1>9. Stored(f) < FileSize
  <2>1. Pending(f) = Len(data[f]) - cp_size[f]
    BY <1>1, <1>5 DEF Pending
  <2>2. /\ Stored(f) \in Nat /\ Len(data[f]) \in Nat /\ cp_size[f] \in Nat
        /\ conn[f].unread \in Nat /\ conn[f].sent \in Nat /\ FileSize \in Nat
    BY AccountTypes, Constants
  <2>3. Bytes(f) /\ Sent(f)
    BY <1>0 DEF Reads
  <2>4. QED
    BY <1>8, <2>1, <2>2, <2>3 DEF Bytes, Sent
<1>10. Call(f)'
  BY <1>0, <1>1, <1>2, <1>4, <1>8, <1>9 DEF Call
<1>11. Armed(f)'
  BY <1>1, <1>2 DEF Armed, Filling
<1>12. Alive(f)'
  BY <1>0, <1>1, <1>2 DEF Reads, Alive, GroupEnded
<1>13. QED
  BY <1>7, <1>10, <1>11, <1>12 DEF Reads

\* Every step of a reader keeps what is said about every reader.
LEMMA ReaderReads ==
  ASSUME TypeOK, Counters, NEW f \in Files, Reader(f), NEW g \in Files, Reads(g)
  PROVE  Reads(g)'
<1>1. CASE g # f
  <2>1. Kept(g) /\ conn'[g] = conn[g]
    BY <1>1, ReaderKeepsOthers
  <2>2. QED
    BY <2>1, KeptReader DEF Reads
<1>2. CASE g = f
  BY <1>2, StartReads, CallbackReads, ReceiveReads, BrimReads, FitsReads, RearmReads DEF
     Reader
<1>3. QED
  BY <1>1, <1>2

\* A reader does not write the output, and faults only after the group ended or
\* on a split header.
LEMMA ReaderEnds ==
  ASSUME TypeOK, Ends, proc = "run", NEW f \in Files, Reader(f)
  PROVE  Ends' /\ SurvivesUntilEnd'
<1>1. UNCHANGED <<xor_size, xor_flag, out, cpc>> /\ (GroupEnded => GroupEnded')
  BY DEF Reader, Connect, ConnectFails, Alloc, AllocGivesUp, CallbackFrees,
     CallbackReceives, RecvFails, RecvEof, RecvHeader, RecvSplitHeader, RecvMore,
     StoreBrim, StoreFits, Rearm, CountLoad, CountStore, CallbackReturns, groupVars,
     coordVars, GroupEnded
<1>2. proc' = "exit" => "split" \in Faults \/ GroupEnded
  BY DEF Reader, Connect, ConnectFails, Alloc, AllocGivesUp, CallbackFrees,
     CallbackReceives, RecvFails, RecvEof, RecvHeader, RecvSplitHeader, RecvMore,
     StoreBrim, StoreFits, Rearm, CountLoad, CountStore, CallbackReturns
<1>3. QED
  BY <1>1, <1>2 DEF Ends, SurvivesUntilEnd, GroupEnded

-----------------------------------------------------------------------------
(* The theorems.                                                           *)

\* The account, the places of the readers and the life of the buffers are
\* inductive on top of IInv.
THEOREM SafeInductive == Spec => [](IInv /\ Safe)
<1>1. Init => Safe
  <2> SUFFICES ASSUME Init PROVE Safe
    OBVIOUS
  <2>1. ASSUME NEW f \in Files PROVE Reads(f)
    <3>1. ~InCall(f) /\ Stored(f) = 0
      BY <2>1 DEF Init, InCall, Stored, Held, Bufs
    <3>2. Bytes(f) /\ Sent(f)
      BY <2>1, <3>1, Constants DEF Init, Bytes, Sent, Pending, InFlight
    <3>3. Call(f) /\ Armed(f) /\ Alive(f)
      BY <2>1, <3>1 DEF Init, Call, Armed, Alive
    <3>4. QED
      BY <3>2, <3>3 DEF Reads
  <2>2. Ends /\ SurvivesUntilEnd
    BY EmptySeq DEF Init, Ends, SurvivesUntilEnd
  <2>3. QED
    BY <2>1, <2>2 DEF Safe
<1>2. IInv /\ Safe /\ [Next]_vars => Safe'
  <2> SUFFICES ASSUME TypeOK, Counters, Safe, [Next]_vars PROVE Safe'
    BY DEF IInv
  <2>0. (\A g \in Files : Reads(g)) /\ Ends /\ SurvivesUntilEnd
    BY DEF Safe
  <2>1. CASE proc = "run" /\ Coordinator
    BY <2>0, <2>1, CoordinatorReaders, CoordinatorEnds DEF Safe, Reads
  <2>2. ASSUME proc = "run", NEW f \in Files, Reader(f) PROVE Safe'
    BY <2>0, <2>2, ReaderReads, ReaderEnds DEF Safe
  <2>3. ASSUME NEW f \in Files, DataServer(f) PROVE Safe'
    <3>1. \A g \in Files : Reads(g)'
      BY <2>0, <2>3, ServerReaders DEF Reads
    <3>2. UNCHANGED <<groupVars, coordVars, proc>>
      BY <2>3 DEF DataServer, ServerSends, ServerCloses, ServerResets
    <3>3. Ends' /\ SurvivesUntilEnd'
      BY <2>0, <3>2 DEF Ends, SurvivesUntilEnd, groupVars, coordVars
    <3>4. QED
      BY <3>1, <3>3 DEF Safe
  <2>4. CASE UNCHANGED vars
    <3>1. \A g \in Files : Kept(g) /\ conn'[g] = conn[g]
      BY <2>4 DEF vars, groupVars, bufVars, blockVars, readerVars, coordVars, Kept,
         GroupEnded
    <3>2. \A g \in Files : Reads(g)'
      BY <2>0, <3>1, KeptReader DEF Reads
    <3>3. Ends' /\ SurvivesUntilEnd'
      BY <2>0, <2>4 DEF vars, Ends, SurvivesUntilEnd, groupVars, coordVars
    <3>4. QED
      BY <3>2, <3>3 DEF Safe
  <2>5. QED
    BY <2>1, <2>2, <2>3, <2>4 DEF Next
<1>3. QED
  BY <1>1, <1>2, Inductive, PTL DEF Spec

\* A reader in write_buf has a writable buffer, and it has not been freed: for
\* any number of files, sizes and faults.
THEOREM StoresHitLiveMemory == Spec => []StoresAreSafe
<1>1. IInv /\ Safe => StoresAreSafe
  <2> SUFFICES ASSUME TypeOK, Safe, NEW f \in Files, pc[f] = "store"
               PROVE  \E k \in Bufs : Writable(f, k) /\ mem[f][k] = "live"
    BY DEF IInv, StoresAreSafe
  <2>1. Stored(f) < FileSize /\ Filling(f)
    BY DEF Safe, Reads, Call, Armed
  <2>2. xor_size < FileSize
    BY <2>1, AccountTypes, Constants
  <2>3. xor_flag # 1
    BY <2>2, Constants DEF Safe, Ends, TypeOK, GroupType
  <2>4. \A k \in Bufs : mem[f][k] = "live"
    BY <2>3 DEF Safe, Reads, Alive
  <2>5. \E k \in Bufs : Writable(f, k)
    BY <2>1 DEF Filling, Writable, Bufs
  <2>6. QED
    BY <2>4, <2>5
<1>2. QED
  BY <1>1, SafeInductive, PTL

\* Before the group has ended no thread frees a buffer twice or uses a freed
\* one; the process ends early only by a split block header.
THEOREM ProcessSurvives == Spec => []SurvivesUntilEnd
<1>1. Safe => SurvivesUntilEnd
  BY DEF Safe
<1>2. QED
  BY <1>1, SafeInductive, PTL

\* xor_size counts the bytes of the output and never passes file_size: the
\* comparison that ends the transfer cannot be jumped over.
THEOREM XorSizeIsExact == Spec => []XorSizeExact
<1>1. IInv /\ Safe => XorSizeExact
  <2> SUFFICES ASSUME TypeOK, Safe PROVE XorSizeExact
    BY DEF IInv
  <2>1. 0 \in Files
    BY FileIndex, Constants
  <2>2. /\ Stored(0) + Pending(0) + conn[0].unread <= conn[0].sent
        /\ conn[0].sent <= FileSize
    BY <2>1 DEF Safe, Reads, Bytes, Sent
  <2>3. Pending(0) >= 0 /\ Pending(0) \in Int
    BY <2>1, AccountTypes DEF Safe, Reads, Call, Pending
  <2>4. xor_size <= FileSize
    BY <2>1, <2>2, <2>3, AccountTypes, Constants
  <2>5. QED
    BY <2>4 DEF Safe, Ends, XorSizeExact
<1>2. QED
  BY <1>1, SafeInductive, PTL
=============================================================================
