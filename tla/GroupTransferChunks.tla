------------------------ MODULE GroupTransferChunks ------------------------
(***************************************************************************)
(* Proofs about the data of GroupTransfer: that a transfer implements      *)
(* ChunkStream for any number of files, sizes and faults.  The invariant   *)
(* follows the bytes of a file from the socket through the two buffers     *)
(* into the output: write_buf stores them in order, a buffer in use holds  *)
(* the begin of a chunk, a full one a whole chunk, and a byte is in one    *)
(* buffer or in the output, never in two places.                           *)
(***************************************************************************)
EXTENDS GroupTransferMemory

\* The bytes of s are consecutive, from offset a on.
RunFrom(s, a) == \A i \in 1..Len(s) : s[i] = a + i - 1

\* The next byte write_buf stores.
NextByte(f) == file_index[f] + (IF flag[f] = 1 THEN cp_size[f] ELSE 0)

\* The running call of write_buf has the bytes from file_index on, and the socket
\* those that follow, unless the connection was reset.
Follows(f) ==
  /\ flag[f] = 1 => pc[f] \in {"store", "load", "count", "rearm0", "rearm1"}
  /\ InCall(f) => RunFrom(data[f], file_index[f])
  /\ conn[f].st # "rst" => file_index[f] + InFlight(f) + conn[f].unread = conn[f].sent
  /\ conn[f].st = "rst" => conn[f].hdr = 0 /\ conn[f].unread = 0
  /\ pc[f] \in {"none", "connect"} => conn[f].st = "none"

\* Between blocks the socket is empty; inside a block write_index counts what was
\* read of it.
Storing == {"store", "load", "count", "rearm0", "rearm1", "finish"}
Block(f) ==
  /\ conn[f].st \in {"none", "idle"} =>
       conn[f].hdr = 0 /\ conn[f].unread = 0 /\ write_state[f] = 0
  /\ pc[f] \in Storing =>
       /\ conn[f].st \notin {"none", "idle"} /\ conn[f].hdr = 0
       /\ write_state[f] = 0 => conn[f].unread = 0
  /\ write_state[f] = 1 /\ conn[f].st # "rst" =>
       write_total_size[f] = write_index[f] + conn[f].unread

\* Buffer k of file f holds the first bytes of chunk c: those stored so far, or
\* all of them.
Holds(f, k, c) ==
  /\ RunFrom(in_buf[f][k], c * ReadBufSize)
  /\ buf_flag[f][k] = 1 => c * ReadBufSize + Len(in_buf[f][k]) = NextByte(f)
  /\ buf_flag[f][k] = 2 => \/ Len(in_buf[f][k]) = ReadBufSize
                           \/ c * ReadBufSize + Len(in_buf[f][k]) = FileSize

\* Of the two buffers one is filled at a time, and a chunk is begun at its begin.
Chunked(f) ==
  /\ \A k \in Bufs : buf_flag[f][k] # 0 => \E c \in Nat : Holds(f, k, c)
  /\ ~(buf_flag[f][0] = 1 /\ buf_flag[f][1] = 1)
  /\ pc[f] \in {"load", "count", "rearm0", "rearm1"} /\ flag[f] = 1 =>
       \E c \in Nat : NextByte(f) = c * ReadBufSize
  /\ pc[f] \in {"none", "connect", "alloc0", "alloc1"} => NextByte(f) = 0

\* The bytes of file f that wait in buffer k, and those in the output.
BytesIn(f, k) ==
  IF buf_flag[f][k] = 0 \/ Spent(f, k) THEN {}
  ELSE {in_buf[f][k][i] : i \in 1..Len(in_buf[f][k])}
BytesOut(f) == {out[i][f] : i \in 1..Len(out)}

\* A byte is in one place, and only bytes that were stored are in any.
OnePlace(f) ==
  /\ BytesOut(f) \subseteq 0..(NextByte(f) - 1)
  /\ \A k \in Bufs : /\ BytesIn(f, k) \subseteq 0..(NextByte(f) - 1)
                     /\ BytesIn(f, k) \cap BytesOut(f) = {}
  /\ BytesIn(f, 0) \cap BytesIn(f, 1) = {}
  /\ \A i, j \in 1..Len(out) : out[i][f] = out[j][f] => i = j

\* The coordinator has handed no buffer back that it could not XOR.
NoneDropped ==
  cpc \in {"open", "spawn", "poll0", "poll1", "sizes", "xor"} \/ correct_flag = 0

\* Until it does, every byte that was stored is still there.
NoneLost(f) ==
  NoneDropped =>
    \A o \in 0..(NextByte(f) - 1) : o \in BytesOut(f) \cup BytesIn(f, 0) \cup BytesIn(f, 1)

Data(f) == Follows(f) /\ Block(f) /\ Chunked(f) /\ OnePlace(f) /\ NoneLost(f)

\* Of a chunk all bytes are in the output or none.
AllOfChunk(f) ==
  \A o \in BytesOut(f), p \in 0..(FileSize - 1) :
    p \div ReadBufSize = o \div ReadBufSize => p \in BytesOut(f)

NotReturned == cpc # "done" => ret = "none"

Flow ==
  (\A f \in Files : Data(f) /\ AllOfChunk(f)) /\ NotReturned /\ OutputIsWholeChunks

-----------------------------------------------------------------------------
(* Steps that leave a file's bytes where they are.                         *)

\* The bytes of the call, of the buffers and of the output stay.
Still(f) ==
  /\ UNCHANGED <<flag[f], cp_size[f], file_index[f], in_buf[f], buf_flag[f]>>
  /\ UNCHANGED <<out, cpc, ci, ck>>
  /\ correct_flag' = 0 => correct_flag = 0

\* A file that is left alone keeps what is known of its bytes.
LEMMA StillBytes ==
  ASSUME NEW f \in Files, Still(f)
  PROVE  /\ NextByte(f)' = NextByte(f)
         /\ OnePlace(f) => OnePlace(f)'
         /\ NoneLost(f) => NoneLost(f)'
         /\ \A k \in Bufs, c \in Nat : Holds(f, k, c) => Holds(f, k, c)'
<1>1. NextByte(f)' = NextByte(f)
  BY DEF Still, NextByte
<1>2. BytesOut(f)' = BytesOut(f) /\ \A k \in Bufs : BytesIn(f, k)' = BytesIn(f, k)
  BY DEF Still, BytesOut, BytesIn, Spent
<1>3. OnePlace(f) => OnePlace(f)'
  BY <1>1, <1>2 DEF OnePlace, Still, Bufs
<1>4. NoneLost(f) => NoneLost(f)'
  BY <1>1, <1>2 DEF NoneLost, NoneDropped, Still, Bufs
<1>5. \A k \in Bufs, c \in Nat : Holds(f, k, c) => Holds(f, k, c)'
  BY <1>1 DEF Holds, RunFrom, Still
<1>6. QED
  BY <1>1, <1>3, <1>4, <1>5

\* Nothing changes for a file whose reader and connection do nothing.
LEMMA StillData ==
  ASSUME NEW f \in Files, Data(f), Still(f),
         UNCHANGED <<pc[f], data[f], conn[f], write_state[f], write_index[f], write_total_size[f]>>
  PROVE  Data(f)'
<1>1. InCall(f)' = InCall(f) /\ InFlight(f)' = InFlight(f)
  BY DEF Still, InCall, InFlight
<1>2. Follows(f)' /\ Block(f)'
  BY <1>1 DEF Data, Follows, Block, Still, RunFrom
<1>3. Chunked(f)'
  BY StillBytes DEF Data, Chunked, Still
<1>4. QED
  BY <1>2, <1>3, StillBytes DEF Data

\* A reader keeps to its own file.
LEMMA OtherData ==
  ASSUME TypeOK, NEW f \in Files, Reader(f), NEW g \in Files, g # f, Data(g)
  PROVE  Data(g)'
<1>1. Kept(g) /\ conn'[g] = conn[g]
  BY ReaderKeepsOthers
<1>2. out' = out /\ (correct_flag' = 0 => correct_flag = 0)
  BY DEF Reader, Connect, ConnectFails, Alloc, AllocGivesUp, CallbackFrees,
     CallbackReceives, RecvFails, RecvEof, RecvHeader, RecvSplitHeader, RecvMore,
     StoreBrim, StoreFits, Rearm, CountLoad, CountStore, CallbackReturns, groupVars, coordVars
<1>3. Still(g) /\ UNCHANGED <<pc[g], data[g], conn[g]>>
  BY <1>1, <1>2 DEF Still, Kept
<1>4. UNCHANGED <<write_state[g], write_index[g], write_total_size[g]>>
  <2>0. DOMAIN write_state = Files /\ DOMAIN write_index = Files /\ DOMAIN write_total_size = Files
    BY DEF TypeOK, BlockType
  <2>1. write_state' = write_state \/ \E v : write_state' = [write_state EXCEPT ![f] = v]
    BY DEF Reader, Connect, ConnectFails, Alloc, AllocGivesUp, CallbackFrees,
       CallbackReceives, RecvFails, RecvEof, RecvHeader, RecvSplitHeader, RecvMore,
       StoreBrim, StoreFits, Rearm, CountLoad, CountStore, CallbackReturns, blockVars
  <2>2. write_index' = write_index \/ \E v : write_index' = [write_index EXCEPT ![f] = v]
    BY DEF Reader, Connect, ConnectFails, Alloc, AllocGivesUp, CallbackFrees,
       CallbackReceives, RecvFails, RecvEof, RecvHeader, RecvSplitHeader, RecvMore,
       StoreBrim, StoreFits, Rearm, CountLoad, CountStore, CallbackReturns, blockVars
  <2>3. \/ write_total_size' = write_total_size
        \/ \E v : write_total_size' = [write_total_size EXCEPT ![f] = v]
    BY DEF Reader, Connect, ConnectFails, Alloc, AllocGivesUp, CallbackFrees,
       CallbackReceives, RecvFails, RecvEof, RecvHeader, RecvSplitHeader, RecvMore,
       StoreBrim, StoreFits, Rearm, CountLoad, CountStore, CallbackReturns, blockVars
  <2>4. QED
    BY <2>0, <2>1, <2>2, <2>3
<1>5. QED
  BY <1>3, <1>4, StillData

\* The data server sends the next bytes, and no more after a reset.
LEMMA ServerData ==
  ASSUME TypeOK, NEW f \in Files, DataServer(f), NEW g \in Files, Data(g)
  PROVE  Data(g)'
<1>1. Still(g) /\ UNCHANGED <<pc, data, write_state, write_index, write_total_size>>
  BY DEF DataServer, ServerSends, ServerCloses, ServerResets, Still, groupVars, bufVars,
     blockVars, readerVars, coordVars
<1>2. conn \in [Files -> [st : {"none", "idle", "block", "fin", "rst"}, hdr : {0, 1},
                         unread : Nat, sent : Nat]]
  BY DEF TypeOK, ConnType
<1>3. CASE g # f
  <2>1. conn'[g] = conn[g]
    BY <1>2, <1>3 DEF DataServer, ServerSends, ServerCloses, ServerResets
  <2>2. QED
    BY <1>1, <2>1, StillData
<1>4. CASE g = f
  <2>1. /\ conn[f].st \in {"idle", "block", "fin"} /\ conn'[f].st \notin {"none", "idle"}
        /\ conn[f].st # "idle" => conn'[f].st = "rst" \/ conn'[f].hdr = conn[f].hdr
        /\ \/ /\ conn'[f].st # "rst"
              /\ conn[f].st # "idle" => conn'[f].unread = conn[f].unread
              /\ conn'[f].sent - conn'[f].unread = conn[f].sent - conn[f].unread
              /\ conn'[f].sent \in Nat /\ conn'[f].unread \in Nat
           \/ conn'[f].st = "rst" /\ conn'[f].hdr = 0 /\ conn'[f].unread = 0
    <3>1. CASE ServerSends(f)
      <4> DEFINE b == Smaller(BlockLen, FileSize - conn[f].sent)
      <4>1. b \in Nat /\ conn[f].unread = 0
        BY <1>2, <1>4, <3>1, Constants, ConstantsAssumption
          DEF Smaller, ServerSends, Data, Block
      <4>2. conn'[f] = [st |-> "block", hdr |-> 1, unread |-> b, sent |-> conn[f].sent + b]
        BY <1>2, <3>1 DEF ServerSends
      <4> HIDE DEF b
      <4>3. QED
        BY <1>2, <3>1, <4>1, <4>2 DEF ServerSends
    <3>2. CASE ServerCloses(f)
      BY <1>2, <3>2 DEF ServerCloses
    <3>3. CASE ServerResets(f)
      BY <1>2, <3>3 DEF ServerResets
    <3>4. QED
      BY <3>1, <3>2, <3>3 DEF DataServer
  <2>2. InCall(f)' = InCall(f) /\ InFlight(f)' = InFlight(f)
    BY <1>1, <1>4 DEF Still, InCall, InFlight
  <2>3. /\ InFlight(f) \in Nat /\ file_index[f] \in Nat
        /\ conn[f].unread \in Nat /\ conn[f].sent \in Nat
    BY AccountTypes DEF InFlight
  <2>4. Follows(f)' /\ Block(f)'
    <3>1. conn'[f].st # "rst" =>
            file_index'[f] + InFlight(f)' + conn'[f].unread = conn'[f].sent
      BY <1>1, <1>4, <2>1, <2>2, <2>3 DEF Data, Follows, Still
    <3>2. InCall(f)' => RunFrom(data'[f], file_index'[f])
      BY <1>1, <1>4, <2>2 DEF Data, Follows, Still
    <3>3. Follows(f)'
      BY <1>1, <1>4, <2>1, <3>1, <3>2 DEF Data, Follows, Still, RunFrom
    <3>4. pc[f] \in Storing => conn[f].st # "idle"
      BY <1>4 DEF Data, Block
    <3>5. write_state[f] = 1 => conn[f].st # "idle"
      BY <1>4 DEF Data, Block
    <3>6. Block(f)'
      BY <1>1, <1>4, <2>1, <3>4, <3>5 DEF Data, Block
    <3>7. QED
      BY <3>3, <3>6
  <2>5. Chunked(f)'
    BY <1>1, <1>4, StillBytes DEF Data, Chunked, Still
  <2>6. QED
    BY <1>1, <1>4, <2>4, <2>5, StillBytes DEF Data
<1>5. QED
  BY <1>3, <1>4

-----------------------------------------------------------------------------
(* The steps of a reader that store nothing.                               *)

\* Connecting and allocating: buffer 0 is armed for chunk 0.
LEMMA StartData ==
  ASSUME TypeOK, Counters, NEW f \in Files, Reads(f), Data(f),
         \/ Connect(f) \/ ConnectFails(f)
         \/ \E k \in Bufs : Alloc(f, k) \/ AllocGivesUp(f, k)
  PROVE  Data(f)'
<1>0. /\ pc \in [Files -> ReaderPcs] /\ DOMAIN conn = Files /\ buf_flag \in Table(Flags)
      /\ UNCHANGED <<cpc, ci, ck, out, in_buf, file_index, data, flag, cp_size>>
      /\ UNCHANGED <<write_state, write_index, write_total_size>>
      /\ correct_flag' = 0 => correct_flag = 0
  BY BufTables DEF TypeOK, ReaderType, ConnType, Connect, ConnectFails, Alloc, AllocGivesUp,
     groupVars, coordVars, bufVars, blockVars
<1>1. /\ pc[f] \in {"connect", "alloc0", "alloc1"}
      /\ pc'[f] \in {"alloc0", "alloc1", "loop", "exit", "gaveup"}
      /\ flag[f] # 1
  <2>1. pc[f] \in {"connect", "alloc0", "alloc1"}
    BY DEF Connect, ConnectFails, Alloc, AllocGivesUp, AllocPc
  <2>2. pc'[f] \in {"alloc0", "alloc1", "loop", "exit", "gaveup"}
    BY <1>0 DEF Connect, ConnectFails, Alloc, AllocGivesUp, AllocPc, Goto
  <2>3. QED
    BY <2>1, <2>2 DEF Data, Follows
<1>2. /\ ~InCall(f) /\ ~InCall(f)'
      /\ InFlight(f) = 0 /\ InFlight(f)' = 0
  BY <1>1 DEF InCall, InFlight
<1>3. \/ conn'[f] = conn[f] /\ pc[f] # "connect"
      \/ conn'[f] = conn[f] /\ pc'[f] = "exit"
      \/ /\ conn[f].st = "none" /\ conn'[f].st = "idle" /\ pc'[f] = "alloc0"
         /\ conn'[f].hdr = conn[f].hdr /\ conn'[f].unread = conn[f].unread
         /\ conn'[f].sent = conn[f].sent
  <2>1. CASE Connect(f)
    <3>1. pc[f] = "connect" /\ conn' = [conn EXCEPT ![f].st = "idle"] /\ pc'[f] = "alloc0"
      BY <1>0, <2>1 DEF Connect, Goto
    <3>2. conn[f].st = "none"
      BY <3>1 DEF Data, Follows
    <3>3. QED
      BY <1>0, <3>1, <3>2 DEF TypeOK, ConnType
  <2>2. CASE ConnectFails(f)
    BY <1>0, <2>2 DEF ConnectFails, Goto
  <2>3. CASE \E k \in Bufs : Alloc(f, k) \/ AllocGivesUp(f, k)
    BY <2>3 DEF Alloc, AllocGivesUp, AllocPc
  <2>4. QED
    BY <2>1, <2>2, <2>3
<1>4. Follows(f)' /\ Block(f)'
  BY <1>0, <1>1, <1>2, <1>3 DEF Data, Follows, Block, Storing
<1>5. CASE buf_flag' = buf_flag
  <2>1. Still(f)
    BY <1>0, <1>5 DEF Still
  <2>2. Chunked(f)'
    BY <1>0, <1>1, <1>5, <2>1, StillBytes DEF Data, Chunked
  <2>3. QED
    BY <1>4, <2>1, <2>2, StillBytes DEF Data
<1>6. CASE buf_flag' # buf_flag
  <2>1. /\ buf_flag' = [buf_flag EXCEPT ![f] = ArmedFlags]
        /\ pc[f] = "alloc1" /\ pc'[f] = "loop"
    BY <1>0, <1>6 DEF Connect, ConnectFails, Alloc, AllocGivesUp, AllocPc, Goto, bufVars
  <2>2. /\ \A k \in Bufs : in_buf[f][k] = << >> /\ buf_flag[f][k] = 0
        /\ NextByte(f) = 0
    BY <2>1 DEF Reads, Armed, Counters, UnarmedIsEmpty, Data, Chunked
  <2>3. buf_flag'[f][0] = 1 /\ buf_flag'[f][1] = 0 /\ 0 \in Bufs /\ 1 \in Bufs
    BY <1>0, <2>1 DEF ArmedFlags, Table, Bufs
  <2>4. NextByte(f)' = 0
    BY <1>0, <2>2 DEF NextByte
  <2>5. Chunked(f)'
    <3>1. Holds(f, 0, 0)'
      <4>1. in_buf'[f][0] = << >> /\ Len(in_buf'[f][0]) = 0
        BY <1>0, <2>2, <2>3, EmptySeq
      <4>2. 0 * ReadBufSize + 0 = 0
        BY Constants
      <4>3. RunFrom(in_buf'[f][0], 0 * ReadBufSize)
        BY <4>1 DEF RunFrom
      <4>4. QED
        BY <2>3, <2>4, <4>1, <4>2, <4>3 DEF Holds
    <3>2. \A k \in Bufs : buf_flag'[f][k] # 0 => k = 0
      BY <2>3 DEF Bufs
    <3>3. QED
      BY <2>1, <2>3, <3>1, <3>2 DEF Chunked
  <2>6. BytesOut(f)' = BytesOut(f) /\ \A k \in Bufs : BytesIn(f, k)' = {} /\ BytesIn(f, k) = {}
    BY <1>0, <2>2, EmptySeq DEF BytesOut, BytesIn
  <2>7. OnePlace(f)' /\ NoneLost(f)'
    BY <1>0, <2>2, <2>3, <2>4, <2>6 DEF Data, OnePlace, NoneLost, NoneDropped
  <2>8. QED
    BY <1>4, <2>5, <2>7 DEF Data
<1>7. QED
  BY <1>5, <1>6

\* The callback outside recv and write_buf, and the two halves of the increment.
LEMMA CallbackData ==
  ASSUME TypeOK, NEW f \in Files, Data(f), Reads(f),
         \/ CallbackFrees(f) \/ CallbackReceives(f) \/ RecvFails(f) \/ RecvEof(f)
         \/ RecvSplitHeader(f) \/ CallbackReturns(f) \/ CountLoad(f) \/ CountStore(f)
  PROVE  Data(f)'
<1>0. /\ pc \in [Files -> ReaderPcs] /\ DOMAIN conn = Files /\ DOMAIN write_state = Files
      /\ UNCHANGED <<cpc, ci, ck, out, in_buf, buf_flag, file_index, data, flag, cp_size>>
      /\ UNCHANGED <<write_index, write_total_size>>
      /\ correct_flag' = 0 => correct_flag = 0
  BY DEF TypeOK, BlockType, ReaderType, ConnType, CallbackFrees, CallbackReceives,
     RecvFails, RecvEof, RecvSplitHeader, CallbackReturns, CountLoad, CountStore,
     groupVars, coordVars, bufVars, blockVars, readerVars
<1>1. \/ pc'[f] = pc[f]
      \/ pc[f] \in {"loop", "recv", "finish"} /\ pc'[f] \in {"loop", "recv", "exit"}
      \/ pc[f] = "load" /\ pc'[f] = "count"
      \/ pc[f] = "count" /\ pc'[f] = IF flag[f] = 1 THEN "rearm0" ELSE "finish"
  <2>1. CASE CallbackFrees(f) \/ RecvSplitHeader(f)
    BY <2>1 DEF CallbackFrees, RecvSplitHeader, readerVars
  <2>2. CASE CallbackReceives(f) \/ RecvFails(f) \/ RecvEof(f) \/ CallbackReturns(f)
    BY <1>0, <2>2 DEF CallbackReceives, RecvFails, RecvEof, CallbackReturns, EventFires,
       Goto
  <2>3. CASE CountLoad(f) \/ CountStore(f)
    BY <1>0, <2>3 DEF CountLoad, CountStore, Goto
  <2>4. QED
    BY <2>1, <2>2, <2>3
<1>2. Still(f)
  BY <1>0 DEF Still
<1>3. InCall(f)' = InCall(f) /\ InFlight(f)' = InFlight(f)
  <2>1. InCall(f)' = InCall(f)
    BY <1>0, <1>1 DEF InCall
  <2>2. QED
    BY <1>0, <2>1 DEF InFlight
<1>4. /\ conn'[f].sent = conn[f].sent /\ conn'[f].unread = conn[f].unread
      /\ conn'[f].hdr = conn[f].hdr
      /\ \/ conn'[f].st = conn[f].st
         \/ /\ conn'[f].st = "idle" /\ conn[f].st = "block"
            /\ pc[f] = "finish" /\ pc'[f] = "loop" /\ write_state[f] = 0 /\ write_state' = write_state
  <2>1. CASE CallbackReturns(f) /\ conn' # conn
    <3>1. /\ pc[f] = "finish" /\ pc'[f] = "loop" /\ write_state[f] = 0 /\ conn[f].st = "block"
          /\ write_state' = write_state
          /\ conn' = [conn EXCEPT ![f].st = "idle"]
      BY <1>0, <2>1 DEF CallbackReturns, Goto, blockVars
    <3>2. QED
      BY <1>0, <3>1 DEF TypeOK, ConnType
  <2>2. CASE conn' = conn
    BY <2>2
  <2>3. QED
    BY <2>1, <2>2 DEF CallbackFrees, CallbackReceives, RecvFails, RecvEof, RecvSplitHeader,
       CountLoad, CountStore
<1>5. \/ write_state'[f] = write_state[f]
      \/ write_state'[f] = 0 /\ pc[f] = "recv" /\ pc'[f] \in {"loop", "exit"}
  <2>1. CASE RecvEof(f)
    BY <1>0, <2>1 DEF RecvEof, Goto
  <2>2. CASE ~RecvEof(f)
    BY <2>2 DEF CallbackFrees, CallbackReceives, RecvFails, RecvSplitHeader, CallbackReturns,
       CountLoad, CountStore, blockVars
  <2>3. QED
    BY <2>1, <2>2
<1>6. flag[f] = 1 => pc[f] \in {"load", "count"} \/ pc'[f] = pc[f]
  BY <1>1 DEF Data, Follows
<1>7. Follows(f)'
  BY <1>0, <1>1, <1>3, <1>4, <1>6 DEF Data, Follows, RunFrom
<1>8. Block(f)'
  <2>1. CASE conn'[f].st = conn[f].st
    BY <1>0, <1>1, <1>4, <1>5, <2>1 DEF Data, Block, Storing
  <2>2. CASE conn'[f].st = "idle" /\ conn[f].st = "block"
    BY <1>0, <1>4, <2>2 DEF Data, Block, Storing
  <2>3. QED
    BY <1>4, <2>1, <2>2
<1>9. Chunked(f)'
  <2>1. NextByte(f)' = NextByte(f)
    BY <1>2, StillBytes
  <2>2. pc'[f] \in {"load", "count", "rearm0", "rearm1"} /\ flag'[f] = 1 =>
          pc[f] \in {"load", "count", "rearm0", "rearm1"} /\ flag[f] = 1
    BY <1>0, <1>1
  <2>3. pc'[f] \in {"none", "connect", "alloc0", "alloc1"} =>
          pc[f] \in {"none", "connect", "alloc0", "alloc1"}
    BY <1>1
  <2>4. QED
    BY <1>0, <1>2, <2>1, <2>2, <2>3, StillBytes DEF Data, Chunked
<1>10. QED
  BY <1>2, <1>7, <1>8, <1>9, StillBytes DEF Data

\* The next bytes of the file leave the socket.
LEMMA ReceiveData ==
  ASSUME TypeOK, NEW f \in Files, Reads(f), Data(f), RecvHeader(f) \/ RecvMore(f)
  PROVE  Data(f)'
<1>0. /\ pc \in [Files -> ReaderPcs] /\ DOMAIN data = Files /\ DOMAIN flag = Files
      /\ DOMAIN conn = Files /\ conn[f].unread \in Nat /\ conn[f].sent \in Nat
      /\ conn[f].sent - conn[f].unread \in Nat /\ flag[f] \in {0, 1}
      /\ file_index[f] \in Nat
      /\ DOMAIN write_state = Files /\ DOMAIN write_index = Files
      /\ DOMAIN write_total_size = Files /\ write_index[f] \in Nat /\ write_total_size[f] \in Nat
  BY DEF TypeOK, ReaderType, ConnType, BlockType
<1>1. PICK n \in Nat :
        /\ n <= conn[f].unread /\ Take(f, n)
        /\ \/ /\ write_state[f] = 0
              /\ \/ n = conn[f].unread /\ write_state' = write_state
                 \/ /\ write_state'[f] = 1 /\ write_index'[f] = n
                    /\ write_total_size'[f] = conn[f].unread
           \/ /\ write_state[f] = 1
              /\ \/ /\ write_total_size[f] <= n + write_index[f]
                    /\ write_state'[f] = 0
                 \/ /\ write_index'[f] = write_index[f] + n
                    /\ write_state' = write_state /\ write_total_size' = write_total_size
  <2>0. \A n \in 0..Smaller(MaxLine, conn[f].unread) : n \in Nat /\ n <= conn[f].unread
    BY <1>0, Constants DEF Smaller
  <2>1. CASE RecvHeader(f)
    BY <1>0, <2>0, <2>1 DEF RecvHeader
  <2>2. CASE RecvMore(f)
    BY <1>0, <2>0, <2>2 DEF RecvMore
  <2>3. QED
    BY <2>1, <2>2
<1>2. pc[f] = "recv" /\ (conn[f].hdr = 1 \/ conn[f].unread > 0)
  BY DEF RecvHeader, RecvMore
<1>3. conn[f].st \notin {"none", "idle", "rst"}
  BY <1>2 DEF Data, Follows, Block
<1>4. /\ UNCHANGED <<cpc, ci, ck, out, buf_flag, in_buf, file_index, cp_size>>
      /\ correct_flag' = correct_flag
  BY DEF RecvHeader, RecvMore, groupVars, bufVars, coordVars
<1>5. flag[f] = 0 /\ ~InCall(f) /\ InFlight(f) = 0
  BY <1>0, <1>2 DEF Data, Follows, InCall, InFlight
<1>6. /\ pc'[f] = "store" /\ flag'[f] = 0
      /\ data'[f] = Offsets(conn[f].sent - conn[f].unread, n)
      /\ conn'[f].hdr = 0 /\ conn'[f].unread = conn[f].unread - n
      /\ conn'[f].sent = conn[f].sent /\ conn'[f].st = conn[f].st
  <2>1. /\ pc'[f] = "store" /\ flag'[f] = 0
        /\ data'[f] = Offsets(conn[f].sent - conn[f].unread, n)
    BY <1>0, <1>1 DEF Take, Goto
  <2>2. /\ conn'[f].hdr = 0 /\ conn'[f].unread = conn[f].unread - n
        /\ conn'[f].sent = conn[f].sent /\ conn'[f].st = conn[f].st
    BY <1>0, <1>1 DEF Take, TypeOK, ConnType
  <2>3. QED
    BY <2>1, <2>2
<1>7. file_index[f] = conn[f].sent - conn[f].unread
  BY <1>0, <1>3, <1>5 DEF Data, Follows
<1>8. Len(data'[f]) = n /\ RunFrom(data'[f], file_index[f])
  <2>1. Len(Offsets(file_index[f], n)) = n
    BY <1>0, OffsetsType
  <2>2. QED
    BY <1>6, <1>7, <2>1 DEF Offsets, RunFrom
<1>9. InCall(f)' /\ InFlight(f)' = n
  BY <1>6, <1>8 DEF InCall, InFlight
<1>10. Follows(f)'
  <2>1. file_index'[f] + InFlight(f)' + conn'[f].unread = conn'[f].sent
    BY <1>0, <1>1, <1>4, <1>6, <1>7, <1>9
  <2>2. RunFrom(data'[f], file_index'[f])
    BY <1>4, <1>8
  <2>3. QED
    BY <1>3, <1>6, <2>1, <2>2 DEF Follows, RunFrom
<1>11. Block(f)'
  <2>1. CASE write_state[f] = 0
    BY <1>0, <1>1, <1>3, <1>6, <2>1 DEF Block, Storing
  <2>2. CASE write_state[f] = 1
    <3>1. write_total_size[f] = write_index[f] + conn[f].unread
      BY <1>3, <2>2 DEF Data, Block
    <3>2. CASE write_total_size[f] <= n + write_index[f] /\ write_state'[f] = 0
      <4>1. n = conn[f].unread
        BY <1>0, <1>1, <3>1, <3>2
      <4>2. QED
        BY <1>0, <1>3, <1>6, <3>2, <4>1 DEF Block, Storing
    <3>3. CASE /\ write_index'[f] = write_index[f] + n
               /\ write_state' = write_state /\ write_total_size' = write_total_size
      BY <1>0, <1>1, <1>3, <1>6, <2>2, <3>1, <3>3 DEF Block, Storing
    <3>4. QED
      BY <1>1, <2>2, <3>2, <3>3
  <2>3. QED
    BY <1>1, <2>1, <2>2
<1>12. Still(f)
  BY <1>4, <1>5, <1>6 DEF Still
<1>13. Chunked(f)'
  BY <1>4, <1>6, <1>12, StillBytes DEF Data, Chunked
<1>14. QED
  BY <1>10, <1>11, <1>12, <1>13, StillBytes DEF Data

\* A buffer is cleared that held nothing any more; the chunk that is stored into
\* it begins with the next byte.
LEMMA RearmData ==
  ASSUME TypeOK, Counters, NEW f \in Files, NEW k \in Bufs, Reads(f), Data(f), Rearm(f, k)
  PROVE  Data(f)'
<1>0. /\ pc \in [Files -> ReaderPcs] /\ buf_flag \in Table(Flags) /\ in_buf \in Table(Contents)
      /\ UNCHANGED <<cpc, ci, ck, out, data, conn, flag, cp_size, file_index>>
      /\ UNCHANGED <<correct_flag, write_state, write_index, write_total_size>>
  BY BufTables DEF TypeOK, ReaderType, Rearm, groupVars, blockVars, coordVars
<1>1. pc[f] \in {"rearm0", "rearm1"} /\ flag[f] = 1
  BY DEF Rearm, RearmPc, Reads, Call
<1>2. \/ /\ pc'[f] = "store" /\ buf_flag[f][k] = 0
         /\ \A j \in Bufs : j # k => buf_flag'[f][j] # 1
         /\ buf_flag'[f][k] = 1 /\ in_buf'[f][k] = << >>
         /\ \A j \in Bufs : j # k => buf_flag'[f][j] = buf_flag[f][j] /\ in_buf'[f][j] = in_buf[f][j]
      \/ pc'[f] \in {"rearm0", "rearm1"} /\ UNCHANGED <<buf_flag, in_buf>>
  BY <1>0 DEF Rearm, RearmPc, Goto, Table, Bufs
<1>3. InCall(f)' /\ InCall(f) /\ InFlight(f)' = InFlight(f)
  BY <1>0, <1>1, <1>2 DEF InCall, InFlight
<1>4. Follows(f)' /\ Block(f)'
  BY <1>0, <1>1, <1>2, <1>3 DEF Data, Follows, Block, Storing, RunFrom
<1>5. NextByte(f)' = NextByte(f)
  BY <1>0 DEF NextByte
<1>6. CASE UNCHANGED <<buf_flag, in_buf>>
  <2>1. Still(f)
    BY <1>0, <1>6 DEF Still
  <2>2. pc'[f] \in {"rearm0", "rearm1", "store"}
    BY <1>2
  <2>3. Chunked(f)'
    BY <1>0, <1>1, <1>6, <2>1, <2>2, StillBytes DEF Data, Chunked
  <2>4. QED
    BY <1>4, <2>1, <2>3, StillBytes DEF Data
<1>7. CASE ~UNCHANGED <<buf_flag, in_buf>>
  <2>1. PICK c \in Nat : NextByte(f) = c * ReadBufSize
    BY <1>1 DEF Data, Chunked
  <2>2. Holds(f, k, c)'
    <3>1. Len(in_buf'[f][k]) = 0 /\ buf_flag'[f][k] = 1
      BY <1>2, <1>7, EmptySeq
    <3>2. c * ReadBufSize + 0 = c * ReadBufSize
      BY Constants
    <3>3. RunFrom(in_buf'[f][k], c * ReadBufSize)
      BY <3>1 DEF RunFrom
    <3>4. QED
      BY <1>5, <2>1, <3>1, <3>2, <3>3 DEF Holds
  <2>3. \A j \in Bufs, d \in Nat : j # k /\ Holds(f, j, d) => Holds(f, j, d)'
    BY <1>2, <1>5, <1>7 DEF Holds, RunFrom
  <2>4. Chunked(f)'
    <3>1. \A j \in Bufs : buf_flag'[f][j] # 0 => \E d \in Nat : Holds(f, j, d)'
      BY <1>2, <1>7, <2>2, <2>3 DEF Data, Chunked
    <3>2. ~(buf_flag'[f][0] = 1 /\ buf_flag'[f][1] = 1)
      BY <1>2, <1>7 DEF Bufs
    <3>3. pc'[f] = "store"
      BY <1>2, <1>7
    <3>4. QED
      BY <3>1, <3>2, <3>3 DEF Chunked
  <2>5. BytesOut(f)' = BytesOut(f) /\ \A j \in Bufs : BytesIn(f, j)' = BytesIn(f, j)
    <3>1. \A j \in Bufs : Spent(f, j)' = Spent(f, j)
      BY <1>0 DEF Spent
    <3>2. BytesIn(f, k)' = {} /\ BytesIn(f, k) = {}
      BY <1>2, <1>7, EmptySeq DEF BytesIn
    <3>3. ASSUME NEW j \in Bufs, j # k
          PROVE  BytesIn(f, j)' = BytesIn(f, j)
      <4>1. buf_flag'[f][j] = buf_flag[f][j] /\ in_buf'[f][j] = in_buf[f][j]
        BY <1>2, <1>7, <3>3
      <4>2. QED
        BY <3>1, <4>1 DEF BytesIn
    <3>4. QED
      BY <1>0, <3>2, <3>3 DEF BytesOut
  <2>6. OnePlace(f)' /\ NoneLost(f)'
    BY <1>0, <1>5, <2>5 DEF Data, OnePlace, NoneLost, NoneDropped, Bufs
  <2>7. QED
    BY <1>4, <2>4, <2>6 DEF Data
<1>8. QED
  BY <1>6, <1>7

-----------------------------------------------------------------------------
(* The stores.                                                             *)

\* Where the next byte is stored.
LEMMA NextByteType ==
  ASSUME TypeOK, NEW f \in Files
  PROVE  NextByte(f) \in Nat
BY AccountTypes DEF NextByte

\* Bytes that follow the stored ones are appended to the buffer in use.
LEMMA StoreBytes ==
  ASSUME TypeOK, NEW f \in Files, NEW k \in Bufs, Data(f), StoreKeeps(f, k), out' = out,
         NEW s \in Seq(Nat), in_buf'[f][k] = in_buf[f][k] \o s,
         RunFrom(s, NextByte(f)), NextByte(f)' = NextByte(f) + Len(s),
         buf_flag'[f][k] # 0, NEW c \in Nat, Holds(f, k, c)
  PROVE  /\ OnePlace(f)' /\ NoneLost(f)'
         /\ RunFrom(in_buf'[f][k], c * ReadBufSize)
         /\ NextByte(f)' = c * ReadBufSize + Len(in_buf'[f][k])
         /\ \A j \in Bufs, d \in Nat : j # k /\ Holds(f, j, d) => Holds(f, j, d)'
<1> DEFINE a == in_buf[f][k]
           b == in_buf'[f][k]
           n == NextByte(f)
           base == c * ReadBufSize
           new == n..(n + Len(s) - 1)
<1>1. a \in Seq(Nat) /\ Len(a) \in Nat /\ Len(s) \in Nat
  BY LenProperties DEF TypeOK, BufType
<1>2. /\ b = a \o s /\ Len(b) = Len(a) + Len(s)
      /\ \A j \in Bufs : j # k => in_buf'[f][j] = in_buf[f][j]
  BY <1>1, ConcatProperties DEF StoreKeeps
<1>3. n \in Nat /\ base \in Nat /\ n = base + Len(a)
  <2>1. n \in Nat /\ base \in Nat
    BY NextByteType, Constants
  <2>2. n = base + Len(a)
    BY DEF Holds, StoreKeeps
  <2>3. QED
    BY <2>1, <2>2
<1>4. RunFrom(a, base) /\ RunFrom(s, n) /\ NextByte(f)' = n + Len(s)
  BY DEF Holds
<1>5. \A i \in 1..Len(b) : b[i] = IF i <= Len(a) THEN a[i] ELSE s[i - Len(a)]
  <2>1. \A i \in 1..(Len(a) + Len(s)) : (a \o s)[i] = IF i <= Len(a) THEN a[i] ELSE s[i - Len(a)]
    BY <1>1, ConcatProperties
  <2>2. QED
    BY <1>2, <2>1
<1> HIDE DEF a, b, n, base
<1>6. RunFrom(b, base)
  <2> SUFFICES ASSUME NEW i \in 1..Len(b) PROVE b[i] = base + i - 1
    BY DEF RunFrom
  <2>1. CASE i <= Len(a)
    BY <1>1, <1>4, <1>5, <2>1 DEF RunFrom
  <2>2. CASE ~(i <= Len(a))
    <3>1. i - Len(a) \in 1..Len(s)
      BY <1>1, <1>2, <2>2
    <3>2. s[i - Len(a)] = n + (i - Len(a)) - 1
      BY <1>4, <3>1 DEF RunFrom
    <3>3. b[i] = s[i - Len(a)]
      BY <1>5, <2>2
    <3>4. QED
      BY <1>1, <1>3, <3>2, <3>3
  <2>3. QED
    BY <2>1, <2>2
<1>7. NextByte(f)' = base + Len(b)
  BY <1>1, <1>2, <1>3, <1>4
<1>8. \A j \in Bufs, d \in Nat : j # k /\ Holds(f, j, d) => Holds(f, j, d)'
  <2> SUFFICES ASSUME NEW j \in Bufs, NEW d \in Nat, j # k, Holds(f, j, d)
               PROVE  Holds(f, j, d)'
    OBVIOUS
  <2>1. buf_flag[f][j] # 1
    BY DEF Data, Chunked, StoreKeeps, Bufs
  <2>2. buf_flag'[f][j] = buf_flag[f][j] /\ in_buf'[f][j] = in_buf[f][j]
    BY DEF StoreKeeps
  <2>3. QED
    BY <2>1, <2>2 DEF Holds, RunFrom
<1>9. BytesIn(f, k)' = BytesIn(f, k) \cup new
  <2>1. /\ BytesIn(f, k) = {a[i] : i \in 1..Len(a)}
        /\ BytesIn(f, k)' = {b[i] : i \in 1..Len(b)}
    BY DEF BytesIn, StoreKeeps, a, b
  <2>2. ASSUME NEW i \in 1..Len(b) PROVE b[i] \in {a[j] : j \in 1..Len(a)} \cup new
    <3>1. CASE i <= Len(a)
      <4>1. i \in 1..Len(a) /\ b[i] = a[i]
        BY <1>1, <1>5, <3>1
      <4>2. QED
        BY <4>1
    <3>2. CASE ~(i <= Len(a))
      <4>1. b[i] = base + i - 1
        BY <1>6 DEF RunFrom
      <4>2. b[i] \in new
        BY <1>1, <1>2, <1>3, <3>2, <4>1
      <4>3. QED
        BY <4>2
    <3>3. QED
      BY <3>1, <3>2
  <2>3. ASSUME NEW i \in 1..Len(a) PROVE a[i] \in {b[j] : j \in 1..Len(b)}
    <3>1. i \in 1..Len(b) /\ b[i] = a[i]
      BY <1>1, <1>2, <1>5
    <3>2. QED
      BY <3>1
  <2>4. ASSUME NEW o \in new PROVE o \in {b[j] : j \in 1..Len(b)}
    <3>1. o - base + 1 \in 1..Len(b) /\ o \in Int
      BY <1>1, <1>2, <1>3
    <3>2. b[o - base + 1] = base + (o - base + 1) - 1
      BY <1>6, <3>1 DEF RunFrom
    <3>3. b[o - base + 1] = o
      BY <1>3, <3>1, <3>2
    <3>4. QED
      BY <3>1, <3>3
  <2>5. QED
    BY <2>1, <2>2, <2>3, <2>4
<1>10. /\ BytesOut(f)' = BytesOut(f)
       /\ \A j \in Bufs : j # k => BytesIn(f, j)' = BytesIn(f, j)
  BY DEF BytesOut, BytesIn, Spent, StoreKeeps
<1>11. \A o \in 0..(n - 1) : o \in 0..(NextByte(f)' - 1) /\ o \notin new
  BY <1>1, <1>3, <1>4
<1>12. new \subseteq 0..(NextByte(f)' - 1)
  BY <1>1, <1>3, <1>4
<1>13. \A o \in 0..(NextByte(f)' - 1) : o \in 0..(n - 1) \/ o \in new
  BY <1>1, <1>3, <1>4
<1> HIDE DEF new
<1>14. /\ BytesOut(f) \subseteq 0..(n - 1)
       /\ \A j \in Bufs : BytesIn(f, j) \subseteq 0..(n - 1) /\ BytesIn(f, j) \cap BytesOut(f) = {}
       /\ BytesIn(f, 0) \cap BytesIn(f, 1) = {}
  BY DEF Data, OnePlace, n
<1>15. OnePlace(f)'
  <2>1. \A j \in Bufs : BytesIn(f, j)' = BytesIn(f, j) \/ BytesIn(f, j)' = BytesIn(f, j) \cup new
    BY <1>9, <1>10
  <2>2. BytesOut(f)' \subseteq 0..(NextByte(f)' - 1)
    BY <1>10, <1>11, <1>14
  <2>3. \A j \in Bufs : BytesIn(f, j)' \subseteq 0..(NextByte(f)' - 1)
    BY <1>11, <1>12, <1>14, <2>1
  <2>4. \A j \in Bufs : BytesIn(f, j)' \cap BytesOut(f)' = {}
    BY <1>10, <1>11, <1>14, <2>1
  <2>5. BytesIn(f, 0)' \cap BytesIn(f, 1)' = {}
    BY <1>9, <1>10, <1>11, <1>14 DEF Bufs
  <2>6. \A i, j \in 1..Len(out') : out'[i][f] = out'[j][f] => i = j
    BY DEF Data, OnePlace
  <2>7. QED
    BY <2>2, <2>3, <2>4, <2>5, <2>6 DEF OnePlace
<1>16. NoneLost(f)'
  <2>1. NoneDropped' => NoneDropped
    BY DEF NoneDropped, StoreKeeps
  <2>2. NoneDropped => \A o \in 0..(n - 1) : o \in BytesOut(f) \cup BytesIn(f, 0) \cup BytesIn(f, 1)
    BY DEF Data, NoneLost, n
  <2>3. NoneDropped =>
          \A o \in 0..(NextByte(f)' - 1) : o \in BytesOut(f)' \cup BytesIn(f, 0)' \cup BytesIn(f, 1)'
    BY <1>9, <1>10, <1>13, <2>2 DEF Bufs
  <2>4. QED
    BY <2>1, <2>3 DEF NoneLost
<1>17. QED
  BY <1>6, <1>7, <1>8, <1>15, <1>16 DEF b, base

\* A full buffer holds a whole chunk, and the rest of the call begins the next one.
LEMMA BrimData ==
  ASSUME TypeOK, Counters, NEW f \in Files, NEW k \in Bufs, Reads(f), Data(f), StoreBrim(f, k)
  PROVE  Data(f)'
<1> DEFINE r == Room(f, k)
           s == SubSeq(data[f], 1, r)
<1>0. /\ pc \in [Files -> ReaderPcs] /\ DOMAIN flag = Files /\ DOMAIN cp_size = Files
      /\ flag[f] \in {0, 1} /\ buf_flag \in Table(Flags)
      /\ data[f] \in Seq(Nat) /\ file_index[f] \in Nat
  BY BufTables DEF TypeOK, ReaderType, BlockType
<1>1. /\ r \in Nat /\ r < Len(data[f]) /\ s \in Seq(Nat) /\ Len(s) = r
      /\ Len(in_buf[f][k]) + r = ReadBufSize /\ Len(data[f]) \in Nat
      /\ in_buf'[f][k] = in_buf[f][k] \o s
      /\ Len(in_buf'[f][k]) = ReadBufSize
  <2>1. /\ r \in Nat /\ r < Len(data[f]) /\ s \in Seq(Nat) /\ Len(s) = r
        /\ Len(in_buf[f][k]) + r = ReadBufSize /\ Len(data[f]) \in Nat
    BY BrimEffect, AccountTypes
  <2>2. in_buf' = [in_buf EXCEPT ![f][k] = @ \o s]
    BY DEF StoreBrim
  <2> HIDE DEF s, r
  <2>3. in_buf'[f][k] = in_buf[f][k] \o s /\ Len(in_buf'[f][k]) = Len(in_buf[f][k]) + Len(s)
    BY <2>1, <2>2, AppendEffect
  <2>4. QED
    BY <2>1, <2>3
<1>2. StoreKeeps(f, k)
  BY StoresKeep
<1>3. flag[f] = 0
  <2>1. flag[f] = 1 => in_buf[f][k] = << >>
    BY <1>2 DEF Reads, Call, StoreKeeps
  <2>2. Len(data[f]) <= MaxLine
    BY DEF TypeOK, ReaderType
  <2>3. in_buf[f][k] = << >> => Fits(f, k)
    BY <1>1, <2>2, EmptySeq, Constants DEF Fits
  <2>4. QED
    BY <1>0, <2>1, <2>3 DEF StoreBrim
<1>4. /\ pc[f] = "store" /\ pc'[f] = "load" /\ flag'[f] = 1 /\ cp_size'[f] = r
      /\ buf_flag'[f][k] = 2 /\ \A j \in Bufs : j # k => buf_flag'[f][j] = buf_flag[f][j]
      /\ UNCHANGED <<data, file_index, conn, out, write_state, write_index, write_total_size>>
  BY <1>0 DEF StoreBrim, Goto, Table, blockVars, coordVars
<1>5. RunFrom(s, file_index[f])
  <2>1. RunFrom(data[f], file_index[f])
    BY <1>4 DEF Data, Follows, InCall
  <2>2. \A i \in 1..r : i \in 1..Len(data[f])
    BY <1>1
  <2>3. \A i \in 1..r : s[i] = data[f][i]
    <3>0. \A i \in 1..r : data[f][i] \in Nat
      BY <1>0, <2>2, ElementOfSeq
    <3>1. \A i \in 1..(r - 1 + 1) : SubSeq(data[f], 1, r)[i] = data[f][1 + i - 1]
      BY <1>1, <3>0, SubSeqProperties, 1 \in Int, r \in Int
    <3>2. QED
      BY <1>1, <3>1
  <2> HIDE DEF s, r
  <2>4. QED
    BY <1>1, <2>1, <2>2, <2>3 DEF RunFrom
<1> HIDE DEF s, r
<1>6. NextByte(f) = file_index[f] /\ NextByte(f)' = NextByte(f) + r
  BY <1>0, <1>1, <1>3, <1>4 DEF NextByte
<1>7. PICK c \in Nat : Holds(f, k, c)
  BY <1>2 DEF Data, Chunked, StoreKeeps
<1>8. /\ OnePlace(f)' /\ NoneLost(f)'
      /\ RunFrom(in_buf'[f][k], c * ReadBufSize)
      /\ NextByte(f)' = c * ReadBufSize + Len(in_buf'[f][k])
      /\ \A j \in Bufs, d \in Nat : j # k /\ Holds(f, j, d) => Holds(f, j, d)'
  <2>1. s \in Seq(Nat) /\ in_buf'[f][k] = in_buf[f][k] \o s
    BY <1>1
  <2>2. /\ RunFrom(s, NextByte(f)) /\ NextByte(f)' = NextByte(f) + Len(s)
        /\ out' = out /\ buf_flag'[f][k] # 0
    BY <1>1, <1>4, <1>5, <1>6
  <2>3. QED
    BY <1>2, <1>7, <2>1, <2>2, StoreBytes
<1>9. Len(in_buf'[f][k]) = ReadBufSize
  BY <1>1
<1>10. Chunked(f)'
  <2>1. Holds(f, k, c)'
    BY <1>4, <1>8, <1>9 DEF Holds
  <2>2. \A j \in Bufs : buf_flag'[f][j] # 0 => \E d \in Nat : Holds(f, j, d)'
    BY <1>4, <1>8, <2>1 DEF Data, Chunked
  <2>3. ~(buf_flag'[f][0] = 1 /\ buf_flag'[f][1] = 1)
    BY <1>4 DEF Bufs
  <2>4. NextByte(f)' = (c + 1) * ReadBufSize /\ c + 1 \in Nat
    BY <1>8, <1>9, Constants
  <2>5. QED
    BY <1>4, <2>2, <2>3, <2>4 DEF Chunked
<1>11. InCall(f) /\ InCall(f)' /\ InFlight(f)' = InFlight(f)
  BY <1>4 DEF InCall, InFlight
<1>12. Follows(f)' /\ Block(f)'
  BY <1>4, <1>11 DEF Data, Follows, Block, Storing, RunFrom
<1>13. QED
  BY <1>8, <1>10, <1>12 DEF Data

\* The rest of the call continues the chunk, and the last byte of the file ends
\* the last one.
LEMMA FitsData ==
  ASSUME TypeOK, Counters, NEW f \in Files, NEW k \in Bufs, Reads(f), Data(f), StoreFits(f, k)
  PROVE  Data(f)'
<1> DEFINE s == Rest(f)
           p == IF flag[f] = 1 THEN cp_size[f] ELSE 0
<1>0. /\ pc \in [Files -> ReaderPcs] /\ DOMAIN flag = Files /\ DOMAIN file_index = Files
      /\ flag[f] \in {0, 1} /\ buf_flag \in Table(Flags)
      /\ data[f] \in Seq(Nat) /\ file_index[f] \in Nat /\ Len(data[f]) \in Nat
      /\ p \in Nat
  BY BufTables, AccountTypes DEF TypeOK, ReaderType, BlockType
<1>1. StoreKeeps(f, k)
  BY StoresKeep
<1>2. flag[f] = 1 => cp_size[f] < Len(data[f])
  BY <1>1 DEF Reads, Call, InCall, StoreKeeps
<1>3. s \in Seq(Nat) /\ Len(s) = Len(data[f]) - p
  BY <1>2, FitsEffect
<1>4. /\ pc[f] = "store" /\ flag'[f] = 0
      /\ in_buf'[f][k] = in_buf[f][k] \o s
      /\ file_index'[f] = file_index[f] + Len(data[f])
      /\ \A j \in Bufs : j # k => buf_flag'[f][j] = buf_flag[f][j]
      /\ UNCHANGED <<data, conn, out, write_state, write_index, write_total_size>>
      /\ \/ file_index'[f] >= FileSize /\ pc'[f] = "load" /\ buf_flag'[f][k] = 2
         \/ pc'[f] = "finish" /\ buf_flag'[f][k] = 1
  <2>1. in_buf' = [in_buf EXCEPT ![f][k] = @ \o s]
    BY DEF StoreFits
  <2> HIDE DEF s
  <2>2. in_buf'[f][k] = in_buf[f][k] \o s
    BY <1>3, <2>1, AppendEffect
  <2>3. QED
    BY <1>0, <1>1, <2>2 DEF StoreFits, StoreKeeps, Goto, Table, coordVars
<1>5. RunFrom(s, file_index[f] + p)
  <2>1. RunFrom(data[f], file_index[f])
    BY <1>4 DEF Data, Follows, InCall
  <2>2. \A i \in 1..Len(s) : i + p \in 1..Len(data[f]) /\ s[i] = data[f][i + p]
    <3>1. CASE flag[f] = 1
      <4>1. cp_size[f] + 1 \in 1..Len(data[f]) /\ Len(data[f]) \in 1..Len(data[f])
        BY <1>0, <1>2, <3>1
      <4>2. \A i \in 1..(Len(data[f]) - (cp_size[f] + 1) + 1) :
              SubSeq(data[f], cp_size[f] + 1, Len(data[f]))[i] = data[f][(cp_size[f] + 1) + i - 1]
        <5>1. \A i \in (cp_size[f] + 1)..Len(data[f]) : data[f][i] \in Nat
          <6>1. \A i \in (cp_size[f] + 1)..Len(data[f]) : i \in 1..Len(data[f])
            BY <4>1
          <6>2. QED
            BY <1>0, <6>1, ElementOfSeq
        <5>2. cp_size[f] + 1 \in Int /\ Len(data[f]) \in Int
          BY <1>0, <4>1
        <5>3. QED
          BY <5>1, <5>2, SubSeqProperties
      <4>3. Len(data[f]) - (cp_size[f] + 1) + 1 = Len(s) /\ p = cp_size[f]
        BY <1>0, <1>3, <3>1
      <4>4. s = SubSeq(data[f], cp_size[f] + 1, Len(data[f]))
        BY <3>1 DEF Rest
      <4> HIDE DEF s, p
      <4>5. \A i \in 1..Len(s) : s[i] = data[f][(p + 1) + i - 1]
        BY <4>2, <4>3, <4>4
      <4>6. QED
        BY <1>0, <1>3, <4>5
    <3>2. CASE flag[f] # 1
      BY <1>0, <1>3, <3>2 DEF Rest
    <3>3. QED
      BY <3>1, <3>2
  <2> HIDE DEF s, p
  <2>3. QED
    BY <1>0, <1>3, <2>1, <2>2 DEF RunFrom
<1>6. NextByte(f) = file_index[f] + p /\ NextByte(f)' = file_index'[f]
  BY <1>0, <1>4 DEF NextByte
<1> HIDE DEF s, p
<1>7. NextByte(f)' = NextByte(f) + Len(s)
  BY <1>0, <1>3, <1>4, <1>6
<1>8. PICK c \in Nat : Holds(f, k, c)
  BY <1>1 DEF Data, Chunked, StoreKeeps
<1>9. /\ OnePlace(f)' /\ NoneLost(f)'
      /\ RunFrom(in_buf'[f][k], c * ReadBufSize)
      /\ NextByte(f)' = c * ReadBufSize + Len(in_buf'[f][k])
      /\ \A j \in Bufs, d \in Nat : j # k /\ Holds(f, j, d) => Holds(f, j, d)'
  <2>1. s \in Seq(Nat) /\ in_buf'[f][k] = in_buf[f][k] \o s
    BY <1>3, <1>4
  <2>2. RunFrom(s, NextByte(f)) /\ out' = out /\ buf_flag'[f][k] # 0
    BY <1>4, <1>5, <1>6
  <2>3. QED
    BY <1>1, <1>7, <1>8, <2>1, <2>2, StoreBytes
<1>10. InFlight(f) = Len(data[f]) /\ ~InCall(f)' /\ InFlight(f)' = 0
  BY <1>4 DEF InCall, InFlight
<1>11. file_index'[f] <= FileSize
  <2>1. conn[f].unread \in Nat /\ conn[f].sent \in Nat /\ FileSize \in Nat
    BY AccountTypes, Constants
  <2>2. /\ file_index[f] + InFlight(f) + conn[f].unread <= conn[f].sent
        /\ conn[f].sent <= FileSize
    BY DEF Reads, Bytes, Sent
  <2>3. file_index'[f] = file_index[f] + InFlight(f) /\ InFlight(f) \in Nat
    BY <1>0, <1>4, <1>10
  <2>4. QED
    BY <1>0, <2>1, <2>2, <2>3
<1>12. Chunked(f)'
  <2>1. Holds(f, k, c)'
    <3>1. buf_flag'[f][k] = 2 => file_index'[f] = FileSize
      <4>1. buf_flag'[f][k] = 2 => file_index'[f] >= FileSize
        BY <1>4
      <4>2. file_index'[f] \in Nat /\ FileSize \in Nat
        BY <1>0, <1>4, Constants
      <4>3. QED
        BY <1>11, <4>1, <4>2
    <3>2. QED
      BY <1>6, <1>9, <3>1 DEF Holds
  <2>2. \A j \in Bufs : buf_flag'[f][j] # 0 => \E d \in Nat : Holds(f, j, d)'
    BY <1>4, <1>9, <2>1 DEF Data, Chunked
  <2>3. ~(buf_flag'[f][0] = 1 /\ buf_flag'[f][1] = 1)
    BY <1>1, <1>4 DEF Data, Chunked, StoreKeeps, Bufs
  <2>4. QED
    BY <1>4, <2>2, <2>3 DEF Chunked
<1>13. Follows(f)'
  <2>1. conn[f].st # "rst" => file_index'[f] + 0 + conn[f].unread = conn[f].sent
    BY <1>0, <1>4, <1>10, AccountTypes DEF Data, Follows
  <2>2. QED
    BY <1>4, <1>10, <2>1 DEF Data, Follows
<1>14. Block(f)'
  BY <1>4 DEF Data, Block, Storing
<1>15. QED
  BY <1>9, <1>12, <1>13, <1>14 DEF Data

\* Every step of a reader keeps what is said of the bytes of every file.
LEMMA ReaderData ==
  ASSUME TypeOK, Counters, NEW f \in Files, Reads(f), Reader(f), NEW g \in Files, Data(g)
  PROVE  Data(g)'
<1>1. CASE g # f
  BY <1>1, OtherData
<1>2. CASE g = f
  BY <1>2, StartData, CallbackData, ReceiveData, BrimData, FitsData, RearmData DEF Reader
<1>3. QED
  BY <1>1, <1>2

-----------------------------------------------------------------------------
(* The coordinator moves whole buffers into the output.                    *)

\* What it leaves of a reader's place, its connection and the buffers.
LEMMA CoordinatorPlaces ==
  ASSUME TypeOK, Counters, Coordinator, NEW f \in Files, Data(f)
  PROVE  Follows(f)' /\ Block(f)' /\ Chunked(f)' /\ NextByte(f)' = NextByte(f)
<1>1. /\ UNCHANGED <<data, flag, cp_size, file_index, conn, in_buf>>
      /\ pc'[f] = pc[f] \/ (pc[f] = "none" /\ pc'[f] = "connect")
      /\ \A k \in Bufs : buf_flag'[f][k] = buf_flag[f][k]
                            \/ (buf_flag[f][k] = 2 /\ buf_flag'[f][k] = 0)
  BY CoordinatorKeeps
<1>2. UNCHANGED <<write_state, write_index, write_total_size>>
  BY DEF Coordinator, OpenOutput, OpenOutputFails, SpawnReader, SpawnFails, Poll0, Poll1,
     CheckSizes, XorBuffers, XorWriteFails, XorFaults, SetXorFlag, FreeAll, ResetNum,
     ResetFlag, LoopCondition, Result, blockVars
<1>3. NextByte(f)' = NextByte(f)
  BY <1>1 DEF NextByte
<1>4. InCall(f)' = InCall(f) /\ InFlight(f)' = InFlight(f)
  <2>1. InCall(f)' = InCall(f)
    BY <1>1 DEF InCall
  <2>2. QED
    BY <1>1, <2>1 DEF InFlight
<1>5. Follows(f)'
  BY <1>1, <1>4 DEF Data, Follows, RunFrom
<1>6. Block(f)'
  BY <1>1, <1>2 DEF Data, Block, Storing
<1>7. Chunked(f)'
  <2>1. \A k \in Bufs, c \in Nat : Holds(f, k, c) => Holds(f, k, c)'
    BY <1>1, <1>3 DEF Holds, RunFrom
  <2>2. QED
    BY <1>1, <1>3, <2>1 DEF Data, Chunked, Bufs
<1>8. QED
  BY <1>3, <1>5, <1>6, <1>7

\* A step that writes no output keeps the bytes, unless it gives up a buffer that
\* could not be XORed.
LEMMA CoordinatorBytes ==
  ASSUME TypeOK, Counters, Coordinator, ~XorBuffers, NEW f \in Files, Data(f)
  PROVE  OnePlace(f)' /\ NoneLost(f)'
<1>0. /\ ck \in Bufs /\ ci \in Nat /\ f \in Nat /\ FileNum \in Nat
      /\ buf_flag \in Table(Flags) /\ in_buf' = in_buf /\ NextByte(f)' = NextByte(f)
  BY FileIndex, Constants, BufTables, CoordinatorKeeps, CoordinatorPlaces DEF TypeOK, CoordType
<1>1. out' = out /\ BytesOut(f)' = BytesOut(f)
  <2>1. out' = out
    BY DEF Coordinator, OpenOutput, OpenOutputFails, SpawnReader, SpawnFails, Poll0, Poll1,
       CheckSizes, XorWriteFails, XorFaults, SetXorFlag, FreeAll, ResetNum, ResetFlag,
       LoopCondition, Result, coordVars
  <2>2. QED
    BY <2>1 DEF BytesOut
<1>2. NoneDropped' => NoneDropped
  BY DEF NoneDropped, Coordinator, OpenOutput, OpenOutputFails, SpawnReader, SpawnFails,
     Poll0, Poll1, CheckSizes, XorWriteFails, XorFaults, SetXorFlag, FreeAll, ResetNum,
     ResetFlag, LoopCondition, Result, KeepWaiting, Return, coordVars, groupVars, TypeOK, GroupType
<1>3. \A k \in Bufs : /\ BytesIn(f, k)' \subseteq BytesIn(f, k)
                      /\ NoneDropped' => BytesIn(f, k)' = BytesIn(f, k)
  <2>1. CASE ResetFlag
    <3>1. /\ cpc = "resetflag" /\ ci < FileNum /\ ci' = ci + 1 /\ ck' = ck
          /\ cpc' = IF ci + 1 = FileNum THEN "cond" ELSE "resetflag"
          /\ buf_flag' = [buf_flag EXCEPT ![ci][ck] = 0]
      BY <2>1 DEF ResetFlag
    <3>2. \A k \in Bufs : buf_flag'[f][k] = IF f = ci /\ k = ck THEN 0 ELSE buf_flag[f][k]
      BY <1>0, <3>1, FileIndex DEF Table
    <3>3. \A k \in Bufs : Spent(f, k)' <=> Spent(f, k) /\ f # ci
      BY <1>0, <3>1, FileIndex DEF Spent
    <3>4. \A k \in Bufs : f = ci /\ k = ck => Spent(f, k)
      BY <1>0, <3>1 DEF Spent
    <3>5. \A k \in Bufs : Spent(f, k) => k = ck
      BY DEF Spent
    <3>6. \A k \in Bufs : BytesIn(f, k)' = BytesIn(f, k)
      BY <1>0, <3>2, <3>3, <3>4, <3>5 DEF BytesIn
    <3>7. QED
      BY <3>6
  <2>2. CASE ~ResetFlag
    <3>1. buf_flag' = buf_flag
      BY <2>2 DEF Coordinator, OpenOutput, OpenOutputFails, SpawnReader, SpawnFails, Poll0,
         Poll1, CheckSizes, XorWriteFails, XorFaults, SetXorFlag, FreeAll, ResetNum,
         LoopCondition, Result, bufVars
    <3>2. \A k \in Bufs : Spent(f, k) => Spent(f, k)'
      BY <1>0, <2>2 DEF Spent, Coordinator, OpenOutput, OpenOutputFails, SpawnReader,
         SpawnFails, Poll0, Poll1, CheckSizes, XorWriteFails, XorFaults, SetXorFlag,
         FreeAll, ResetNum, LoopCondition, Result, coordVars
    <3>3. \A k \in Bufs : NoneDropped' /\ Spent(f, k)' => Spent(f, k)
      BY <1>0, <2>2 DEF Spent, NoneDropped, Coordinator, OpenOutput, OpenOutputFails,
         SpawnReader, SpawnFails, Poll0, Poll1, CheckSizes, XorWriteFails, XorFaults,
         SetXorFlag, FreeAll, ResetNum, LoopCondition, Result, Return, coordVars, groupVars
    <3>4. QED
      BY <1>0, <3>1, <3>2, <3>3 DEF BytesIn
  <2>3. QED
    BY <2>1, <2>2
<1>4. OnePlace(f)'
  <2>1. \A k \in Bufs : /\ BytesIn(f, k)' \subseteq 0..(NextByte(f) - 1)
                        /\ BytesIn(f, k)' \cap BytesOut(f) = {}
    BY <1>3 DEF Data, OnePlace
  <2>2. BytesIn(f, 0)' \cap BytesIn(f, 1)' = {}
    BY <1>3 DEF Data, OnePlace, Bufs
  <2>3. QED
    BY <1>0, <1>1, <2>1, <2>2 DEF Data, OnePlace
<1>5. NoneLost(f)'
  BY <1>0, <1>1, <1>2, <1>3 DEF Data, NoneLost, Bufs
<1>6. QED
  BY <1>4, <1>5

-----------------------------------------------------------------------------
(* Chunks and the bytes in them.                                           *)

\* Products of numbers.
LEMMA Multiples ==
  ASSUME NEW j \in Nat, NEW k \in Nat, NEW q \in Nat
  PROVE  k * q \in Nat /\ (k + 1) * q = k * q + q /\ (j < k => j * q + q <= k * q)
<1>1. ASSUME NEW l \in Nat
      PROVE  (j + l) * q = j * q + l * q /\ l * q \in Nat /\ (l > 0 => q <= l * q)
  <2>1. CASE l = 0
    BY <2>1
  <2>2. CASE l > 0
    <3>1. l - 1 \in Nat /\ l = (l - 1) + 1
      BY <2>2
    <3>2. l * q = (l - 1) * q + q /\ (l - 1) * q \in Nat
      BY <3>1
    <3>3. QED
      BY <3>2
  <2>3. QED
    BY <2>1, <2>2
<1>2. ASSUME j < k PROVE j * q + q <= k * q
  <2>1. k - j \in Nat /\ j + (k - j) = k /\ k - j > 0
    BY <1>2
  <2>2. k * q = j * q + (k - j) * q /\ q <= (k - j) * q /\ (k - j) * q \in Nat /\ j * q \in Nat
    BY <1>1, <2>1
  <2>3. QED
    BY <2>2
<1>3. QED
  BY <1>2

\* The remainder of a division, its value, and the type of the quotient.
LEMMA Remainder ==
  ASSUME NEW a \in Nat, NEW q \in Nat \ {0}
  PROVE  a % q \in 0..(q - 1)
<1>1. a % q \in Nat
  OBVIOUS
<1>2. a % q < q
  OBVIOUS
<1>3. QED
  BY <1>1, <1>2

\* The remainder is what the quotient leaves.
LEMMA Quotient ==
  ASSUME NEW a \in Nat, NEW q \in Nat \ {0}
  PROVE  a % q = a - (a \div q) * q
OBVIOUS

\* A quotient is a number.
LEMMA QuotientType ==
  ASSUME NEW a \in Nat, NEW q \in Nat \ {0}
  PROVE  a \div q \in Nat
OBVIOUS

\* The quotient and the remainder are determined by the chunk and the place in it.
LEMMA Division ==
  ASSUME NEW c \in Nat, NEW j \in Nat, NEW q \in Nat \ {0}, j < q,
         NEW a \in Nat, a = c * q + j
  PROVE  a \div q = c /\ a % q = j
<1> DEFINE d == a \div q
           m == a % q
<1>1. m \in 0..(q - 1)
  BY Remainder
<1>2. d \in Nat
  BY QuotientType
<1>3. m = a - d * q
  BY Quotient
<1>4. /\ d * q \in Nat /\ c * q \in Nat
      /\ (d < c => d * q + q <= c * q) /\ (c < d => c * q + q <= d * q)
  BY <1>2, Multiples
<1> HIDE DEF d, m
<1>5. ~(d < c)
  BY <1>1, <1>3, <1>4
<1>6. ~(c < d)
  BY <1>1, <1>3, <1>4
<1>7. d = c
  BY <1>2, <1>5, <1>6
<1>8. m = j
  BY <1>1, <1>3, <1>4, <1>7
<1>9. QED
  BY <1>7, <1>8 DEF d, m

\* Chunk c begins at c * ReadBufSize.
LEMMA ChunkBegin ==
  ASSUME NEW c \in Nat
  PROVE  /\ c * ReadBufSize \in Nat /\ (c * ReadBufSize) % ReadBufSize = 0
         /\ (c + 1) * ReadBufSize = c * ReadBufSize + ReadBufSize
         /\ (c * ReadBufSize + ReadBufSize) % ReadBufSize = 0
<1>0. ReadBufSize \in Nat \ {0}
  BY ConstantsAssumption
<1>1. /\ c * ReadBufSize \in Nat
      /\ (c + 1) * ReadBufSize = c * ReadBufSize + ReadBufSize
      /\ (c + 1) * ReadBufSize \in Nat
  BY <1>0, Multiples
<1>2. (c * ReadBufSize) % ReadBufSize = 0
  <2>1. c * ReadBufSize = c * ReadBufSize + 0 /\ 0 < ReadBufSize
    BY <1>0, <1>1
  <2>2. QED
    BY <1>0, <1>1, <2>1, Division
<1>3. ((c + 1) * ReadBufSize) % ReadBufSize = 0
  <2>1. (c + 1) * ReadBufSize = (c + 1) * ReadBufSize + 0 /\ 0 < ReadBufSize /\ c + 1 \in Nat
    BY <1>0, <1>1
  <2>2. QED
    BY <1>0, <1>1, <2>1, Division
<1>4. QED
  BY <1>1, <1>2, <1>3

-----------------------------------------------------------------------------
(* The XOR.                                                                *)

\* The bytes of the buffers number ck are appended to the output, row by row.
LEMMA XorRows ==
  ASSUME TypeOK, Counters, XorBuffers, NEW f \in Files
  PROVE  /\ Len(in_buf[f][ck]) = Len(in_buf[0][ck])
         /\ Len(in_buf[f][ck]) \in Nat /\ Len(out) \in Nat
         /\ Len(out') = Len(out) + Len(in_buf[f][ck])
         /\ \A i \in 1..Len(out) : out'[i][f] = out[i][f]
         /\ \A i \in 1..Len(in_buf[f][ck]) : out'[Len(out) + i][f] = in_buf[f][ck][i]
<1> DEFINE len == Len(in_buf[0][ck])
           rows == [i \in 1..len |-> Row(i)]
<1>1. ck \in Bufs /\ out \in Seq([Files -> Nat]) /\ Len(out) \in Nat
  BY LenProperties DEF TypeOK, CoordType
<1>2. \A g \in Files : in_buf[g][ck] \in Seq(Nat) /\ Len(in_buf[g][ck]) = len
  BY <1>1 DEF Counters, XorSizesAgree, SameSizes, XorBuffers, TypeOK, BufType
<1>3. len \in Nat
  BY <1>2, LenProperties
<1>4. \A i \in 1..len : Row(i) \in [Files -> Nat]
  BY <1>2, <1>3, ElementOfSeq DEF Row
<1>5. rows \in Seq([Files -> Nat]) /\ Len(rows) = len
  BY <1>3, <1>4, IsASeq, LenProperties
<1>6. \A i \in 1..len : rows[i][f] = in_buf[f][ck][i]
  BY DEF Row
<1>7. out' = out \o rows
  BY DEF XorBuffers
<1> HIDE DEF rows, len
<1>8. /\ Len(out') = Len(out) + len
      /\ \A i \in 1..(Len(out) + len) : out'[i] = IF i <= Len(out) THEN out[i] ELSE rows[i - Len(out)]
  BY <1>1, <1>5, <1>7, ConcatProperties
<1>9. \A i \in 1..Len(out) : out'[i][f] = out[i][f]
  BY <1>1, <1>3, <1>8
<1>10. ASSUME NEW i \in 1..len PROVE out'[Len(out) + i][f] = in_buf[f][ck][i]
  <2>1. /\ Len(out) + i \in 1..(Len(out) + len) /\ ~(Len(out) + i <= Len(out))
        /\ (Len(out) + i) - Len(out) = i
    BY <1>1, <1>3
  <2>2. out'[Len(out) + i] = rows[i]
    BY <1>8, <2>1
  <2>3. QED
    BY <1>6, <2>2
<1>11. Len(in_buf[f][ck]) = len
  BY <1>2
<1>12. QED
  BY <1>1, <1>3, <1>8, <1>9, <1>10, <1>11 DEF len

\* The buffer that is XORed holds a whole chunk.
LEMMA XorChunk ==
  ASSUME TypeOK, Counters, cpc = "xor", NEW f \in Files, Data(f)
  PROVE  /\ buf_flag[f][ck] = 2 /\ ~Spent(f, ck)
         /\ \E c \in Nat :
              /\ RunFrom(in_buf[f][ck], c * ReadBufSize)
              /\ \/ Len(in_buf[f][ck]) = ReadBufSize
                 \/ c * ReadBufSize + Len(in_buf[f][ck]) = FileSize
<1>1. ck \in Bufs
  BY DEF TypeOK, CoordType
<1>2. buf_flag[f][ck] = 2
  BY <1>1, SpentIsFull DEF XoringBuffer
<1>3. QED
  BY <1>1, <1>2 DEF Data, Chunked, Holds, Spent

\* Its bytes move to the output.
LEMMA XorMoves ==
  ASSUME TypeOK, Counters, XorBuffers, NEW f \in Files, Data(f)
  PROVE  /\ BytesIn(f, ck) = {in_buf[f][ck][i] : i \in 1..Len(in_buf[f][ck])}
         /\ BytesOut(f)' = BytesOut(f) \cup BytesIn(f, ck)
         /\ \A k \in Bufs : k = ck => BytesIn(f, k)' = {}
         /\ \A k \in Bufs : k # ck => BytesIn(f, k)' = BytesIn(f, k)
<1> DEFINE s == in_buf[f][ck]
<1>1. /\ cpc = "xor" /\ cpc' \in {"setflag", "resetnum"}
      /\ UNCHANGED <<ck, ci, buf_flag, in_buf>>
  BY DEF XorBuffers, bufVars
<1>2. buf_flag[f][ck] = 2 /\ ~Spent(f, ck)
  BY <1>1, XorChunk
<1>3. BytesIn(f, ck) = {s[i] : i \in 1..Len(s)}
  BY <1>2 DEF BytesIn
<1>4. /\ Len(s) \in Nat /\ Len(out) \in Nat /\ Len(out') = Len(out) + Len(s)
      /\ \A i \in 1..Len(out) : out'[i][f] = out[i][f]
      /\ \A i \in 1..Len(s) : out'[Len(out) + i][f] = s[i]
  BY XorRows
<1> HIDE DEF s
<1>5. ASSUME NEW i \in 1..Len(out') PROVE out'[i][f] \in BytesOut(f) \cup BytesIn(f, ck)
  <2>1. CASE i <= Len(out)
    <3>1. i \in 1..Len(out)
      BY <1>4, <2>1
    <3>2. out'[i][f] \in BytesOut(f)
      BY <1>4, <3>1 DEF BytesOut
    <3>3. QED
      BY <3>2
  <2>2. CASE ~(i <= Len(out))
    <3>1. i - Len(out) \in 1..Len(s) /\ Len(out) + (i - Len(out)) = i
      BY <1>4, <2>2
    <3>2. out'[i][f] = s[i - Len(out)]
      BY <1>4, <3>1
    <3>3. out'[i][f] \in BytesIn(f, ck)
      BY <1>3, <3>1, <3>2
    <3>4. QED
      BY <3>3
  <2>3. QED
    BY <2>1, <2>2
<1>6. ASSUME NEW i \in 1..Len(out) PROVE out[i][f] \in BytesOut(f)'
  <2>1. i \in 1..Len(out') /\ out'[i][f] = out[i][f]
    BY <1>4
  <2>2. QED
    BY <2>1 DEF BytesOut
<1>7. ASSUME NEW i \in 1..Len(s) PROVE s[i] \in BytesOut(f)'
  <2>1. Len(out) + i \in 1..Len(out') /\ out'[Len(out) + i][f] = s[i]
    BY <1>4
  <2>2. QED
    BY <2>1 DEF BytesOut
<1>8. BytesOut(f)' = BytesOut(f) \cup BytesIn(f, ck)
  <2>1. BytesOut(f)' \subseteq BytesOut(f) \cup BytesIn(f, ck)
    <3>1. BytesOut(f)' = {out'[i][f] : i \in 1..Len(out')}
      BY DEF BytesOut
    <3>2. QED
      BY <1>5, <3>1
  <2>2. BytesOut(f) \subseteq BytesOut(f)'
    <3>1. BytesOut(f) = {out[i][f] : i \in 1..Len(out)}
      BY DEF BytesOut
    <3>2. QED
      BY <1>6, <3>1
  <2>3. BytesIn(f, ck) \subseteq BytesOut(f)'
    BY <1>3, <1>7
  <2>4. QED
    BY <2>1, <2>2, <2>3
<1>9. \A k \in Bufs : k = ck => BytesIn(f, k)' = {}
  BY <1>1 DEF BytesIn, Spent
<1>10. \A k \in Bufs : k # ck => BytesIn(f, k)' = BytesIn(f, k)
  BY <1>1 DEF BytesIn, Spent
<1>11. QED
  BY <1>3, <1>8, <1>9, <1>10 DEF s

\* No byte is written twice, and none is lost.
LEMMA XorBytes ==
  ASSUME TypeOK, Counters, XorBuffers, NEW f \in Files, Data(f)
  PROVE  OnePlace(f)' /\ NoneLost(f)'
<1> DEFINE s == in_buf[f][ck]
<1>1. /\ BytesIn(f, ck) = {s[i] : i \in 1..Len(s)}
      /\ BytesOut(f)' = BytesOut(f) \cup BytesIn(f, ck)
      /\ \A k \in Bufs : k = ck => BytesIn(f, k)' = {}
      /\ \A k \in Bufs : k # ck => BytesIn(f, k)' = BytesIn(f, k)
  BY XorMoves
<1>2. NextByte(f)' = NextByte(f) /\ ck \in Bufs /\ cpc = "xor"
  BY CoordinatorPlaces DEF Coordinator, TypeOK, CoordType, XorBuffers
<1>3. /\ Len(s) \in Nat /\ Len(out) \in Nat /\ Len(out') = Len(out) + Len(s)
      /\ \A i \in 1..Len(out) : out'[i][f] = out[i][f]
      /\ \A i \in 1..Len(s) : out'[Len(out) + i][f] = s[i]
  BY XorRows
<1>4. /\ \A i, j \in 1..Len(s) : s[i] = s[j] => i = j
  <2>1. PICK c \in Nat : RunFrom(s, c * ReadBufSize)
    BY <1>2, XorChunk
  <2> DEFINE base == c * ReadBufSize
  <2>2. base \in Nat
    BY ChunkBegin
  <2>3. \A i \in 1..Len(s) : s[i] = base + i - 1
    BY <2>1 DEF RunFrom
  <2> HIDE DEF base, s
  <2>4. QED
    BY <2>2, <2>3
<1>5. /\ BytesOut(f) \subseteq 0..(NextByte(f) - 1)
      /\ \A k \in Bufs : BytesIn(f, k) \subseteq 0..(NextByte(f) - 1) /\ BytesIn(f, k) \cap BytesOut(f) = {}
      /\ BytesIn(f, 0) \cap BytesIn(f, 1) = {}
      /\ \A i, j \in 1..Len(out) : out[i][f] = out[j][f] => i = j
  BY DEF Data, OnePlace
<1> HIDE DEF s
<1>6. ASSUME NEW i \in 1..Len(out'), NEW j \in 1..Len(out'), out'[i][f] = out'[j][f]
      PROVE  i = j
  <2>0. \A l \in 1..Len(out') :
          \/ l \in 1..Len(out) /\ out'[l][f] = out[l][f] /\ out[l][f] \in BytesOut(f)
          \/ l - Len(out) \in 1..Len(s) /\ out'[l][f] = s[l - Len(out)] /\ s[l - Len(out)] \in BytesIn(f, ck)
    <3> SUFFICES ASSUME NEW l \in 1..Len(out')
                 PROVE  \/ l \in 1..Len(out) /\ out'[l][f] = out[l][f] /\ out[l][f] \in BytesOut(f)
                        \/ l - Len(out) \in 1..Len(s) /\ out'[l][f] = s[l - Len(out)] /\ s[l - Len(out)] \in BytesIn(f, ck)
      OBVIOUS
    <3>1. CASE l <= Len(out)
      <4>1. l \in 1..Len(out)
        BY <1>3, <3>1
      <4>2. QED
        BY <1>3, <4>1 DEF BytesOut
    <3>2. CASE ~(l <= Len(out))
      <4>1. l - Len(out) \in 1..Len(s) /\ Len(out) + (l - Len(out)) = l
        BY <1>3, <3>2
      <4>2. out'[l][f] = s[l - Len(out)]
        BY <1>3, <4>1
      <4>3. QED
        BY <1>1, <4>1, <4>2
    <3>3. QED
      BY <3>1, <3>2
  <2>1. BytesIn(f, ck) \cap BytesOut(f) = {}
    BY <1>2, <1>5
  <2>2. CASE i \in 1..Len(out) /\ out'[i][f] = out[i][f] /\ out[i][f] \in BytesOut(f)
    <3>1. j \in 1..Len(out) /\ out'[j][f] = out[j][f]
      BY <1>6, <2>0, <2>1, <2>2
    <3>2. QED
      BY <1>5, <1>6, <2>2, <3>1
  <2>3. CASE i - Len(out) \in 1..Len(s) /\ out'[i][f] = s[i - Len(out)] /\ s[i - Len(out)] \in BytesIn(f, ck)
    <3>1. j - Len(out) \in 1..Len(s) /\ out'[j][f] = s[j - Len(out)]
      BY <1>6, <2>0, <2>1, <2>3
    <3>2. i - Len(out) = j - Len(out)
      BY <1>4, <1>6, <2>3, <3>1
    <3>3. QED
      BY <1>3, <3>2
  <2>4. QED
    BY <2>0, <2>2, <2>3
<1>7. OnePlace(f)'
  <2>1. BytesOut(f)' \subseteq 0..(NextByte(f)' - 1)
    BY <1>1, <1>2, <1>5
  <2>2. \A k \in Bufs : k = ck \/ BytesIn(f, k) \cap BytesIn(f, ck) = {}
    BY <1>2, <1>5 DEF Bufs
  <2>3. \A k \in Bufs : /\ BytesIn(f, k)' \subseteq 0..(NextByte(f)' - 1)
                        /\ BytesIn(f, k)' \cap BytesOut(f)' = {}
    <3> SUFFICES ASSUME NEW k \in Bufs
                 PROVE  /\ BytesIn(f, k)' \subseteq 0..(NextByte(f)' - 1)
                        /\ BytesIn(f, k)' \cap BytesOut(f)' = {}
      OBVIOUS
    <3>1. CASE k = ck
      BY <1>1, <3>1
    <3>2. CASE k # ck
      <4>1. BytesIn(f, k)' = BytesIn(f, k)
        BY <1>1, <3>2
      <4>2. BytesIn(f, k) \subseteq 0..(NextByte(f) - 1) /\ BytesIn(f, k) \cap BytesOut(f) = {}
        BY <1>5
      <4>3. QED
        BY <1>1, <1>2, <2>2, <3>2, <4>1, <4>2
    <3>3. QED
      BY <3>1, <3>2
  <2>4. BytesIn(f, 0)' \cap BytesIn(f, 1)' = {}
    <3>1. CASE ck = 0
      <4>1. BytesIn(f, 0)' = {}
        BY <1>1, <3>1 DEF Bufs
      <4>2. QED
        BY <4>1
    <3>2. CASE ck = 1
      <4>1. BytesIn(f, 1)' = {}
        BY <1>1, <3>2 DEF Bufs
      <4>2. QED
        BY <4>1
    <3>3. QED
      BY <1>2, <3>1, <3>2 DEF Bufs
  <2>5. \A i, j \in 1..Len(out') : out'[i][f] = out'[j][f] => i = j
    BY <1>6
  <2>6. QED
    BY <2>1, <2>3, <2>4, <2>5 DEF OnePlace
<1>8. NoneLost(f)'
  <2>1. \A o : o \in BytesOut(f) \cup BytesIn(f, 0) \cup BytesIn(f, 1)
                 => o \in BytesOut(f)' \cup BytesIn(f, 0)' \cup BytesIn(f, 1)'
    <3>1. \A k \in Bufs : BytesIn(f, k) \subseteq BytesOut(f)' \cup BytesIn(f, k)'
      BY <1>1
    <3>2. BytesOut(f) \subseteq BytesOut(f)'
      BY <1>1
    <3>3. QED
      BY <3>1, <3>2 DEF Bufs
  <2>2. NoneDropped
    BY <1>2 DEF NoneDropped
  <2>3. \A o \in 0..(NextByte(f) - 1) : o \in BytesOut(f) \cup BytesIn(f, 0) \cup BytesIn(f, 1)
    BY <2>2 DEF Data, NoneLost
  <2>4. QED
    BY <1>2, <2>1, <2>3 DEF NoneLost
<1>9. QED
  BY <1>7, <1>8

\* A whole chunk is appended to whole chunks.
LEMMA XorWhole ==
  ASSUME TypeOK, Counters, XorBuffers, \A f \in Files : Data(f), OutputIsWholeChunks
  PROVE  OutputIsWholeChunks'
<1> SUFFICES ASSUME NEW f \in Files, NEW i \in 1..Len(out')
             PROVE  /\ out'[i][f] % ReadBufSize # 0 => i > 1 /\ out'[i - 1][f] = out'[i][f] - 1
                    /\ (out'[i][f] + 1) % ReadBufSize # 0 /\ out'[i][f] + 1 # FileSize
                          => i < Len(out') /\ out'[i + 1][f] = out'[i][f] + 1
  BY DEF OutputIsWholeChunks
<1> DEFINE s == in_buf[f][ck]
<1>1. cpc = "xor"
  BY DEF XorBuffers
<1>2. PICK c \in Nat :
        /\ RunFrom(s, c * ReadBufSize)
        /\ Len(s) = ReadBufSize \/ c * ReadBufSize + Len(s) = FileSize
  BY <1>1, XorChunk
<1> DEFINE base == c * ReadBufSize
<1>3. /\ base \in Nat /\ base % ReadBufSize = 0 /\ (base + ReadBufSize) % ReadBufSize = 0
  BY ChunkBegin
<1>4. \A j \in 1..Len(s) : s[j] = base + j - 1
  BY <1>2 DEF RunFrom
<1>5. /\ Len(s) \in Nat /\ Len(out) \in Nat /\ Len(out') = Len(out) + Len(s)
      /\ \A j \in 1..Len(out) : out'[j][f] = out[j][f]
      /\ \A j \in 1..Len(s) : out'[Len(out) + j][f] = s[j]
  BY XorRows
<1>6. Len(s) = ReadBufSize \/ base + Len(s) = FileSize
  BY <1>2
<1> HIDE DEF s, base
<1>7. CASE i <= Len(out)
  <2>1. i \in 1..Len(out) /\ out'[i][f] = out[i][f]
    BY <1>5, <1>7
  <2>2. out[i][f] % ReadBufSize # 0 => i > 1 /\ out[i - 1][f] = out[i][f] - 1
    BY <2>1 DEF OutputIsWholeChunks
  <2>3. (out[i][f] + 1) % ReadBufSize # 0 /\ out[i][f] + 1 # FileSize
          => i < Len(out) /\ out[i + 1][f] = out[i][f] + 1
    BY <2>1 DEF OutputIsWholeChunks
  <2>4. i > 1 => out'[i - 1][f] = out[i - 1][f]
    BY <1>5, <2>1
  <2>5. i < Len(out) => i < Len(out') /\ out'[i + 1][f] = out[i + 1][f]
    BY <1>5, <2>1
  <2>6. QED
    BY <2>1, <2>2, <2>3, <2>4, <2>5
<1>8. CASE ~(i <= Len(out))
  <2> DEFINE j == i - Len(out)
  <2>1. j \in 1..Len(s) /\ Len(out) + j = i /\ out'[i][f] = base + j - 1
    <3>1. j \in 1..Len(s) /\ Len(out) + j = i
      BY <1>5, <1>8
    <3>2. QED
      BY <1>4, <1>5, <3>1
  <2>2. j > 1 => i > 1 /\ out'[i - 1][f] = base + j - 2
    <3> SUFFICES ASSUME j > 1 PROVE i > 1 /\ out'[i - 1][f] = base + j - 2
      OBVIOUS
    <3>1. j - 1 \in 1..Len(s) /\ Len(out) + (j - 1) = i - 1 /\ i > 1
      BY <1>5, <2>1
    <3>2. out'[i - 1][f] = base + (j - 1) - 1
      BY <1>4, <1>5, <3>1
    <3>3. QED
      BY <1>3, <2>1, <3>1, <3>2
  <2>3. j < Len(s) => i < Len(out') /\ out'[i + 1][f] = base + j
    <3> SUFFICES ASSUME j < Len(s) PROVE i < Len(out') /\ out'[i + 1][f] = base + j
      OBVIOUS
    <3>1. j + 1 \in 1..Len(s) /\ Len(out) + (j + 1) = i + 1 /\ i < Len(out')
      BY <1>5, <2>1
    <3>2. out'[i + 1][f] = base + (j + 1) - 1
      BY <1>4, <1>5, <3>1
    <3>3. QED
      BY <1>3, <2>1, <3>1, <3>2
  <2> HIDE DEF j
  <2>4. out'[i][f] % ReadBufSize # 0 => j > 1
    <3>1. j = 1 => out'[i][f] = base
      BY <1>3, <2>1
    <3>2. j = 1 \/ j > 1
      BY <1>5, <2>1
    <3>3. QED
      BY <1>3, <3>1, <3>2
  <2>5. (out'[i][f] + 1) % ReadBufSize # 0 /\ out'[i][f] + 1 # FileSize => j < Len(s)
    <3>1. j = Len(s) => out'[i][f] + 1 = base + Len(s)
      BY <1>3, <2>1
    <3>2. j = Len(s) \/ j < Len(s)
      BY <1>5, <2>1
    <3>3. base + Len(s) = base + ReadBufSize \/ base + Len(s) = FileSize
      BY <1>6
    <3>4. QED
      BY <1>3, <3>1, <3>2, <3>3
  <2>6. base + j - 2 = (base + j - 1) - 1 /\ base + j = (base + j - 1) + 1
    BY <1>3, <1>5, <2>1
  <2>7. QED
    BY <2>1, <2>2, <2>3, <2>4, <2>5, <2>6
<1>9. QED
  BY <1>5, <1>7, <1>8

\* All bytes of the buffer belong to its chunk, and no byte of the chunk is missing.
LEMMA BytesOfChunk ==
  ASSUME NEW s, Len(s) \in Nat, Len(s) <= ReadBufSize, NEW c \in Nat,
         RunFrom(s, c * ReadBufSize)
  PROVE  /\ \A i \in 1..Len(s) : s[i] \in Nat /\ s[i] \div ReadBufSize = c
         /\ Len(s) = ReadBufSize \/ c * ReadBufSize + Len(s) = FileSize =>
              \A p \in 0..(FileSize - 1) :
                p \div ReadBufSize = c => p \in {s[i] : i \in 1..Len(s)}
<1> DEFINE base == c * ReadBufSize
<1>0. ReadBufSize \in Nat \ {0} /\ FileSize \in Nat
  BY ConstantsAssumption
<1>1. base \in Nat
  BY ChunkBegin
<1>2. \A i \in 1..Len(s) : s[i] = base + i - 1
  BY DEF RunFrom
<1>3. ASSUME NEW i \in 1..Len(s) PROVE s[i] \in Nat /\ s[i] \div ReadBufSize = c
  <2>1. i - 1 \in Nat /\ i - 1 < ReadBufSize
    BY <1>0
  <2>2. s[i] \in Nat /\ s[i] = c * ReadBufSize + (i - 1)
    BY <1>1, <1>2
  <2>3. s[i] \div ReadBufSize = c
    <3> DEFINE a == s[i]
               j == i - 1
    <3>1. j \in Nat /\ j < ReadBufSize
      BY <2>1
    <3>2. a \in Nat /\ a = c * ReadBufSize + j
      BY <2>2
    <3> HIDE DEF a, j
    <3>3. a \div ReadBufSize = c
      BY <1>0, <3>1, <3>2, Division
    <3>4. QED
      BY <3>3 DEF a
  <2>4. QED
    BY <2>2, <2>3
<1>4. ASSUME Len(s) = ReadBufSize \/ base + Len(s) = FileSize,
             NEW p \in 0..(FileSize - 1), p \div ReadBufSize = c
      PROVE  p \in {s[i] : i \in 1..Len(s)}
  <2>1. p \in Nat /\ p < FileSize
    BY <1>0
  <2>2. p % ReadBufSize = p - base
    BY <1>0, <1>4, <2>1, Quotient
  <2>3. p % ReadBufSize \in 0..(ReadBufSize - 1)
    BY <1>0, <2>1, Remainder
  <2> HIDE DEF base
  <2>4. p - base + 1 \in 1..Len(s)
    BY <1>0, <1>1, <1>4, <2>1, <2>2, <2>3
  <2>5. s[p - base + 1] = p
    BY <1>1, <1>2, <2>1, <2>4
  <2>6. QED
    BY <2>4, <2>5
<1>5. QED
  BY <1>3, <1>4

\* A chunk comes into the output as a whole.
LEMMA XorAllOfChunk ==
  ASSUME TypeOK, Counters, XorBuffers, NEW f \in Files, Data(f), AllOfChunk(f)
  PROVE  AllOfChunk(f)'
<1> DEFINE s == in_buf[f][ck]
<1>1. PICK c \in Nat :
        /\ RunFrom(s, c * ReadBufSize)
        /\ Len(s) = ReadBufSize \/ c * ReadBufSize + Len(s) = FileSize
  BY XorChunk DEF XorBuffers
<1>2. /\ BytesIn(f, ck) = {s[i] : i \in 1..Len(s)}
      /\ BytesOut(f)' = BytesOut(f) \cup BytesIn(f, ck)
  BY XorMoves
<1>3. Len(s) \in Nat /\ Len(s) <= ReadBufSize
  BY LenProperties DEF TypeOK, CoordType, BufType
<1>4. /\ \A i \in 1..Len(s) : s[i] \in Nat /\ s[i] \div ReadBufSize = c
      /\ \A p \in 0..(FileSize - 1) :
           p \div ReadBufSize = c => p \in {s[i] : i \in 1..Len(s)}
  BY <1>1, <1>3, BytesOfChunk
<1> HIDE DEF s
<1>5. \A o \in BytesIn(f, ck) : o \div ReadBufSize = c
  BY <1>2, <1>4
<1>6. \A p \in 0..(FileSize - 1) : p \div ReadBufSize = c => p \in BytesIn(f, ck)
  BY <1>2, <1>4
<1>7. ASSUME NEW o \in BytesOut(f)', NEW p \in 0..(FileSize - 1),
             p \div ReadBufSize = o \div ReadBufSize
      PROVE  p \in BytesOut(f)'
  <2>1. CASE o \in BytesOut(f)
    BY <1>2, <1>7, <2>1 DEF AllOfChunk
  <2>2. CASE o \in BytesIn(f, ck)
    BY <1>2, <1>5, <1>6, <1>7, <2>2
  <2>3. QED
    BY <1>2, <2>1, <2>2
<1>8. QED
  BY <1>7 DEF AllOfChunk

-----------------------------------------------------------------------------
(* The theorems about the output.                                          *)

\* The way of the bytes is inductive on top of the account of GroupTransferMemory.
THEOREM FlowInductive == Spec => [](IInv /\ Safe /\ Flow)
<1>1. Init => Flow
  <2> SUFFICES ASSUME Init PROVE Flow
    OBVIOUS
  <2>1. Len(out) = 0 /\ NotReturned /\ OutputIsWholeChunks
    BY EmptySeq DEF Init, NotReturned, OutputIsWholeChunks
  <2>2. ASSUME NEW f \in Files PROVE Data(f) /\ AllOfChunk(f)
    <3>1. ~InCall(f) /\ NextByte(f) = 0 /\ InFlight(f) = 0
      BY <2>2 DEF Init, InCall, NextByte, InFlight
    <3>2. Follows(f) /\ Block(f) /\ Chunked(f)
      BY <2>2, <3>1 DEF Init, Follows, Block, Storing, Chunked, Bufs
    <3>3. BytesOut(f) = {} /\ \A k \in Bufs : BytesIn(f, k) = {}
      BY <2>1, <2>2 DEF Init, BytesOut, BytesIn
    <3>4. OnePlace(f) /\ NoneLost(f) /\ AllOfChunk(f)
      BY <2>1, <3>1, <3>3 DEF OnePlace, NoneLost, AllOfChunk, Bufs
    <3>5. QED
      BY <3>2, <3>4 DEF Data
  <2>3. QED
    BY <2>1, <2>2 DEF Flow
<1>2. IInv /\ Safe /\ Flow /\ [Next]_vars => Flow'
  <2> SUFFICES ASSUME TypeOK, Counters, Safe, Flow, [Next]_vars PROVE Flow'
    BY DEF IInv
  <2>0. /\ \A g \in Files : Reads(g) /\ Data(g) /\ AllOfChunk(g)
        /\ NotReturned /\ OutputIsWholeChunks
    BY DEF Safe, Flow
  <2>1. ASSUME UNCHANGED <<out, cpc, ret>>
        PROVE  NotReturned' /\ OutputIsWholeChunks' /\ \A g \in Files : AllOfChunk(g)'
    BY <2>0, <2>1 DEF NotReturned, OutputIsWholeChunks, AllOfChunk, BytesOut
  <2>2. CASE XorBuffers
    <3>1. Coordinator /\ UNCHANGED ret /\ cpc = "xor"
      BY <2>2 DEF Coordinator, XorBuffers
    <3>2. \A g \in Files : Data(g)'
      BY <2>0, <2>2, <3>1, CoordinatorPlaces, XorBytes DEF Data
    <3>3. \A g \in Files : AllOfChunk(g)'
      BY <2>0, <2>2, XorAllOfChunk
    <3>4. OutputIsWholeChunks'
      BY <2>0, <2>2, XorWhole
    <3>5. QED
      BY <2>0, <3>1, <3>2, <3>3, <3>4 DEF Flow, NotReturned
  <2>3. CASE Coordinator /\ ~XorBuffers
    <3>1. out' = out /\ (cpc' # "done" => ret' = ret /\ cpc # "done")
      BY <2>3 DEF Coordinator, OpenOutput, OpenOutputFails, SpawnReader, SpawnFails, Poll0,
         Poll1, CheckSizes, XorWriteFails, XorFaults, SetXorFlag, FreeAll, ResetNum,
         ResetFlag, LoopCondition, Result, Return, coordVars
    <3>2. \A g \in Files : Data(g)'
      BY <2>0, <2>3, CoordinatorPlaces, CoordinatorBytes DEF Data
    <3>3. \A g \in Files : AllOfChunk(g)'
      BY <2>0, <3>1 DEF AllOfChunk, BytesOut
    <3>4. OutputIsWholeChunks' /\ NotReturned'
      BY <2>0, <3>1 DEF OutputIsWholeChunks, NotReturned
    <3>5. QED
      BY <3>2, <3>3, <3>4 DEF Flow
  <2>4. ASSUME NEW f \in Files, Reader(f) PROVE Flow'
    <3>1. UNCHANGED <<out, cpc, ret>>
      BY <2>4 DEF Reader, Connect, ConnectFails, Alloc, AllocGivesUp, CallbackFrees,
         CallbackReceives, RecvFails, RecvEof, RecvHeader, RecvSplitHeader, RecvMore,
         StoreBrim, StoreFits, Rearm, CountLoad, CountStore, CallbackReturns, coordVars
    <3>2. \A g \in Files : Data(g)'
      BY <2>0, <2>4, ReaderData
    <3>3. QED
      BY <2>1, <3>1, <3>2 DEF Flow
  <2>5. ASSUME NEW f \in Files, DataServer(f) PROVE Flow'
    <3>1. UNCHANGED <<out, cpc, ret>>
      BY <2>5 DEF DataServer, ServerSends, ServerCloses, ServerResets, coordVars
    <3>2. \A g \in Files : Data(g)'
      BY <2>0, <2>5, ServerData
    <3>3. QED
      BY <2>1, <3>1, <3>2 DEF Flow
  <2>6. CASE UNCHANGED vars
    <3>1. UNCHANGED <<out, cpc, ret>>
      BY <2>6 DEF vars, coordVars
    <3>2. ASSUME NEW g \in Files PROVE Data(g)'
      <4>1. Still(g) /\ UNCHANGED <<pc, data, conn, write_state, write_index, write_total_size>>
        BY <2>6 DEF vars, Still, groupVars, bufVars, blockVars, readerVars, coordVars
      <4>2. QED
        BY <2>0, <4>1, StillData
    <3>3. QED
      BY <2>1, <3>1, <3>2 DEF Flow
  <2>7. QED
    BY <2>2, <2>3, <2>4, <2>5, <2>6 DEF Next
<1>3. QED
  BY <1>1, <1>2, SafeInductive, PTL DEF Spec

\* The share of a file in the output is cut at multiples of READ_BUF_SIZE only.
THEOREM WholeChunks == Spec => []OutputIsWholeChunks
<1>1. Flow => OutputIsWholeChunks
  BY DEF Flow
<1>2. QED
  BY <1>1, FlowInductive, PTL

-----------------------------------------------------------------------------
(***************************************************************************)
(* GroupTransfer implements ChunkStream.  The XOR of non-empty buffers is  *)
(* Stream!Use, the returns of create_client_connect_data_server are        *)
(* Stream!Return, and every other step of the threads, the data server and *)
(* the network stutters.                                                   *)
(***************************************************************************)

(* Chunks and sizes.                                                       *)

\* No reader stores more than the file.
LEMMA NextBound ==
  ASSUME TypeOK, NEW f \in Files, Reads(f), Data(f)
  PROVE  NextByte(f) \in 0..FileSize
<1>1. /\ file_index[f] \in Nat /\ Len(data[f]) \in Nat /\ cp_size[f] \in Nat
      /\ conn[f].unread \in Nat /\ conn[f].sent \in Nat /\ FileSize \in Nat
  BY AccountTypes, Constants
<1>2. file_index[f] + InFlight(f) + conn[f].unread <= conn[f].sent /\ conn[f].sent <= FileSize
  BY DEF Reads, Bytes, Sent
<1>3. flag[f] = 1 => InCall(f) /\ cp_size[f] < Len(data[f])
  BY DEF Data, Follows, InCall, Reads, Call
<1>4. InFlight(f) \in Nat /\ (InCall(f) => InFlight(f) = Len(data[f]))
  BY <1>1 DEF InFlight
<1>5. CASE flag[f] = 1
  <2>1. NextByte(f) = file_index[f] + cp_size[f]
    BY <1>5 DEF NextByte
  <2>2. QED
    BY <1>1, <1>2, <1>3, <1>4, <1>5, <2>1
<1>6. CASE flag[f] # 1
  <2>1. NextByte(f) = file_index[f]
    BY <1>1, <1>6 DEF NextByte
  <2>2. QED
    BY <1>1, <1>2, <1>4, <2>1
<1>7. QED
  BY <1>5, <1>6

\* The chunks of a file are those that begin inside it.
LEMMA ChunkNumbers ==
  ASSUME NEW c \in Nat
  PROVE  c \in Stream!Chunks <=> c * ReadBufSize < FileSize
<1> DEFINE a == FileSize + ReadBufSize - 1
           n == a \div ReadBufSize
<1>0. ReadBufSize \in Nat \ {0} /\ FileSize \in Nat
  BY ConstantsAssumption
<1>1. a \in Nat
  BY <1>0
<1>2. n \in Nat
  BY <1>0, <1>1, QuotientType
<1>3. a % ReadBufSize \in 0..(ReadBufSize - 1) /\ a % ReadBufSize = a - n * ReadBufSize
  BY <1>0, <1>1, Remainder, Quotient
<1>4. /\ n * ReadBufSize \in Nat /\ c * ReadBufSize \in Nat
      /\ c < n => c * ReadBufSize + ReadBufSize <= n * ReadBufSize
      /\ n < c => n * ReadBufSize + ReadBufSize <= c * ReadBufSize
  BY <1>0, <1>2, Multiples
<1>5. Stream!Chunks = 0..(n - 1)
  BY DEF Stream!Chunks, Stream!ChunkNum
<1>6. a = FileSize + ReadBufSize - 1
  OBVIOUS
<1> DEFINE m == n * ReadBufSize
           b == c * ReadBufSize
<1>7. a - m < ReadBufSize /\ m <= a /\ m \in Nat /\ b \in Nat
  BY <1>0, <1>1, <1>3, <1>4
<1>8. (c < n => b + ReadBufSize <= m) /\ (n < c => m + ReadBufSize <= b) /\ (n = c => m = b)
  BY <1>4
<1> HIDE DEF a, n, m, b
<1>9. c < n => b < FileSize
  BY <1>0, <1>6, <1>7, <1>8
<1>10. b < FileSize => c < n
  <2>1. b < FileSize => b < m
    BY <1>0, <1>6, <1>7
  <2>2. n = c \/ n < c \/ c < n
    BY <1>2
  <2>3. QED
    BY <1>0, <1>7, <1>8, <2>1, <2>2
<1>11. c \in Stream!Chunks <=> c < n
  BY <1>2, <1>5
<1>12. QED
  BY <1>9, <1>10, <1>11 DEF b

\* A run of bytes that fills a buffer or ends the file has its chunk's length.
LEMMA LengthOf ==
  ASSUME NEW c \in Nat, NEW len \in Nat, 0 < len, len <= ReadBufSize,
         c * ReadBufSize + len <= FileSize,
         len = ReadBufSize \/ c * ReadBufSize + len = FileSize
  PROVE  Stream!Length(c) = len
<1> DEFINE b == c * ReadBufSize
<1>1. (c + 1) * ReadBufSize = b + ReadBufSize /\ b \in Nat
  BY ChunkBegin
<1>2. Stream!Length(c) = IF b + ReadBufSize <= FileSize THEN ReadBufSize ELSE FileSize - b
  BY <1>1 DEF Stream!Length
<1>3. b + len <= FileSize /\ (len = ReadBufSize \/ b + len = FileSize)
  OBVIOUS
<1> HIDE DEF b
<1>4. QED
  BY <1>1, <1>2, <1>3, Constants

-----------------------------------------------------------------------------
(* Use.                                                                    *)

\* The chunk of file f in the buffers that are XORed.
ChunkOf(f) ==
  CHOOSE c \in Nat :
    /\ RunFrom(in_buf[f][ck], c * ReadBufSize)
    /\ Len(in_buf[f][ck]) = ReadBufSize \/ c * ReadBufSize + Len(in_buf[f][ck]) = FileSize

\* It lies inside the file, and the next byte to store is after it.
LEMMA ChunkFacts ==
  ASSUME TypeOK, Counters, XorBuffers, NEW f \in Files, Reads(f), Data(f)
  PROVE  /\ ChunkOf(f) \in Nat
         /\ RunFrom(in_buf[f][ck], ChunkOf(f) * ReadBufSize)
         /\ \/ Len(in_buf[f][ck]) = ReadBufSize
            \/ ChunkOf(f) * ReadBufSize + Len(in_buf[f][ck]) = FileSize
         /\ Len(in_buf[f][ck]) \in Nat /\ Len(in_buf[f][ck]) <= ReadBufSize
         /\ 0 < Len(in_buf[f][ck]) =>
              /\ ChunkOf(f) * ReadBufSize \in BytesIn(f, ck)
              /\ ChunkOf(f) * ReadBufSize + Len(in_buf[f][ck]) <= NextByte(f)
<1> DEFINE s == in_buf[f][ck]
           c == ChunkOf(f)
<1>1. /\ c \in Nat
      /\ RunFrom(s, c * ReadBufSize)
      /\ Len(s) = ReadBufSize \/ c * ReadBufSize + Len(s) = FileSize
  BY XorChunk DEF XorBuffers, ChunkOf
<1>2. Len(s) \in Nat /\ Len(s) <= ReadBufSize
  BY LenProperties DEF TypeOK, CoordType, BufType
<1>3. BytesIn(f, ck) = {s[i] : i \in 1..Len(s)}
  BY XorMoves
<1>4. BytesIn(f, ck) \subseteq 0..(NextByte(f) - 1) /\ NextByte(f) \in Nat
  BY NextByteType DEF Data, OnePlace, TypeOK, CoordType
<1> DEFINE b == c * ReadBufSize
<1>5. b \in Nat /\ \A i \in 1..Len(s) : s[i] = b + i - 1
  BY <1>1, ChunkBegin DEF RunFrom
<1> HIDE DEF s, c, b
<1>6. 0 < Len(s) => b \in BytesIn(f, ck) /\ b + Len(s) <= NextByte(f)
  <2> SUFFICES ASSUME 0 < Len(s)
               PROVE  b \in BytesIn(f, ck) /\ b + Len(s) <= NextByte(f)
    OBVIOUS
  <2>1. 1 \in 1..Len(s) /\ Len(s) \in 1..Len(s)
    BY <1>2
  <2>2. s[1] = b /\ s[Len(s)] = b + Len(s) - 1
    BY <1>2, <1>5, <2>1
  <2>3. b \in BytesIn(f, ck) /\ b + Len(s) - 1 \in BytesIn(f, ck)
    BY <1>3, <2>1, <2>2
  <2>4. b + Len(s) - 1 \in 0..(NextByte(f) - 1)
    BY <1>4, <2>3
  <2>5. QED
    BY <1>2, <1>4, <1>5, <2>3, <2>4
<1>7. QED
  BY <1>1, <1>2, <1>6 DEF s, c, b

\* The chunks of an output are those of its bytes.
LEMMA UsedBytes ==
  ASSUME NEW w, NEW f
  PROVE  {w[i][f] \div ReadBufSize : i \in 1..Len(w)}
           = {o \div ReadBufSize : o \in {w[i][f] : i \in 1..Len(w)}}
<1> DEFINE Taken == {w[i][f] : i \in 1..Len(w)}
<1>1. ASSUME NEW i \in 1..Len(w)
      PROVE  w[i][f] \div ReadBufSize \in {o \div ReadBufSize : o \in Taken}
  <2>1. w[i][f] \in Taken
    OBVIOUS
  <2>2. QED
    BY <2>1
<1>2. ASSUME NEW o \in Taken
      PROVE  o \div ReadBufSize \in {w[i][f] \div ReadBufSize : i \in 1..Len(w)}
  <2>1. PICK i \in 1..Len(w) : o = w[i][f]
    OBVIOUS
  <2>2. QED
    BY <2>1
<1>3. QED
  BY <1>1, <1>2

\* The XOR adds its chunk to those used.
LEMMA UsedNext ==
  ASSUME TypeOK, Counters, XorBuffers, NEW f \in Files, Reads(f), Data(f)
  PROVE  /\ Len(in_buf[f][ck]) = 0 => ChunksUsed(f)' = ChunksUsed(f)
         /\ 0 < Len(in_buf[f][ck]) => ChunksUsed(f)' = ChunksUsed(f) \cup {ChunkOf(f)}
<1> DEFINE s == in_buf[f][ck]
           c == ChunkOf(f)
<1>1. /\ c \in Nat /\ RunFrom(s, c * ReadBufSize)
      /\ Len(s) \in Nat /\ Len(s) <= ReadBufSize
  BY ChunkFacts
<1>2. \A i \in 1..Len(s) : s[i] \div ReadBufSize = c
  BY <1>1, BytesOfChunk
<1>3. /\ BytesIn(f, ck) = {s[i] : i \in 1..Len(s)}
      /\ BytesOut(f)' = BytesOut(f) \cup BytesIn(f, ck)
  BY XorMoves
<1>4. /\ ChunksUsed(f) = {o \div ReadBufSize : o \in BytesOut(f)}
      /\ ChunksUsed(f)' = {o \div ReadBufSize : o \in BytesOut(f)'}
  BY UsedBytes DEF ChunksUsed, BytesOut
<1>5. Len(s) = 0 => BytesIn(f, ck) = {}
  BY <1>3
<1>6. 0 < Len(s) => \E o \in BytesIn(f, ck) : o \div ReadBufSize = c
  <2>1. 0 < Len(s) => 1 \in 1..Len(s)
    BY <1>1
  <2>2. QED
    BY <1>2, <1>3, <2>1
<1>7. \A o \in BytesIn(f, ck) : o \div ReadBufSize = c
  BY <1>2, <1>3
<1> HIDE DEF s, c
<1>8. Len(s) = 0 => ChunksUsed(f)' = ChunksUsed(f)
  BY <1>3, <1>4, <1>5
<1>9. 0 < Len(s) => ChunksUsed(f)' = ChunksUsed(f) \cup {c}
  BY <1>3, <1>4, <1>6, <1>7
<1>10. QED
  BY <1>8, <1>9 DEF s, c

\* The first byte of a chunk.
LEMMA FirstOfChunk ==
  ASSUME NEW d \in Nat
  PROVE  d * ReadBufSize \in Nat /\ (d * ReadBufSize) \div ReadBufSize = d
<1>0. ReadBufSize \in Nat \ {0} /\ 0 < ReadBufSize
  BY ConstantsAssumption
<1>1. d * ReadBufSize \in Nat
  BY ChunkBegin
<1>2. d * ReadBufSize = d * ReadBufSize + 0
  BY <1>1
<1>3. QED
  BY <1>0, <1>1, <1>2, Division

\* A chunk that is missing among the older ones waits in the other buffer.
LEMMA MissingWaits ==
  ASSUME TypeOK, Counters, XorBuffers, NEW f \in Files, Reads(f), Data(f),
         0 < Len(in_buf[f][ck]), NEW d \in 0..(ChunkOf(f) - 1), d \notin ChunksUsed(f),
         NEW k \in Bufs, k # ck
  PROVE  d * ReadBufSize \in BytesIn(f, k)
<1> DEFINE c == ChunkOf(f)
           s == in_buf[f][ck]
<1>1. /\ c \in Nat /\ RunFrom(s, c * ReadBufSize) /\ Len(s) \in Nat /\ Len(s) <= ReadBufSize
      /\ c * ReadBufSize + Len(s) <= NextByte(f)
  BY ChunkFacts
<1>2. d \in Nat /\ d < c
  BY <1>1
<1>3. d * ReadBufSize \in Nat /\ (d * ReadBufSize) \div ReadBufSize = d
  BY <1>2, FirstOfChunk
<1>4. d * ReadBufSize \in 0..(NextByte(f) - 1)
  <2>1. d * ReadBufSize + ReadBufSize <= c * ReadBufSize /\ c * ReadBufSize \in Nat
    BY <1>1, <1>2, Constants, Multiples
  <2>2. ReadBufSize \in Nat /\ 0 < ReadBufSize /\ NextByte(f) \in Nat
    BY NextByteType, ConstantsAssumption
  <2> DEFINE a == d * ReadBufSize
             b == c * ReadBufSize
  <2>3. a \in Nat /\ b \in Nat /\ a + ReadBufSize <= b /\ b + Len(s) <= NextByte(f)
    BY <1>1, <1>3, <2>1
  <2> HIDE DEF a, b, s
  <2>4. a \in 0..(NextByte(f) - 1)
    BY <1>1, <2>2, <2>3
  <2>5. QED
    BY <2>4 DEF a
<1>5. d * ReadBufSize \in BytesOut(f) \cup BytesIn(f, 0) \cup BytesIn(f, 1)
  <2>1. NoneDropped
    BY DEF NoneDropped, XorBuffers
  <2>2. QED
    BY <1>4, <2>1 DEF Data, NoneLost
<1>6. d * ReadBufSize \notin BytesOut(f)
  <2>1. ChunksUsed(f) = {o \div ReadBufSize : o \in BytesOut(f)}
    BY UsedBytes DEF ChunksUsed, BytesOut
  <2>2. QED
    BY <1>3, <2>1
<1>7. d * ReadBufSize \notin BytesIn(f, ck)
  <2>1. BytesIn(f, ck) = {s[i] : i \in 1..Len(s)}
    BY XorMoves
  <2>2. \A i \in 1..Len(s) : s[i] \div ReadBufSize = c
    BY <1>1, BytesOfChunk
  <2>3. \A o \in BytesIn(f, ck) : o \div ReadBufSize = c
    BY <2>1, <2>2
  <2> HIDE DEF s, c
  <2>4. d # c
    BY <1>1, <1>2
  <2>5. QED
    BY <1>3, <2>3, <2>4
<1>8. ck \in Bufs
  BY DEF TypeOK, CoordType
<1>9. QED
  BY <1>5, <1>6, <1>7, <1>8 DEF Bufs

\* So at most one is missing, and none comes twice.
LEMMA OneMissing ==
  ASSUME TypeOK, Counters, XorBuffers, NEW f \in Files, Reads(f), Data(f), AllOfChunk(f),
         0 < Len(in_buf[f][ck])
  PROVE  /\ ChunkOf(f) \notin ChunksUsed(f)
         /\ Cardinality((0..(ChunkOf(f) - 1)) \ ChunksUsed(f)) <= 1
<1> DEFINE c == ChunkOf(f)
           missing == (0..(c - 1)) \ ChunksUsed(f)
<1>1. c \in Nat /\ c * ReadBufSize \in BytesIn(f, ck)
  BY ChunkFacts
<1>2. ck \in Bufs
  BY DEF TypeOK, CoordType
<1>3. /\ BytesIn(f, ck) \subseteq 0..(NextByte(f) - 1) /\ BytesIn(f, ck) \cap BytesOut(f) = {}
      /\ NextByte(f) \in 0..FileSize
  BY <1>2, NextBound DEF Data, OnePlace
<1>4. c \notin ChunksUsed(f)
  <2> SUFFICES ASSUME c \in ChunksUsed(f) PROVE FALSE
    OBVIOUS
  <2>1. PICK o \in BytesOut(f) : o \div ReadBufSize = c
    BY UsedBytes DEF ChunksUsed, BytesOut
  <2>2. c * ReadBufSize \in 0..(FileSize - 1)
    <3> DEFINE b == c * ReadBufSize
    <3>1. b \in 0..(NextByte(f) - 1)
      BY <1>1, <1>3
    <3> HIDE DEF b
    <3>2. b \in 0..(FileSize - 1)
      BY <1>3, <3>1, Constants
    <3>3. QED
      BY <3>2 DEF b
  <2>3. (c * ReadBufSize) \div ReadBufSize = o \div ReadBufSize
    BY <1>1, <2>1, FirstOfChunk
  <2>4. c * ReadBufSize \in BytesOut(f)
    BY <2>2, <2>3 DEF AllOfChunk
  <2>5. QED
    BY <1>1, <1>3, <2>4
<1>5. PICK k \in Bufs : k # ck
  BY DEF Bufs
<1>6. \A d \in missing : d \in Nat /\ d * ReadBufSize \in BytesIn(f, k)
  BY <1>1, <1>5, MissingWaits
<1>7. \E e : missing \subseteq {e}
  <2>1. CASE BytesIn(f, k) = {}
    BY <1>6, <2>1
  <2>2. CASE BytesIn(f, k) # {}
    <3> DEFINE t == in_buf[f][k]
    <3>1. buf_flag[f][k] # 0 /\ BytesIn(f, k) = {t[i] : i \in 1..Len(t)}
      BY <2>2 DEF BytesIn
    <3>2. PICK e \in Nat : RunFrom(t, e * ReadBufSize)
      BY <3>1 DEF Data, Chunked, Holds
    <3>3. Len(t) \in Nat /\ Len(t) <= ReadBufSize
      BY LenProperties DEF TypeOK, BufType
    <3>4. \A i \in 1..Len(t) : t[i] \div ReadBufSize = e
      BY <3>2, <3>3, BytesOfChunk
    <3> HIDE DEF t
    <3>5. \A o \in BytesIn(f, k) : o \div ReadBufSize = e
      BY <3>1, <3>4
    <3>6. \A d \in missing : d = e
      BY <1>6, <3>5, FirstOfChunk
    <3>7. QED
      BY <3>6
  <2>3. QED
    BY <2>1, <2>2
<1>8. Cardinality(missing) <= 1
  <2>1. PICK e : missing \subseteq {e}
    BY <1>7
  <2> HIDE DEF missing
  <2>2. IsFiniteSet({e}) /\ Cardinality({e}) = 1
    BY FS_Singleton
  <2>3. Cardinality(missing) <= Cardinality({e})
    BY <2>1, <2>2, FS_Subset
  <2>4. QED
    BY <2>2, <2>3
<1>9. QED
  BY <1>4, <1>8

\* ChunkStream counts with the same operator.
LEMMA SameCardinality == \A S : Stream!Cardinality(S) = Cardinality(S)
BY DEF Stream!Cardinality, Cardinality

\* The state of ChunkStream.
streamVars == <<[f \in Files |-> ChunksUsed(f)], Len(out), ret>>

\* An XOR of the coordinator is one use of chunks.
LEMMA XorIsUse ==
  ASSUME TypeOK, Counters, Safe, Flow, XorBuffers
  PROVE  Stream!Next \/ UNCHANGED streamVars
<1> DEFINE len == Len(in_buf[0][ck])
           c == [f \in Files |-> ChunkOf(f)]
<1>1. \A f \in Files : Reads(f) /\ Data(f) /\ AllOfChunk(f)
  BY DEF Safe, Flow
<1>2. /\ len \in Nat /\ Len(out) \in Nat /\ Len(out') = Len(out) + len
      /\ \A f \in Files : Len(in_buf[f][ck]) = len
  <2>1. 0 \in Files
    BY FileIndex, Constants
  <2>2. QED
    BY <2>1, XorRows
<1>3. ret = "none" /\ ret' = ret
  BY DEF XorBuffers, Flow, NotReturned
<1>4. CASE len = 0
  <2>1. Len(out') = Len(out)
    BY <1>2, <1>4
  <2>2. \A f \in Files : ChunksUsed(f)' = ChunksUsed(f)
    BY <1>1, <1>2, <1>4, UsedNext
  <2>3. QED
    BY <1>3, <2>1, <2>2 DEF streamVars
<1>5. CASE 0 < len
  <2>1. ASSUME NEW f \in Files
        PROVE  /\ ChunkOf(f) \in Stream!Chunks
               /\ Stream!Length(ChunkOf(f)) = len
               /\ ChunkOf(f) \notin ChunksUsed(f)
               /\ Cardinality((0..(ChunkOf(f) - 1)) \ ChunksUsed(f)) <= 1
               /\ ChunksUsed(f)' = ChunksUsed(f) \cup {ChunkOf(f)}
    <3>0. Reads(f) /\ Data(f) /\ AllOfChunk(f) /\ Len(in_buf[f][ck]) = len /\ 0 < Len(in_buf[f][ck])
      BY <1>1, <1>2, <1>5
    <3> HIDE DEF len
    <3>1. /\ ChunkOf(f) \in Nat /\ len <= ReadBufSize
          /\ len = ReadBufSize \/ ChunkOf(f) * ReadBufSize + len = FileSize
          /\ ChunkOf(f) * ReadBufSize + len <= NextByte(f)
      BY <3>0, ChunkFacts
    <3>2. NextByte(f) \in 0..FileSize /\ ChunkOf(f) * ReadBufSize \in Nat
      BY <3>0, <3>1, NextBound, ChunkBegin
    <3>3. ChunkOf(f) * ReadBufSize + len <= FileSize /\ ChunkOf(f) * ReadBufSize < FileSize
      BY <1>2, <1>5, <3>1, <3>2, Constants
    <3>4. ChunkOf(f) \in Stream!Chunks
      BY <3>1, <3>3, ChunkNumbers
    <3>5. Stream!Length(ChunkOf(f)) = len
      BY <1>2, <1>5, <3>1, <3>3, LengthOf
    <3>6. /\ ChunkOf(f) \notin ChunksUsed(f)
          /\ Cardinality((0..(ChunkOf(f) - 1)) \ ChunksUsed(f)) <= 1
      BY <3>0, OneMissing
    <3>7. ChunksUsed(f)' = ChunksUsed(f) \cup {ChunkOf(f)}
      BY <3>0, UsedNext
    <3>8. QED
      BY <3>4, <3>5, <3>6, <3>7
  <2> HIDE DEF len
  <2>2. c \in [Files -> Stream!Chunks]
    BY <2>1
  <2>3. \A f \in Files : c[f] = ChunkOf(f)
    OBVIOUS
  <2>4. \A f \in Files : Len(out') = Len(out) + Stream!Length(c[f])
    BY <1>2, <2>1, <2>3
  <2>5. ASSUME NEW f \in Files PROVE Stream!MayUse(f, c[f])
    <3>1. [g \in Files |-> ChunksUsed(g)][f] = ChunksUsed(f)
      OBVIOUS
    <3>2. Stream!MayUse(f, ChunkOf(f))
      BY <2>1, <3>1, SameCardinality DEF Stream!MayUse
    <3>3. QED
      BY <2>3, <3>2
  <2>6. [f \in Files |-> ChunksUsed(f)]' = [f \in Files |-> [g \in Files |-> ChunksUsed(g)][f] \cup {c[f]}]
    BY <2>1
  <2> HIDE DEF c
  <2>7. Stream!Use
    BY <1>3, <2>2, <2>4, <2>5, <2>6 DEF Stream!Use
  <2>8. QED
    BY <2>7 DEF Stream!Next
<1>6. QED
  BY <1>2, <1>4, <1>5

\* RIGHT is returned after the last chunk: the output has as many bytes as the file,
\* and no byte twice.
LEMMA AllUsed ==
  ASSUME TypeOK, Safe, Flow, xor_size = FileSize, NEW f \in Files
  PROVE  ChunksUsed(f) = Stream!Chunks
<1>0. /\ ReadBufSize \in Nat \ {0} /\ FileSize \in Nat /\ Len(out) = FileSize
      /\ Reads(f) /\ Data(f)
  BY ConstantsAssumption DEF Safe, Ends, Flow
<1>1. BytesOut(f) \subseteq 0..(FileSize - 1)
  <2>1. NextByte(f) \in 0..FileSize
    BY <1>0, NextBound
  <2>2. BytesOut(f) \subseteq 0..(NextByte(f) - 1)
    BY <1>0 DEF Data, OnePlace
  <2>3. QED
    BY <1>0, <2>1, <2>2
<1>2. 0..(FileSize - 1) \subseteq BytesOut(f)
  <2> DEFINE place == [i \in 1..FileSize |-> out[i][f]]
  <2>1. \A i \in 1..FileSize : out[i][f] \in BytesOut(f)
    BY <1>0 DEF BytesOut
  <2>2. place \in [1..FileSize -> 0..(FileSize - 1)]
    BY <1>1, <2>1
  <2>3. \A i, j \in 1..FileSize : out[i][f] = out[j][f] => i = j
    BY <1>0 DEF Data, OnePlace
  <2>4. place \in Injection(1..FileSize, 0..(FileSize - 1))
    BY <2>2, <2>3 DEF Injection, IsInjective
  <2>5. /\ IsFiniteSet(1..FileSize) /\ Cardinality(1..FileSize) = FileSize
        /\ IsFiniteSet(0..(FileSize - 1)) /\ Cardinality(0..(FileSize - 1)) = FileSize
    <3>1. 1 \in Int /\ FileSize \in Int /\ 0 \in Int /\ FileSize - 1 \in Int
      BY <1>0
    <3>2. /\ IsFiniteSet(1..FileSize)
          /\ Cardinality(1..FileSize) = IF 1 > FileSize THEN 0 ELSE FileSize - 1 + 1
      BY <3>1, FS_Interval
    <3>3. /\ IsFiniteSet(0..(FileSize - 1))
          /\ Cardinality(0..(FileSize - 1)) = IF 0 > FileSize - 1 THEN 0 ELSE (FileSize - 1) - 0 + 1
      BY <3>1, FS_Interval
    <3>4. QED
      BY <1>0, <3>2, <3>3
  <2>6. place \in Surjection(1..FileSize, 0..(FileSize - 1))
    BY <2>4, <2>5, FS_Injection
  <2>7. ASSUME NEW o \in 0..(FileSize - 1) PROVE o \in BytesOut(f)
    <3>1. PICK i \in 1..FileSize : place[i] = o
      BY <2>6 DEF Surjection
    <3>2. QED
      BY <2>1, <3>1
  <2>8. QED
    BY <2>7
<1>3. ChunksUsed(f) = {o \div ReadBufSize : o \in 0..(FileSize - 1)}
  BY <1>1, <1>2, UsedBytes DEF ChunksUsed, BytesOut
<1>4. ASSUME NEW o \in 0..(FileSize - 1) PROVE o \div ReadBufSize \in Stream!Chunks
  <2> DEFINE d == o \div ReadBufSize
  <2>1. o \in Nat /\ o < FileSize
    BY <1>0
  <2>2. d \in Nat
    BY <1>0, <2>1, QuotientType
  <2>3. o % ReadBufSize \in 0..(ReadBufSize - 1) /\ o % ReadBufSize = o - d * ReadBufSize
    BY <1>0, <2>1, Remainder, Quotient
  <2>4. d * ReadBufSize \in Nat
    BY <2>2, ChunkBegin
  <2> HIDE DEF d
  <2>5. d * ReadBufSize < FileSize
    BY <1>0, <2>1, <2>3, <2>4
  <2>6. d \in Stream!Chunks
    BY <2>2, <2>5, ChunkNumbers
  <2>7. QED
    BY <2>6 DEF d
<1>5. ASSUME NEW d \in Stream!Chunks PROVE \E o \in 0..(FileSize - 1) : d = o \div ReadBufSize
  <2>1. d \in Nat
    BY DEF Stream!Chunks
  <2>2. d * ReadBufSize \in Nat /\ d * ReadBufSize < FileSize
    BY <2>1, ChunkNumbers, FirstOfChunk
  <2>3. d * ReadBufSize \in 0..(FileSize - 1)
    BY <1>0, <2>2
  <2>4. QED
    BY <2>1, <2>3, FirstOfChunk
<1>6. QED
  BY <1>3, <1>4, <1>5

\* The coordinator's other steps return or stutter.
LEMMA CoordinatorIsReturn ==
  ASSUME TypeOK, Counters, Safe, Flow, Coordinator, ~XorBuffers
  PROVE  Stream!Next \/ UNCHANGED streamVars
<1>1. out' = out
  BY DEF Coordinator, OpenOutput, OpenOutputFails, SpawnReader, SpawnFails, Poll0, Poll1,
     CheckSizes, XorWriteFails, XorFaults, SetXorFlag, FreeAll, ResetNum, ResetFlag,
     LoopCondition, Result, coordVars
<1>2. \/ ret' = ret
      \/ cpc # "done" /\ ret' = "ERROR"
      \/ cpc # "done" /\ ret' = "RIGHT" /\ xor_size = FileSize
  BY DEF Coordinator, OpenOutput, OpenOutputFails, SpawnReader, SpawnFails, Poll0, Poll1,
     CheckSizes, XorWriteFails, XorFaults, SetXorFlag, FreeAll, ResetNum, ResetFlag,
     LoopCondition, Result, coordVars, Return
<1>3. Len(out') = Len(out) /\ [f \in Files |-> ChunksUsed(f)]' = [f \in Files |-> ChunksUsed(f)]
  BY <1>1 DEF ChunksUsed
<1>4. cpc # "done" => ret = "none"
  BY DEF Flow, NotReturned
<1>5. CASE ret' = ret
  BY <1>3, <1>5 DEF streamVars
<1>6. CASE cpc # "done" /\ ret' = "ERROR"
  <2>1. Stream!Return("ERROR")
    BY <1>3, <1>4, <1>6 DEF Stream!Return
  <2>2. QED
    BY <2>1 DEF Stream!Next
<1>7. CASE cpc # "done" /\ ret' = "RIGHT" /\ xor_size = FileSize
  <2>1. \A f \in Files : ChunksUsed(f) = Stream!Chunks
    BY <1>7, AllUsed
  <2>2. Len(out) = FileSize
    BY <1>7 DEF Safe, Ends
  <2>3. Stream!Return("RIGHT")
    BY <1>3, <1>4, <1>7, <2>1, <2>2 DEF Stream!Return
  <2>4. QED
    BY <2>3 DEF Stream!Next
<1>8. QED
  BY <1>2, <1>5, <1>6, <1>7

-----------------------------------------------------------------------------
(* The theorem.                                                            *)

\* Whatever the threads, the network and the failures do, an XOR uses one whole
\* chunk of every file, all of one length; no chunk is used twice; at most one
\* older chunk of a file waits; and RIGHT is returned only when every chunk of
\* every file has been used.
THEOREM Refinement == Spec => ImplementsChunkStream
<1>1. Init => Stream!Init
  <2> SUFFICES ASSUME Init PROVE Stream!Init
    OBVIOUS
  <2>1. Len(out) = 0 /\ ret = "none"
    BY EmptySeq DEF Init
  <2>2. \A f \in Files : ChunksUsed(f) = {}
    BY <2>1 DEF ChunksUsed
  <2>3. QED
    BY <2>1, <2>2 DEF Stream!Init
<1>2. IInv /\ Safe /\ Flow /\ [Next]_vars => [Stream!Next]_streamVars
  <2> SUFFICES ASSUME TypeOK, Counters, Safe, Flow, [Next]_vars
               PROVE  Stream!Next \/ UNCHANGED streamVars
    BY DEF IInv
  <2>1. CASE Coordinator
    BY <2>1, XorIsUse, CoordinatorIsReturn
  <2>2. UNCHANGED <<out, ret>> => UNCHANGED streamVars
    BY DEF streamVars, ChunksUsed
  <2>3. ASSUME NEW f \in Files, Reader(f) PROVE UNCHANGED <<out, ret>>
    BY <2>3 DEF Reader, Connect, ConnectFails, Alloc, AllocGivesUp, CallbackFrees,
       CallbackReceives, RecvFails, RecvEof, RecvHeader, RecvSplitHeader, RecvMore,
       StoreBrim, StoreFits, Rearm, CountLoad, CountStore, CallbackReturns, coordVars
  <2>4. ASSUME NEW f \in Files, DataServer(f) PROVE UNCHANGED <<out, ret>>
    BY <2>4 DEF DataServer, ServerSends, ServerCloses, ServerResets, coordVars
  <2>5. CASE UNCHANGED vars
    BY <2>2, <2>5 DEF vars, coordVars
  <2>6. QED
    BY <2>1, <2>2, <2>3, <2>4, <2>5 DEF Next
<1>3. QED
  BY <1>1, <1>2, FlowInductive, PTL DEF Spec, ImplementsChunkStream, Stream!Spec, streamVars
=============================================================================
