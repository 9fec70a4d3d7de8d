--------------------------- MODULE GroupTransfer ---------------------------
(***************************************************************************)
(* One remote request of oraid_server: create_client_connect_data_server   *)
(* starts one reader thread per file of the group; each reader receives    *)
(* its file from the data server and stores it in two buffers by turns;    *)
(* the calling thread (the coordinator, judge_xor_condition) waits until   *)
(* the same buffer is full for every file, XORs the buffers and writes the *)
(* result to the output file.  The threads share g_tgroupFile without a    *)
(* lock: data_mutex only covers two assignments of the coordinator.        *)
(*                                                                         *)
(* A byte is modelled by its offset in its file, so a buffer is a sequence *)
(* of offsets, and a byte written to the output is the function that gives *)
(* for each file the offset it contributed.  buf_size[k] is the length of  *)
(* the sequence in_buf[k].  Thread steps are cut at the accesses to shared *)
(* fields that another thread can interleave with; buf_full_num[k]++ is a  *)
(* load and a store, as the build (g++ without optimisation) compiles it.  *)
(***************************************************************************)
EXTENDS Integers, Sequences, FiniteSets

CONSTANTS
  FileNum,      \* g_tgroupFile.file_num
  FileSize,     \* g_tgroupFile.file_size, the size the data server reported
  ReadBufSize,  \* READ_BUF_SIZE
  MaxLine,      \* MAXLINE, the largest payload of one recv
  BlockLen,     \* payload of one CMD_WRITE block of the data server
  Faults        \* the kinds of failure the environment may produce

FaultKinds == {"open", "spawn", "connect", "malloc", "fwrite",
               "split", "fin", "reset", "stall"}

ASSUME ConstantsAssumption ==
  /\ FileNum \in 1..50          \* single_file_array[50]
  /\ FileSize \in Nat
  /\ ReadBufSize \in Nat \ {0}
  /\ MaxLine \in 1..ReadBufSize \* 2048000 against 100 * 1024 * 1024
  /\ BlockLen \in Nat \ {0}
  /\ Faults \subseteq FaultKinds

Files == 0..(FileNum - 1)
Bufs  == {0, 1}

VARIABLES
  \* shared fields of g_tgroupFile
  xor_size, xor_flag, correct_flag, buf_full_num,
  \* g_tgroupFile.single_file_array[f]
  buf_flag,          \* 0 empty, 1 being filled, 2 full
  in_buf,            \* contents of in_buf0 and in_buf1
  mem,               \* allocation state of in_buf0 and in_buf1
  file_index, cp_size, write_state, write_index, write_total_size,
  \* locals of a reader thread
  pc, data, flag, cur, tmp,
  \* locals of the coordinator, its result and the output file
  cpc, ci, ck, ret, out,
  \* the connections to the data server, and whether the process runs
  conn, proc

groupVars  == <<xor_size, xor_flag, correct_flag, buf_full_num>>
bufVars    == <<buf_flag, in_buf, mem>>
blockVars  == <<file_index, write_state, write_index, write_total_size>>
readerVars == <<pc, data, flag, cur, tmp, cp_size>>
coordVars  == <<cpc, ci, ck, ret, out>>
vars == <<groupVars, bufVars, blockVars, readerVars, coordVars, conn, proc>>

Smaller(a, b) == IF a <= b THEN a ELSE b

\* n consecutive bytes of a file, from offset a on.
Offsets(a, n) == [i \in 1..n |-> a + i - 1]

-----------------------------------------------------------------------------
(* create_client_connect_data_server: memset of g_tgroupFile, fopen of the *)
(* output file, one thread per file.                                       *)

Init ==
  /\ xor_size = 0 /\ xor_flag = 0 /\ correct_flag = 0
  /\ buf_full_num = [k \in Bufs |-> 0]
  /\ buf_flag = [f \in Files |-> [k \in Bufs |-> 0]]
  /\ in_buf = [f \in Files |-> [k \in Bufs |-> << >>]]
  /\ mem = [f \in Files |-> [k \in Bufs |-> "null"]]
  /\ file_index = [f \in Files |-> 0]
  /\ cp_size = [f \in Files |-> 0]
  /\ write_state = [f \in Files |-> 0]
  /\ write_index = [f \in Files |-> 0]
  /\ write_total_size = [f \in Files |-> 0]
  /\ pc = [f \in Files |-> "none"]
  /\ data = [f \in Files |-> << >>]
  /\ flag = [f \in Files |-> 0]
  /\ cur = [f \in Files |-> 0]
  /\ tmp = [f \in Files |-> 0]
  /\ cpc = "open" /\ ci = 0 /\ ck = 0 /\ ret = "none" /\ out = << >>
  /\ conn = [f \in Files |-> [st |-> "none", hdr |-> 0, unread |-> 0, sent |-> 0]]
  /\ proc = "run"

\* The coordinator returns r from create_client_connect_data_server.
Return(r) == cpc' = "done" /\ ret' = r

OpenOutput ==
  /\ cpc = "open"
  /\ cpc' = "spawn"
  /\ UNCHANGED <<ci, ck, ret, out, groupVars, bufVars, blockVars, readerVars, conn, proc>>

OpenOutputFails ==
  /\ cpc = "open" /\ "open" \in Faults
  /\ Return("ERROR")
  /\ UNCHANGED <<ci, ck, out, groupVars, bufVars, blockVars, readerVars, conn, proc>>

SpawnReader ==
  /\ cpc = "spawn" /\ ci < FileNum
  /\ pc' = [pc EXCEPT ![ci] = "connect"]
  /\ ci' = ci + 1
  /\ cpc' = IF ci + 1 = FileNum THEN "poll0" ELSE "spawn"
  /\ UNCHANGED <<ck, ret, out, data, flag, cur, tmp, cp_size,
                 groupVars, bufVars, blockVars, conn, proc>>

\* malloc of the thread argument, or pthread_create, fails: the readers
\* already started go on; only the second case raises correct_flag.
SpawnFails ==
  /\ cpc = "spawn" /\ "spawn" \in Faults
  /\ correct_flag' \in {correct_flag, -1}
  /\ Return("ERROR")
  /\ UNCHANGED <<xor_size, xor_flag, buf_full_num, ci, ck, out,
                 bufVars, blockVars, readerVars, conn, proc>>

-----------------------------------------------------------------------------
(* process_in_new_thread_file_num: connect, send the file header, allocate *)
(* both buffers, enter the event loop.                                     *)

Goto(f, l) == pc' = [pc EXCEPT ![f] = l]

\* connect_to_server and socket_write_header; communicate_with_server does
\* not wait for the reply, so return_obj stays zero and is no error.
Connect(f) ==
  /\ pc[f] = "connect"
  /\ Goto(f, "alloc0")
  /\ conn' = [conn EXCEPT ![f].st = "idle"]
  /\ UNCHANGED <<data, flag, cur, tmp, cp_size, groupVars, bufVars, blockVars, coordVars, proc>>

\* socket, connect_to_server or socket_write_header fails.
ConnectFails(f) ==
  /\ pc[f] = "connect" /\ "connect" \in Faults
  /\ Goto(f, "exit")
  /\ correct_flag' = -1
  /\ UNCHANGED <<xor_size, xor_flag, buf_full_num, data, flag, cur, tmp, cp_size,
                 bufVars, blockVars, coordVars, conn, proc>>

AllocPc(k) == IF k = 0 THEN "alloc0" ELSE "alloc1"

\* Faulty variant: buf_flag[0] = 1 is forgotten.
ArmedFlagsForgotten == [k \in Bufs |-> 0]

\* buf_flag[0] = 1, buf_flag[1] = 0
ArmedFlags == [k \in Bufs |-> 1 - k]

\* The second buffer allocated, buf0 is made writable and the loop entered.
Alloc(f, k) ==
  /\ pc[f] = AllocPc(k)
  /\ correct_flag # -1
  /\ mem' = [mem EXCEPT ![f][k] = "live"]
  /\ IF k = 0
     THEN Goto(f, "alloc1") /\ UNCHANGED buf_flag
     ELSE Goto(f, "loop") /\ buf_flag' = [buf_flag EXCEPT ![f] = ArmedFlags]
  /\ UNCHANGED <<in_buf, data, flag, cur, tmp, cp_size, groupVars, blockVars, coordVars, conn, proc>>

\* malloc returned NULL, or another reader has failed meanwhile.  The code
\* compares correct_flag with -1 where its comment says it sets it.
AllocGivesUp(f, k) ==
  /\ pc[f] = AllocPc(k)
  /\ \/ "malloc" \in Faults /\ UNCHANGED mem
     \/ correct_flag = -1 /\ mem' = [mem EXCEPT ![f][k] = "live"]
  /\ Goto(f, "gaveup")
  /\ UNCHANGED <<buf_flag, in_buf, data, flag, cur, tmp, cp_size,
                 groupVars, blockVars, coordVars, conn, proc>>

-----------------------------------------------------------------------------
(* socket_read_file_data: the callback of the EV_READ | EV_PERSIST event.  *)

Readable(f) == conn[f].hdr = 1 \/ conn[f].unread > 0 \/ conn[f].st \in {"fin", "rst"}

\* Faulty variant: the event is added without its timeout.
EventFiresNoTimeout(f) == pc[f] = "loop" /\ Readable(f)

\* libevent calls back when the socket is readable or after 60 seconds.
EventFires(f) == pc[f] = "loop" /\ (Readable(f) \/ "stall" \in Faults)

\* Faulty variant: the error value is taken for 1.
GroupEndedWrongSign == xor_flag = 1 \/ correct_flag # 1

GroupEnded == xor_flag = 1 \/ correct_flag = -1

\* The group has ended: both buffers are freed and the callback returns with
\* its event still registered.  The buffers are larger than any malloc
\* threshold, so they are unmapped and a second free faults (DebugBacktrace,
\* exit).
CallbackFrees(f) ==
  /\ EventFires(f)
  /\ GroupEnded
  /\ IF \E k \in Bufs : mem[f][k] = "freed"
     THEN proc' = "exit" /\ UNCHANGED mem
     ELSE mem' = [mem EXCEPT ![f] = [k \in Bufs |-> "freed"]] /\ UNCHANGED proc
  /\ UNCHANGED <<buf_flag, in_buf, groupVars, blockVars, readerVars, coordVars, conn>>

CallbackReceives(f) ==
  /\ EventFires(f)
  /\ ~GroupEnded
  /\ Goto(f, "recv")
  /\ UNCHANGED <<data, flag, cur, tmp, cp_size, groupVars, bufVars, blockVars, coordVars, conn, proc>>

\* ret < 0: the connection was reset, or nothing came within SO_RCVTIMEO.
RecvFails(f) ==
  /\ pc[f] = "recv"
  /\ conn[f].st = "rst" \/ ("stall" \in Faults /\ ~Readable(f))
  /\ correct_flag' = -1
  /\ Goto(f, "exit")
  /\ UNCHANGED <<xor_size, xor_flag, buf_full_num, data, flag, cur, tmp, cp_size,
                 bufVars, blockVars, coordVars, conn, proc>>

\* ret = 0: between blocks the thread ends, inside a block it answers an
\* error reply and leaves the block.
RecvEof(f) ==
  /\ pc[f] = "recv"
  /\ conn[f].st = "fin" /\ conn[f].hdr = 0 /\ conn[f].unread = 0
  /\ Goto(f, IF write_state[f] = 0 THEN "exit" ELSE "loop")
  /\ write_state' = [write_state EXCEPT ![f] = 0]
  /\ UNCHANGED <<file_index, write_index, write_total_size, data, flag, cur, tmp, cp_size,
                 groupVars, bufVars, coordVars, conn, proc>>

\* The next n unread bytes of the block leave the socket.
Take(f, n) ==
  /\ data' = [data EXCEPT ![f] = Offsets(conn[f].sent - conn[f].unread, n)]
  /\ conn' = [conn EXCEPT ![f].hdr = 0, ![f].unread = @ - n]
  /\ flag' = [flag EXCEPT ![f] = 0]
  /\ Goto(f, "store")

\* The first recv of a block: header and n bytes of payload.  The fields set
\* after write_buf returns belong to this thread alone and are set here.
RecvHeader(f) ==
  /\ pc[f] = "recv" /\ conn[f].hdr = 1 /\ write_state[f] = 0
  /\ \E n \in 0..Smaller(MaxLine, conn[f].unread) :
       /\ Take(f, n)
       /\ IF n >= conn[f].unread
          THEN UNCHANGED <<write_state, write_index, write_total_size>>
          ELSE /\ write_state' = [write_state EXCEPT ![f] = 1]
               /\ write_index' = [write_index EXCEPT ![f] = n]
               /\ write_total_size' = [write_total_size EXCEPT ![f] = conn[f].unread]
  /\ UNCHANGED <<file_index, cur, tmp, cp_size, groupVars, bufVars, coordVars, proc>>

\* Fewer than CMD_LEN bytes arrive first: ret - CMD_LEN is negative, compares
\* as a huge unsigned number, and write_buf copies a negative length.
RecvSplitHeader(f) ==
  /\ pc[f] = "recv" /\ conn[f].hdr = 1 /\ write_state[f] = 0 /\ "split" \in Faults
  /\ proc' = "exit"
  /\ UNCHANGED <<groupVars, bufVars, blockVars, readerVars, coordVars, conn>>

\* A later recv of the same block.
RecvMore(f) ==
  /\ pc[f] = "recv" /\ conn[f].hdr = 0 /\ conn[f].unread > 0 /\ write_state[f] = 1
  /\ \E n \in 1..Smaller(MaxLine, conn[f].unread) :
       /\ Take(f, n)
       /\ IF write_total_size[f] <= n + write_index[f]
          THEN /\ write_state' = [write_state EXCEPT ![f] = 0]
               /\ write_index' = [write_index EXCEPT ![f] = 0]
               /\ write_total_size' = [write_total_size EXCEPT ![f] = 0]
          ELSE /\ write_index' = [write_index EXCEPT ![f] = @ + n]
               /\ UNCHANGED <<write_state, write_total_size>>
  /\ UNCHANGED <<file_index, cur, tmp, cp_size, groupVars, bufVars, coordVars, proc>>

\* write_buf has returned: at the end of a block the reply is sent, and the
\* data server, which sends one block at a time, becomes idle again.
CallbackReturns(f) ==
  /\ pc[f] = "finish"
  /\ Goto(f, "loop")
  /\ conn' = IF write_state[f] = 0 /\ conn[f].st = "block"
             THEN [conn EXCEPT ![f].st = "idle"] ELSE conn
  /\ UNCHANGED <<data, flag, cur, tmp, cp_size, groupVars, bufVars, blockVars, coordVars, proc>>

-----------------------------------------------------------------------------
(* write_buf: store the received bytes, at most one buffer change per call *)
(* as long as MaxLine <= ReadBufSize.                                      *)

\* The buffer the loop of write_buf stores into.
Writable(f, k) == buf_flag[f][k] = 1 /\ (k = 1 => buf_flag[f][0] # 1)

\* Faulty variant: off by one.
FitsOffByOne(f, k) == Len(in_buf[f][k]) + Len(data[f]) <= ReadBufSize + 1

Fits(f, k) == Len(in_buf[f][k]) + Len(data[f]) <= ReadBufSize

\* Faulty variant: one byte of the buffer is left unused.
RoomOffByOne(f, k) == IF Len(in_buf[f][k]) < ReadBufSize
                      THEN ReadBufSize - 1 - Len(in_buf[f][k]) ELSE 0

Room(f, k) == ReadBufSize - Len(in_buf[f][k])

\* Faulty variant: the bytes already stored in the other buffer are kept.
RestNotSkipped(f) == data[f]

\* The received bytes that the previous round of the loop did not store.
Rest(f) == IF flag[f] = 1 THEN SubSeq(data[f], cp_size[f] + 1, Len(data[f])) ELSE data[f]

\* What does not fit stays for the other buffer; buffer k is full.
StoreBrim(f, k) ==
  /\ pc[f] = "store" /\ Writable(f, k) /\ ~Fits(f, k)
  /\ in_buf' = [in_buf EXCEPT ![f][k] = @ \o SubSeq(data[f], 1, Room(f, k))]
  /\ cp_size' = [cp_size EXCEPT ![f] = Room(f, k)]
  /\ buf_flag' = [buf_flag EXCEPT ![f][k] = 2]
  /\ flag' = [flag EXCEPT ![f] = 1]
  /\ cur' = [cur EXCEPT ![f] = k]
  /\ Goto(f, "load")
  /\ UNCHANGED <<mem, data, tmp, groupVars, blockVars, coordVars, conn, proc>>

\* Everything left fits; the last byte of the file also fills the buffer.
StoreFits(f, k) ==
  /\ pc[f] = "store" /\ Writable(f, k) /\ Fits(f, k)
  /\ in_buf' = [in_buf EXCEPT ![f][k] = @ \o Rest(f)]
  /\ file_index' = [file_index EXCEPT ![f] = @ + Len(data[f])]
  /\ IF file_index'[f] >= FileSize
     THEN buf_flag' = [buf_flag EXCEPT ![f][k] = 2] /\ Goto(f, "load")
     ELSE UNCHANGED buf_flag /\ Goto(f, "finish")
  /\ cp_size' = IF flag[f] = 1 THEN [cp_size EXCEPT ![f] = 0] ELSE cp_size
  /\ flag' = [flag EXCEPT ![f] = 0]
  /\ cur' = [cur EXCEPT ![f] = k]
  /\ UNCHANGED <<mem, data, tmp, write_state, write_index, write_total_size,
                 groupVars, coordVars, conn, proc>>

\* g_tgroupFile.buf_full_num[k]++, not atomic: load ...
CountLoad(f) ==
  /\ pc[f] = "load"
  /\ tmp' = [tmp EXCEPT ![f] = buf_full_num[cur[f]]]
  /\ Goto(f, "count")
  /\ UNCHANGED <<data, flag, cur, cp_size, groupVars, bufVars, blockVars, coordVars, conn, proc>>

\* ... and store.
CountStore(f) ==
  /\ pc[f] = "count"
  /\ buf_full_num' = [buf_full_num EXCEPT ![cur[f]] = tmp[f] + 1]
  /\ Goto(f, IF flag[f] = 1 THEN "rearm0" ELSE "finish")
  /\ UNCHANGED <<xor_size, xor_flag, correct_flag, data, flag, cur, tmp, cp_size,
                 bufVars, blockVars, coordVars, conn, proc>>

RearmPc(k) == IF k = 0 THEN "rearm0" ELSE "rearm1"

\* The two tests at the end of the loop: an empty buffer is cleared and made
\* writable.  The coordinator may hand buffers back between the tests.  While
\* neither is empty the loop sleeps (usleep) and looks again.
Rearm(f, k) ==
  /\ pc[f] = RearmPc(k)
  /\ IF buf_flag[f][k] = 0 /\ buf_flag[f][1 - k] # 1
     THEN /\ buf_flag' = [buf_flag EXCEPT ![f][k] = 1]
          /\ in_buf' = [in_buf EXCEPT ![f][k] = << >>]
          /\ Goto(f, "store")
     ELSE Goto(f, RearmPc(1 - k)) /\ UNCHANGED <<buf_flag, in_buf>>
  /\ UNCHANGED <<mem, data, flag, cur, tmp, cp_size, groupVars, blockVars, coordVars, conn, proc>>

-----------------------------------------------------------------------------
(* judge_xor_condition and buf_xor: the coordinator.                       *)

\* Faulty variant: one file is missing.
AllFullOffByOne(k) == buf_full_num[k] >= FileNum - 1

AllFull(k) == buf_full_num[k] = FileNum

\* Buffer 0, then buffer 1, is XORed next if all files have filled it; the two
\* counters are read one after the other.
Poll0 ==
  /\ cpc = "poll0"
  /\ IF AllFull(0)
     THEN cpc' = "sizes" /\ ck' = 0
     ELSE cpc' = "poll1" /\ UNCHANGED ck
  /\ UNCHANGED <<ci, ret, out, groupVars, bufVars, blockVars, readerVars, conn, proc>>

Poll1 ==
  /\ cpc = "poll1"
  /\ IF AllFull(1)
     THEN cpc' = "sizes" /\ ck' = 1
     ELSE cpc' = "cond" /\ UNCHANGED ck
  /\ UNCHANGED <<ci, ret, out, groupVars, bufVars, blockVars, readerVars, conn, proc>>

SameSizes == \A f \in Files : Len(in_buf[f][ck]) = Len(in_buf[0][ck])

\* buf_xor compares the fill of the buffers; a mismatch is an error, and the
\* caller ignores the result and resets the buffer all the same.
CheckSizes ==
  /\ cpc = "sizes"
  /\ IF SameSizes
     THEN cpc' = "xor" /\ UNCHANGED correct_flag
     ELSE cpc' = "resetnum" /\ correct_flag' = -1
  /\ UNCHANGED <<ci, ck, ret, out, xor_size, xor_flag, buf_full_num,
                 bufVars, blockVars, readerVars, conn, proc>>

\* Byte i of the buffers, one offset per file.
Row(i) == [f \in Files |-> in_buf[f][ck][i]]

\* The XOR of the buffers is written and counted.
XorBuffers ==
  /\ cpc = "xor"
  /\ \A f \in Files : mem[f][ck] = "live"
  /\ out' = out \o [i \in 1..Len(in_buf[0][ck]) |-> Row(i)]
  /\ xor_size' = xor_size + Len(in_buf[0][ck])
  /\ cpc' = IF xor_size' = FileSize THEN "setflag" ELSE "resetnum"
  /\ UNCHANGED <<ci, ck, ret, xor_flag, correct_flag, buf_full_num,
                 bufVars, blockVars, readerVars, conn, proc>>

\* fwrite of the words is short.  What it did write is not modelled: the
\* request ends with an error.
XorWriteFails ==
  /\ cpc = "xor" /\ "fwrite" \in Faults
  /\ \A f \in Files : mem[f][ck] = "live"
  /\ correct_flag' = -1
  /\ cpc' = "resetnum"
  /\ UNCHANGED <<ci, ck, ret, out, xor_size, xor_flag, buf_full_num,
                 bufVars, blockVars, readerVars, conn, proc>>

\* A reader has freed one of the buffers after an error of another one: the
\* XOR touches unmapped memory.
XorFaults ==
  /\ cpc = "xor"
  /\ \E f \in Files : mem[f][ck] # "live"
  /\ proc' = "exit"
  /\ UNCHANGED <<groupVars, bufVars, blockVars, readerVars, coordVars, conn>>

SetXorFlag ==
  /\ cpc = "setflag"
  /\ xor_flag' = 1
  /\ cpc' = "freeall"
  /\ UNCHANGED <<ci, ck, ret, out, xor_size, correct_flag, buf_full_num,
                 bufVars, blockVars, readerVars, conn, proc>>

\* Every buffer is freed; one that a reader has freed already faults.
FreeAll ==
  /\ cpc = "freeall"
  /\ IF \E f \in Files, k \in Bufs : mem[f][k] = "freed"
     THEN proc' = "exit" /\ UNCHANGED <<cpc, mem>>
     ELSE /\ mem' = [f \in Files |-> [k \in Bufs |-> "freed"]]
          /\ cpc' = "resetnum" /\ UNCHANGED proc
  /\ UNCHANGED <<ci, ck, ret, out, buf_flag, in_buf, groupVars, blockVars, readerVars, conn>>

\* Faulty variant: the count is not reset.
ResetNumForgotten ==
  /\ cpc = "resetnum"
  /\ cpc' = "resetflag" /\ ci' = 0
  /\ UNCHANGED <<ck, ret, out, groupVars, bufVars, blockVars, readerVars, conn, proc>>

ResetNum ==
  /\ cpc = "resetnum"
  /\ buf_full_num' = [buf_full_num EXCEPT ![ck] = 0]
  /\ cpc' = "resetflag" /\ ci' = 0
  /\ UNCHANGED <<ck, ret, out, xor_size, xor_flag, correct_flag,
                 bufVars, blockVars, readerVars, conn, proc>>

\* Faulty variant: the flags of the other buffer are reset.
ResetFlagWrongBuffer ==
  /\ cpc = "resetflag" /\ ci < FileNum
  /\ buf_flag' = [buf_flag EXCEPT ![ci][1 - ck] = 0]
  /\ ci' = ci + 1
  /\ cpc' = IF ci + 1 = FileNum THEN "cond" ELSE "resetflag"
  /\ UNCHANGED <<ck, ret, out, in_buf, mem, groupVars, blockVars, readerVars, conn, proc>>

\* The buffers are handed back one file after the other.
ResetFlag ==
  /\ cpc = "resetflag" /\ ci < FileNum
  /\ buf_flag' = [buf_flag EXCEPT ![ci][ck] = 0]
  /\ ci' = ci + 1
  /\ cpc' = IF ci + 1 = FileNum THEN "cond" ELSE "resetflag"
  /\ UNCHANGED <<ck, ret, out, in_buf, mem, groupVars, blockVars, readerVars, conn, proc>>

\* Faulty variant: errors of the readers are not looked at.
KeepWaitingIgnoresErrors == xor_flag = 0

KeepWaiting == xor_flag = 0 /\ correct_flag = 0

LoopCondition ==
  /\ cpc = "cond"
  /\ cpc' = IF KeepWaiting THEN "poll0" ELSE "result"
  /\ UNCHANGED <<ci, ck, ret, out, groupVars, bufVars, blockVars, readerVars, conn, proc>>

Result ==
  /\ cpc = "result"
  /\ Return(IF correct_flag # 0 \/ FileSize # xor_size THEN "ERROR" ELSE "RIGHT")
  /\ UNCHANGED <<ci, ck, out, groupVars, bufVars, blockVars, readerVars, conn, proc>>

-----------------------------------------------------------------------------
(* The data server (external): for each file it sends blocks of a header   *)
(* and at most BlockLen bytes, each after the reply to the one before, and *)
(* closes the connection after the last reply.                             *)

ServerSends(f) ==
  /\ conn[f].st = "idle" /\ conn[f].sent < FileSize
  /\ LET b == Smaller(BlockLen, FileSize - conn[f].sent) IN
       conn' = [conn EXCEPT ![f] = [st |-> "block", hdr |-> 1, unread |-> b, sent |-> @.sent + b]]
  /\ UNCHANGED <<groupVars, bufVars, blockVars, readerVars, coordVars, proc>>

\* It closes; before the whole file is sent and answered only if "fin".
ServerCloses(f) ==
  /\ conn[f].st \in {"idle", "block"}
  /\ (conn[f].st = "idle" /\ conn[f].sent = FileSize) \/ "fin" \in Faults
  /\ conn' = [conn EXCEPT ![f].st = "fin"]
  /\ UNCHANGED <<groupVars, bufVars, blockVars, readerVars, coordVars, proc>>

\* The connection is lost; what was not read is discarded.
ServerResets(f) ==
  /\ conn[f].st \in {"idle", "block", "fin"} /\ "reset" \in Faults
  /\ conn' = [conn EXCEPT ![f].st = "rst", ![f].hdr = 0, ![f].unread = 0]
  /\ UNCHANGED <<groupVars, bufVars, blockVars, readerVars, coordVars, proc>>

-----------------------------------------------------------------------------
Coordinator ==
  \/ OpenOutput \/ OpenOutputFails \/ SpawnReader \/ SpawnFails
  \/ Poll0 \/ Poll1 \/ CheckSizes \/ XorBuffers \/ XorWriteFails \/ XorFaults
  \/ SetXorFlag \/ FreeAll \/ ResetNum \/ ResetFlag \/ LoopCondition \/ Result

Reader(f) ==
  \/ Connect(f) \/ ConnectFails(f)
  \/ \E k \in Bufs : Alloc(f, k) \/ AllocGivesUp(f, k)
  \/ CallbackFrees(f) \/ CallbackReceives(f)
  \/ RecvFails(f) \/ RecvEof(f) \/ RecvHeader(f) \/ RecvSplitHeader(f) \/ RecvMore(f)
  \/ \E k \in Bufs : StoreBrim(f, k) \/ StoreFits(f, k) \/ Rearm(f, k)
  \/ CountLoad(f) \/ CountStore(f)
  \/ CallbackReturns(f)

DataServer(f) == ServerSends(f) \/ ServerCloses(f) \/ ServerResets(f)

Next ==
  /\ proc = "run"
  /\ \/ Coordinator
     \/ \E f \in Files : Reader(f) \/ DataServer(f)

Spec == Init /\ [][Next]_vars

CoordinatorStep == proc = "run" /\ Coordinator
ReaderStep(f)   == proc = "run" /\ Reader(f)

\* The operating system schedules every runnable thread, and libevent's timer
\* fires; nothing is assumed of the data server.
FairSpec == Spec /\ WF_vars(CoordinatorStep) /\ \A f \in Files : WF_vars(ReaderStep(f))

-----------------------------------------------------------------------------
(* Properties.                                                             *)

ReaderPcs == {"none", "connect", "alloc0", "alloc1", "gaveup", "loop", "recv",
              "store", "load", "count", "rearm0", "rearm1", "finish", "exit"}
CoordPcs  == {"open", "spawn", "poll0", "poll1", "sizes", "xor", "setflag", "freeall",
              "resetnum", "resetflag", "cond", "result", "done"}

GroupType ==
  /\ xor_size \in Nat /\ xor_flag \in {0, 1} /\ correct_flag \in {0, -1}
  /\ buf_full_num \in [Bufs -> Nat]

BufType ==
  /\ buf_flag \in [Files -> [Bufs -> {0, 1, 2}]]
  /\ in_buf \in [Files -> [Bufs -> Seq(Nat)]]
  /\ \A f \in Files, k \in Bufs : Len(in_buf[f][k]) <= ReadBufSize
  /\ mem \in [Files -> [Bufs -> {"null", "live", "freed"}]]

BlockType ==
  /\ file_index \in [Files -> Nat]
  /\ write_state \in [Files -> {0, 1}]
  /\ write_index \in [Files -> Nat]
  /\ write_total_size \in [Files -> Nat]

ReaderType ==
  /\ pc \in [Files -> ReaderPcs]
  /\ data \in [Files -> Seq(Nat)]
  /\ \A f \in Files : Len(data[f]) <= MaxLine
  /\ flag \in [Files -> {0, 1}]
  /\ cur \in [Files -> Bufs]
  /\ tmp \in [Files -> Nat]
  /\ cp_size \in [Files -> 0..ReadBufSize]

CoordType ==
  /\ cpc \in CoordPcs /\ ci \in 0..FileNum /\ ck \in Bufs
  /\ ret \in {"none", "RIGHT", "ERROR"}
  /\ out \in Seq([Files -> Nat])

ConnType ==
  /\ conn \in [Files -> [st : {"none", "idle", "block", "fin", "rst"}, hdr : {0, 1},
                         unread : Nat, sent : Nat]]
  /\ \A f \in Files : conn[f].unread <= conn[f].sent

\* Every field of g_tgroupFile, local and connection has values of its type;
\* a buffer never holds more than READ_BUF_SIZE bytes (the memcpy calls of
\* write_buf stay inside in_buf0 and in_buf1).
TypeOK ==
  /\ GroupType /\ BufType /\ BlockType /\ ReaderType /\ CoordType /\ ConnType
  /\ proc \in {"run", "exit"}

\* The coordinator is inside buf_xor, or about to hand the buffer back.
XoringBuffer == cpc \in {"sizes", "xor", "setflag", "freeall", "resetnum"}

\* While buf_xor reads the buffers number ck, no reader can store into one of
\* them or clear it: each is marked full (2), although nothing but the racy
\* counter buf_full_num tells the coordinator so.
BufferExclusion == XoringBuffer => \A f \in Files : buf_flag[f][ck] = 2

\* From the test of judge_xor_condition until the buffers are handed back nobody
\* changes a byte of them: buf_xor, which goes through them word by word, sees
\* what was there at its start.
XoredBuffersStay ==
  [][XoringBuffer => \A f \in Files : in_buf'[f][ck] = in_buf[f][ck]]_vars

\* The files that have filled buffer k and counted it in buf_full_num[k]; while
\* the coordinator hands the buffers back, only those already handed back and
\* filled again count.
Counted(k) ==
  {f \in Files : buf_flag[f][k] = 2 /\ ~(pc[f] \in {"load", "count"} /\ cur[f] = k)}
Fresh(k) == {f \in Counted(k) : cpc = "resetflag" /\ ck = k => f < ci}

\* The unlocked increments of buf_full_num may lose a count but never make one
\* up, neither when they race with each other nor with the reset to 0 in
\* judge_xor_condition.
FullNumNeverOverstates == \A k \in Bufs : buf_full_num[k] <= Cardinality(Fresh(k))

\* The share of each file in the output consists of whole READ_BUF_SIZE chunks:
\* neither the change of buffers in write_buf nor the waiting of a reader tears
\* a chunk apart.
OutputIsWholeChunks ==
  \A f \in Files, i \in 1..Len(out) :
    LET o == out[i][f] IN
      /\ o % ReadBufSize # 0 => i > 1 /\ out[i - 1][f] = o - 1
      /\ (o + 1) % ReadBufSize # 0 /\ o + 1 # FileSize
            => i < Len(out) /\ out[i + 1][f] = o + 1

\* xor_size counts what was written and never passes file_size, so the test
\* xor_size == file_size that ends the transfer (buf_xor) cannot be missed.
XorSizeExact == xor_size = Len(out) /\ xor_size <= FileSize

\* Up to the end of the output (xor_flag) or a reported error (correct_flag)
\* the threads never free a buffer twice nor touch a freed one, so the process
\* survives, unless the data server splits a block header.
SurvivesUntilEnd ==
  proc = "exit" /\ "split" \notin Faults => xor_flag = 1 \/ correct_flag = -1

\* A reader that stores finds a writable buffer, and never one that was freed:
\* write_buf is not entered, nor resumed after its wait, once the group ended.
StoresAreSafe ==
  \A f \in Files : pc[f] = "store" => \E k \in Bufs : Writable(f, k) /\ mem[f][k] = "live"

\* The chunks of file f that are in the output.
ChunksUsed(f) == {out[i][f] \div ReadBufSize : i \in 1..Len(out)}

Stream == INSTANCE ChunkStream
            WITH Size <- FileSize, ChunkSize <- ReadBufSize,
                 used <- [f \in Files |-> ChunksUsed(f)], written <- Len(out), result <- ret

\* What the pair of buffers promises for each file: an XOR uses one whole chunk of
\* every file, no chunk is used twice, at most one older chunk is missing when a
\* chunk is used, and RIGHT is returned only when every chunk has been used
\* (judge_xor_condition).
ImplementsChunkStream == Stream!Spec

\* An error recorded by any thread ends the wait of the coordinator.
ErrorEndsTransfer == correct_flag = -1 ~> cpc = "done" \/ proc = "exit"

\* A reader thread has ended before its file was complete, and has recorded no
\* error: after a malloc that failed (the flag is compared, not set) or a
\* connection that was closed between two blocks.
ReaderLost ==
  /\ correct_flag = 0
  /\ \E f \in Files : pc[f] \in {"exit", "gaveup"} /\ file_index[f] < FileSize

\* create_client_connect_data_server returns, or the process is gone, whatever
\* fails and whenever the data server stops, unless a reader is lost.
TransferReturns == <>(cpc = "done" \/ proc = "exit" \/ ReaderLost)

\* "RIGHT: transferred and XORed correctly" (get_data_client_file_data.h): the
\* output holds the bytes of file 0 in the order of the file.
RightMeansInOrder == ret = "RIGHT" => \A i \in 1..Len(out) : out[i][0] = i - 1

\* The same promise, of the XOR: every output byte combines the same offset of
\* every file.
RightMeansSameOffsets ==
  ret = "RIGHT" => \A i \in 1..Len(out), f \in Files : out[i][f] = out[i][0]
=============================================================================
