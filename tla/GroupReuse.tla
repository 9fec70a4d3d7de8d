----------------------------- MODULE GroupReuse -----------------------------
(***************************************************************************)
(* Several remote requests one after the other or at the same time.  They  *)
(* all use the one g_tgroupFile: a request clears it (memset) and fills it *)
(* in, whatever threads of earlier requests still run, and those go on     *)
(* using the element s_sub of single_file_array, the flags and the buffer  *)
(* pointers they find there.  They also share the descriptor table of the  *)
(* process, where socket() and fopen() take the lowest free number and     *)
(* close() frees a number whoever owns it now.                             *)
(*                                                                         *)
(* GroupTransfer has the details of one transfer.  Here every file is one  *)
(* block of one unit, which a recv takes whole, the XOR of a buffer is one *)
(* step, and so is the increment of buf_full_num; the output stays in the  *)
(* buffer of its FILE until fclose.  A unit of data is the pair of the     *)
(* request whose path was asked for and the index of the file.             *)
(***************************************************************************)
EXTENDS Integers, Sequences, FiniteSets, FiniteSetsExt

CONSTANTS
  Requests,    \* the remote requests, numbered in the order of their start
  MaxFiles,    \* bound on the number of files of one request
  Visitors,    \* the clients without a remote request
  Scenarios    \* files[q] is the number of files of request q; waits: a request
               \* is sent after the reply to the one before; visitors: the
               \* clients without a remote request that connect meanwhile;
               \* limit: the descriptors the process may have open

ASSUME ReuseAssumption ==
  /\ Requests \subseteq Nat \ {0} /\ IsFiniteSet(Requests)
  /\ MaxFiles \in 1..50          \* single_file_array[50]
  /\ Scenarios \subseteq [files : [Requests -> 1..MaxFiles], waits : BOOLEAN,
                          visitors : SUBSET Visitors, limit : Nat]

Slots    == 1..MaxFiles
Bufs     == {0, 1}
Threads  == Requests \X Slots     \* reader i of request q is <<q, i>>
NULL     == <<0, 0>>

\* What a descriptor number can stand for: the output file of a request, the
\* socket process_in_new_thread_file_num creates ("a") and the one
\* connect_to_server puts in its place ("b").  0 is the descriptor of a cleared
\* element: standard input, which is no socket.
Sockets == {<<t[1], x, t[2]>> : t \in Threads, x \in {"a", "b"}}
Outputs == {<<q, "out", 0>> : q \in Requests}
Clients == {<<0, "client", v>> : v \in Visitors}
Nobody  == <<0, "free", 0>>

VARIABLES
  g,       \* the counters and flags of g_tgroupFile
  slot,    \* g_tgroupFile.single_file_array
  co,      \* the request threads (create_client_connect_data_server)
  rd,      \* the reader threads
  heap,    \* the buffers a reader allocates, in_buf0 and in_buf1 together
  fds,     \* the descriptor table
  sock,    \* the connections to the data server
  harmed   \* history: the requests that were refused a descriptor, or lost
           \* one to a close() of another thread

vars == <<g, slot, co, rd, heap, fds, sock, harmed>>

ZeroGroup == [correct |-> 0, xor_flag |-> 0, full |-> [k \in Bufs |-> 0],
              file_size |-> 0, xor_size |-> 0, file_num |-> 0]
ZeroSlot  == [path |-> 0, ptr |-> NULL, flag |-> [k \in Bufs |-> 0],
              size |-> [k \in Bufs |-> 0], fd |-> 0, ev |-> NULL]

MaxUnits == Cardinality(Threads)   \* no more units are ever stored
Junk     == NULL                   \* what a fresh buffer holds

NewThread == [pc |-> "none", fd |-> 0, watch |-> Nobody, hand |-> Junk, quit |-> FALSE]
NewSock   == [st |-> "new", data |-> << >>]
GoneSock  == [st |-> "gone", data |-> << >>]
Fresh     == [k \in Bufs |-> [p \in 1..MaxUnits |-> Junk]]

Files(q) == 1..co[q].files
Fds      == DOMAIN fds

Init ==
  /\ g = ZeroGroup
  /\ slot = [i \in Slots |-> ZeroSlot]
  /\ \E sc \in Scenarios :
     /\ co = [q \in Requests |-> [pc |-> "idle", num |-> 0, fd |-> 0, out |-> << >>,
                                 ret |-> "none", alone |-> TRUE,
                                 files |-> sc.files[q], waits |-> sc.waits]]
     /\ fds = [f \in 3..(sc.limit + 2) |-> Nobody]
     /\ sock = [s \in Sockets \cup Clients |->
                  IF s \in Clients /\ s[3] \notin sc.visitors THEN GoneSock ELSE NewSock]
  /\ rd = [t \in Threads |-> NewThread]
  /\ heap = [t \in Threads |-> [st |-> "none", unit |-> Fresh]]
  /\ harmed = {}

-----------------------------------------------------------------------------
(* The descriptor table and the heap.                                      *)

\* socket() and fopen() return the lowest free number, if there is one.
Free == {f \in Fds : fds[f] = Nobody}

Open(s) == Free # {} /\ fds' = [fds EXCEPT ![Min(Free)] = s]

Refused(q) == Free = {} /\ harmed' = harmed \cup {q} /\ UNCHANGED fds

Lookup(f) == IF f \in Fds THEN fds[f] ELSE Nobody

\* close(f) by the thread or request that believes f to be its own s.
Close(f, s) ==
  /\ fds' = [fds EXCEPT ![f] = Nobody]
  /\ harmed' = IF fds[f] \notin {Nobody, s} THEN harmed \cup {fds[f][1]} ELSE harmed

IsOpen(s) == \E f \in Fds : fds[f] = s

\* free() of a list of pointers: NULL is ignored, a second free() aborts.
DoubleFree(P) == \E p \in P \ {NULL} : heap[p].st = "freed"
Freed(P) == [t \in Threads |-> IF t \in P THEN [st |-> "freed", unit |-> Fresh] ELSE heap[t]]

\* A store to or a load from the buffers of p ends the process (SIGSEGV).
Unusable(p) == p = NULL \/ heap[p].st = "freed"

\* The process is gone, and its memory and its descriptors with it.
Exit ==
  /\ co' = [q \in Requests |-> [co[q] EXCEPT !.pc = "dead"]]
  /\ g' = ZeroGroup /\ slot' = [i \in Slots |-> ZeroSlot]
  /\ rd' = [t \in Threads |-> NewThread]
  /\ heap' = [t \in Threads |-> [st |-> "none", unit |-> Fresh]]
  /\ fds' = [f \in Fds |-> Nobody]
  /\ sock' = [s \in Sockets \cup Clients |-> GoneSock]
  /\ UNCHANGED harmed

-----------------------------------------------------------------------------
(* on_accept and buffered_on_read of a client without a remote request: a  *)
(* descriptor that comes and goes.                                         *)

Accept(s) ==
  /\ sock[s].st = "new" /\ Open(s)
  /\ sock' = [sock EXCEPT ![s].st = "open"]
  /\ UNCHANGED <<g, slot, co, rd, heap, harmed>>

Leave(s) ==
  /\ \E f \in Fds : fds[f] = s /\ Close(f, s)
  /\ sock' = [sock EXCEPT ![s].st = "gone"]
  /\ UNCHANGED <<g, slot, co, rd, heap>>

-----------------------------------------------------------------------------
(* create_client_connect_data_server and judge_xor_condition               *)

\* Request q is being processed, or a thread it has started still runs.
Active(q) ==
  \/ co[q].pc \notin {"idle", "done", "dead"}
  \/ \E i \in Files(q) : rd[<<q, i>>].pc \notin {"none", "end"}

\* Faulty variant: only the elements are cleared.
ClearsElements(q) == UNCHANGED g

\* memset(&g_tgroupFile, 0, ...)
Clears(q) == g' = ZeroGroup

\* memset(&g_tgroupFile, 0, ...).  alone is a history variable: no thread of
\* another request was active at any time between here and the result.
Clear(q) ==
  /\ co[q].pc = "idle"
  /\ \A p \in Requests : p < q => IF co[q].waits THEN co[p].pc = "done" ELSE co[p].pc # "idle"
  /\ Clears(q) /\ slot' = [i \in Slots |-> ZeroSlot]
  /\ LET others == {p \in Requests \ {q} : Active(p)}
     IN  co' = [p \in Requests |->
                  CASE p = q -> [co[p] EXCEPT !.pc = "fill", !.alone = (others = {})]
                    [] p \in others /\ co[p].pc # "done" -> [co[p] EXCEPT !.alone = FALSE]
                    [] OTHER -> co[p]]
  /\ UNCHANGED <<rd, heap, fds, sock, harmed>>

\* The paths and sizes are filled in.
Filled(q) ==
  /\ slot' = [i \in Slots |-> IF i \in Files(q) THEN [slot[i] EXCEPT !.path = q] ELSE slot[i]]
  /\ g' = [g EXCEPT !.file_size = 1, !.file_num = co[q].files]

\* The output file is opened, and one thread per file starts.
Fill(q) ==
  /\ co[q].pc = "fill" /\ Filled(q)
  /\ Open(<<q, "out", 0>>)
  /\ co' = [co EXCEPT ![q].pc = "enter", ![q].fd = Min(Free)]
  /\ rd' = [t \in Threads |-> IF t[1] = q /\ t[2] \in Files(q)
                             THEN [rd[t] EXCEPT !.pc = "socket"] ELSE rd[t]]
  /\ UNCHANGED <<heap, sock, harmed>>

\* fopen fails.
FillFails(q) ==
  /\ co[q].pc = "fill" /\ Filled(q)
  /\ Refused(q)
  /\ co' = [co EXCEPT ![q].pc = "done", ![q].ret = "ERROR"]
  /\ UNCHANGED <<rd, heap, sock>>

\* judge_xor_condition keeps the number of files it finds in a local.
EnterJudge(q) ==
  /\ co[q].pc = "enter"
  /\ co' = [co EXCEPT ![q].pc = "judge", ![q].num = g.file_num]
  /\ UNCHANGED <<g, slot, rd, heap, fds, sock, harmed>>

\* Which buffer the coordinator takes: buffer 0 before buffer 1.
Turn(q) == IF g.full[0] = co[q].num THEN {0}
           ELSE IF g.full[1] = co[q].num THEN {1} ELSE {}

\* After a round over buffer k the counter and the flags are reset; group is
\* what buf_xor has made of g.
RoundOver(q, k, group, out) ==
  /\ g' = [group EXCEPT !.full[k] = 0]
  /\ slot' = [i \in Slots |-> IF i <= co[q].num THEN [slot[i] EXCEPT !.flag[k] = 0] ELSE slot[i]]
  /\ co' = [co EXCEPT ![q].pc = "test", ![q].out = out]
  /\ UNCHANGED <<rd, fds, sock, harmed>>

Uneven(q, k) == \E i \in 1..co[q].num : slot[i].size[k] # slot[1].size[k]

\* buf_xor XORs the buffers k of the first num elements, if they are equally
\* full, and, when xor_size is file_size, ends the group and frees the buffers.
Round(q) ==
  /\ co[q].pc = "judge" /\ co[q].num > 0
  /\ \E k \in Turn(q) :
       LET used == 1..co[q].num
           ptrs == {slot[i].ptr : i \in used}
           size == slot[1].size[k]
           over == g.xor_size + size = g.file_size
           unit(p) == {heap[slot[i].ptr].unit[k][p] : i \in used}
       IN  IF Uneven(q, k)
           THEN RoundOver(q, k, [g EXCEPT !.correct = -1], co[q].out) /\ UNCHANGED heap
           ELSE IF (size > 0 /\ \E p \in ptrs : Unusable(p)) \/ (over /\ DoubleFree(ptrs))
           THEN Exit
           ELSE /\ RoundOver(q, k, [g EXCEPT !.xor_size = @ + size,
                                             !.xor_flag = IF over THEN 1 ELSE @],
                             co[q].out \o [p \in 1..size |-> unit(p)])
                /\ heap' = IF over THEN Freed(ptrs) ELSE heap

\* Without files num0 is never assigned: the process ends, or num0 happens to
\* be 0 (any other value makes fwrite read from a wild pointer).
RoundEmpty(q) ==
  /\ co[q].pc = "judge" /\ co[q].num = 0
  /\ \E k \in Turn(q) :
       \/ Exit
       \/ /\ RoundOver(q, k, [g EXCEPT !.xor_flag = IF g.xor_size = g.file_size THEN 1 ELSE @],
                       co[q].out)
          /\ UNCHANGED heap

\* while (xor_flag == 0 && correct_flag == 0), after a round or, when no buffer
\* was full for every file, after usleep.
LoopTest(q) ==
  LET more == g.xor_flag = 0 /\ g.correct = 0
  IN  /\ co[q].pc = "test" \/ (co[q].pc = "judge" /\ ~more)
      /\ co' = [co EXCEPT ![q].pc = IF more THEN "judge" ELSE "verdict"]
  /\ UNCHANGED <<g, slot, rd, heap, fds, sock, harmed>>

\* Faulty variant: the output file is not closed.
CloseOutputForgotten(q) == UNCHANGED <<fds, harmed>>

\* fclose(out_fd)
CloseOutput(q) == Close(co[q].fd, <<q, "out", 0>>)

\* The result, from the fields as they are now, and fclose of the output file.
\* What fwrite has kept is lost if the descriptor is no longer the file.
Verdict(q) ==
  LET own == <<q, "out", 0>>
  IN  /\ co[q].pc = "verdict"
      /\ co' = [co EXCEPT ![q].pc = "done",
                          ![q].ret = IF g.correct # 0 \/ g.file_size # g.xor_size
                                     THEN "ERROR" ELSE "RIGHT",
                          ![q].out = IF fds[co[q].fd] = own THEN @ ELSE << >>]
      /\ CloseOutput(q)
      /\ UNCHANGED <<g, slot, rd, heap, sock>>

-----------------------------------------------------------------------------
(* process_in_new_thread_file_num: the start of a reader thread.           *)

Goto(t, l) == rd' = [rd EXCEPT ![t].pc = l]

\* The thread returns; its locals are gone.
End(t) == rd' = [rd EXCEPT ![t] = [NewThread EXCEPT !.pc = "end"]]

\* correct_flag = -1; return.
GiveUp(t) == g' = [g EXCEPT !.correct = -1] /\ End(t)

\* The first socket; its number is overwritten by the second and never closed.
FirstSocket(t) ==
  /\ rd[t].pc = "socket"
  /\ \/ Open(<<t[1], "a", t[2]>>) /\ Goto(t, "socket2") /\ UNCHANGED <<g, harmed>>
     \/ Refused(t[1]) /\ GiveUp(t)
  /\ UNCHANGED <<slot, co, heap, sock>>

Own(t) == <<t[1], "b", t[2]>>

\* Faulty variant: the result of socket() is not looked at.
SocketFailsUnseen(t) == rd' = [rd EXCEPT ![t].pc = "connect", ![t].fd = -1] /\ UNCHANGED g

\* connect_to_server returns an error.
SocketFails(t) == GiveUp(t)

\* The socket of the connection, in the place of the first.
SecondSocket(t) ==
  /\ rd[t].pc = "socket2"
  /\ \/ /\ Open(Own(t)) /\ UNCHANGED <<g, harmed>>
        /\ rd' = [rd EXCEPT ![t].pc = "connect", ![t].fd = Min(Free)]
     \/ Refused(t[1]) /\ SocketFails(t)
  /\ UNCHANGED <<slot, co, heap, sock>>

\* connect fails on anything but a socket that is not connected yet.
Connect(t) ==
  LET s == fds[rd[t].fd]
  IN  /\ rd[t].pc = "connect"
      /\ IF s \in Sockets /\ sock[s].st = "new"
         THEN sock' = [sock EXCEPT ![s].st = "open"] /\ Goto(t, "header") /\ UNCHANGED <<g, fds, harmed>>
         ELSE Close(rd[t].fd, Own(t)) /\ GiveUp(t) /\ UNCHANGED sock
      /\ UNCHANGED <<slot, co, heap>>

\* The data server, as far as the code in src/ relies on it: it answers a
\* header with the file it names, if there is one, and closes the connection.
\* How long that takes shows in when the callbacks run.
Served(c, tag) == [st |-> "fin", data |-> IF tag[1] = 0 THEN c.data ELSE Append(c.data, tag)]

\* socket_write_header asks for the path that is in the element now.
Header(t) ==
  LET s == fds[rd[t].fd]
  IN  /\ rd[t].pc = "header"
      /\ IF s \in Sockets /\ sock[s].st # "new"
         THEN /\ sock' = [sock EXCEPT ![s] = Served(@, <<slot[t[2]].path, t[2]>>)]
              /\ Goto(t, "alloc") /\ UNCHANGED <<g, fds, harmed>>
         ELSE Close(rd[t].fd, Own(t)) /\ GiveUp(t) /\ UNCHANGED sock
      /\ UNCHANGED <<slot, co, heap>>

\* malloc of the buffers; a group that has failed ends the thread, which
\* leaves its socket open.
Alloc(t) ==
  /\ rd[t].pc = "alloc"
  /\ slot' = [slot EXCEPT ![t[2]].ptr = t]
  /\ heap' = [heap EXCEPT ![t].st = "live"]
  /\ IF g.correct = -1 THEN End(t) ELSE Goto(t, "arm")
  /\ UNCHANGED <<g, co, fds, sock, harmed>>

\* The flags, the descriptor and the event; event_add fails on a closed
\* descriptor, and the loop then ends at once.
Arm(t) ==
  LET s == fds[rd[t].fd]
  IN  /\ rd[t].pc = "arm"
      /\ slot' = [slot EXCEPT ![t[2]].flag = [k \in Bufs |-> 1 - k],
                              ![t[2]].fd = rd[t].fd, ![t[2]].ev = t]
      /\ rd' = [rd EXCEPT ![t].pc = IF s \in Sockets THEN "loop" ELSE "close", ![t].watch = s]
      /\ UNCHANGED <<g, co, heap, fds, sock, harmed>>

-----------------------------------------------------------------------------
(* socket_read_file_data, the callback of the event loop, and write_buf.   *)

\* The socket the event was added for has something to read.  A socket that
\* is closed has left the event loop.
Readable(s) == IsOpen(s) /\ (sock[s].data # << >> \/ sock[s].st = "fin")

\* Nothing will come any more, and the timeout of 60 s calls the callback.
Silent(s) == ~IsOpen(s) \/ sock[s].st # "fin"

Fires(t) == /\ rd[t].pc = "loop" /\ ~rd[t].quit
            /\ Readable(rd[t].watch) \/ Silent(rd[t].watch)

GroupEnded == g.xor_flag = 1 \/ g.correct = -1

\* The event stays registered, so the next event frees the buffers again.
CallbackFrees(t) ==
  /\ Fires(t) /\ GroupEnded
  /\ LET p == {slot[t[2]].ptr}
     IN  IF DoubleFree(p) THEN Exit
         ELSE heap' = Freed(p) /\ UNCHANGED <<g, slot, co, rd, fds, sock, harmed>>

\* recv reads from the descriptor that is in the element now.
Source(t) == Lookup(slot[t[2]].fd)

CallbackReads(t) ==
  /\ Fires(t) /\ ~GroupEnded
  /\ Source(t) \in Sockets /\ sock[Source(t)].data # << >>
  /\ rd' = [rd EXCEPT ![t].pc = "store", ![t].hand = Head(sock[Source(t)].data)]
  /\ sock' = [sock EXCEPT ![Source(t)].data = Tail(@)]
  /\ UNCHANGED <<g, slot, co, heap, fds, harmed>>

\* Faulty variant: every result of recv that is not positive is an error.
AtEofIsError(s) == FALSE

\* recv returned 0.
AtEof(s) == s \in Sockets /\ sock[s].st = "fin"

\* recv returns 0 at the end of the connection; an element without a
\* descriptor, a descriptor that is no socket, or 10 s without data give -1.
\* The event deleted, and the loop ended, are those in the element.
CallbackEnds(t) ==
  LET s == Source(t)
      e == slot[t[2]].ev
      ends == g' = IF AtEof(s) THEN g ELSE [g EXCEPT !.correct = -1]
  IN  /\ Fires(t) /\ ~GroupEnded
      /\ s \in Sockets => sock[s].data = << >>
      /\ \/ e = NULL /\ Exit
         \/ /\ e # NULL /\ rd[e].pc \in {"loop", "store"} /\ ~rd[e].quit
            /\ rd' = [rd EXCEPT ![e].quit = TRUE]
            /\ ends
            /\ Close(rd[t].fd, Own(t))
            /\ UNCHANGED <<slot, co, heap, sock>>
         \* the event and its base have been freed before: undefined
         \/ /\ e # NULL /\ (rd[e].pc \notin {"loop", "store"} \/ rd[e].quit)
            /\ \/ Exit
               \/ /\ ends
                  /\ Close(rd[t].fd, Own(t))
                  /\ UNCHANGED <<slot, co, rd, heap, sock>>

\* Faulty variant: buf_full_num is not incremented.
CountForgotten(k) == UNCHANGED g

\* buf_full_num[k]++
Count(k) == g' = [g EXCEPT !.full[k] = @ + 1]

\* write_buf puts the block into the buffer whose flag is 1.
Store(t) ==
  /\ rd[t].pc = "store"
  /\ LET e == slot[t[2]]
         k == IF e.flag[0] = 1 THEN 0 ELSE 1
     IN  /\ e.flag[k] = 1
         /\ IF Unusable(e.ptr) THEN Exit
            ELSE /\ heap' = [heap EXCEPT ![e.ptr].unit[k][e.size[k] + 1] = rd[t].hand]
                 /\ slot' = [slot EXCEPT ![t[2]].size[k] = @ + 1, ![t[2]].flag[k] = 2]
                 /\ Count(k)
                 /\ rd' = [rd EXCEPT ![t].pc = "loop", ![t].hand = Junk]
                 /\ UNCHANGED <<co, fds, sock, harmed>>

\* An empty buffer is cleared and becomes the one to fill; buffer 0 first.
Prepare(t) ==
  /\ rd[t].pc = "store"
  /\ LET e == slot[t[2]]
         k == IF e.flag[0] = 0 THEN 0 ELSE 1
     IN  /\ e.flag[k] = 0 /\ e.flag[1 - k] # 1
         /\ IF Unusable(e.ptr) THEN Exit
            ELSE /\ slot' = [slot EXCEPT ![t[2]].flag[k] = 1, ![t[2]].size[k] = 0]
                 /\ heap' = [heap EXCEPT ![e.ptr].unit[k] = Fresh[k]]
                 /\ UNCHANGED <<g, co, rd, fds, sock, harmed>>

\* event_base_dispatch returns.
LoopEnds(t) ==
  /\ rd[t].pc = "loop" /\ rd[t].quit
  /\ Goto(t, "close")
  /\ UNCHANGED <<g, slot, co, heap, fds, sock, harmed>>

\* close(sock_fd) after the loop, for the second time if the callback has
\* closed it.
LastClose(t) ==
  /\ rd[t].pc = "close"
  /\ Close(rd[t].fd, Own(t))
  /\ End(t)
  /\ UNCHANGED <<g, slot, co, heap, sock>>

-----------------------------------------------------------------------------
Coordinator(q) ==
  \/ Fill(q) \/ FillFails(q) \/ EnterJudge(q)
  \/ Round(q) \/ RoundEmpty(q) \/ LoopTest(q) \/ Verdict(q)

Reader(t) ==
  \/ FirstSocket(t) \/ SecondSocket(t) \/ Connect(t) \/ Header(t) \/ Alloc(t) \/ Arm(t)
  \/ CallbackFrees(t) \/ CallbackReads(t) \/ CallbackEnds(t)
  \/ Store(t) \/ Prepare(t) \/ LoopEnds(t) \/ LastClose(t)

Next ==
  \/ \E q \in Requests : Clear(q) \/ Coordinator(q)
  \/ \E t \in Threads : Reader(t)
  \/ \E s \in Clients : Accept(s) \/ Leave(s)

Spec == Init /\ [][Next]_vars

\* The threads run; a callback that has nothing to read runs after 60 s.
FairSpec ==
  /\ Spec
  /\ \A q \in Requests : WF_vars(Coordinator(q))
  /\ \A t \in Threads : WF_vars(Reader(t))

-----------------------------------------------------------------------------
(* Properties.                                                             *)

Units  == Threads \cup {NULL}
Things == {Nobody} \cup Sockets \cup Outputs \cup Clients

CoPcs == {"idle", "fill", "enter", "judge", "test", "verdict", "done", "dead"}
RdPcs == {"none", "socket", "socket2", "connect", "header", "alloc", "arm", "loop",
          "store", "close", "end"}

Groups == [correct : {0, -1}, xor_flag : 0..1, full : [Bufs -> Nat],
           file_size : 0..1, xor_size : Nat, file_num : 0..MaxFiles]
Elements == [path : {0} \cup Requests, ptr : Units, flag : [Bufs -> 0..2],
             size : [Bufs -> Nat], fd : {0} \cup Fds, ev : Units]

GroupType == g \in Groups /\ slot \in [Slots -> Elements]

Coordinators(outs) ==
  [pc : CoPcs, num : 0..MaxFiles, fd : {0} \cup Fds, out : outs,
   ret : {"none", "RIGHT", "ERROR"}, alone : BOOLEAN, files : Slots, waits : BOOLEAN]

CoType ==
  /\ co \in [Requests -> Coordinators({co[q].out : q \in Requests})]
  /\ \A q \in Requests : co[q].fd \in Fds \/ co[q].pc \in {"idle", "fill", "done", "dead"}

Readers ==
  [pc : RdPcs, fd : {0} \cup Fds, watch : Things, hand : Units, quit : BOOLEAN]

RdType ==
  /\ rd \in [Threads -> Readers]
  /\ \A t \in Threads :
       /\ rd[t].fd \in Fds \/ rd[t].pc \in {"none", "socket", "socket2", "end"}
       /\ rd[t].watch \in Sockets \/ rd[t].pc \notin {"loop", "store"}

Buffers     == [st : {"none", "live", "freed"}, unit : [Bufs -> [1..MaxUnits -> Units]]]
Connections == [st : {"new", "open", "fin", "gone"}, data : Seq(Threads)]

TableType ==
  /\ Fds \subseteq Nat
  /\ fds \in [Fds -> Things]
  /\ heap \in [Threads -> Buffers]
  /\ sock \in [Sockets \cup Clients -> Connections]
  /\ harmed \subseteq Requests \cup {0}

\* Every path asked for is that of a request, every number a thread or a request
\* holds is one that socket() or fopen() has returned.
Types == GroupType /\ CoType /\ RdType /\ TableType

\* No more units are counted or stored than there are readers, whoever counts and
\* into whichever buffer, and what is XORed are units.  (xor_size has no such
\* bound: a buffer is XORed again when a new thread only sets its flag.)
UnitsFit ==
  /\ \A k \in Bufs : g.full[k] <= MaxUnits /\ \A i \in Slots : slot[i].size[k] <= MaxUnits
  /\ \A q \in Requests : co[q].out \in Seq(SUBSET Units)

\* Every variable has values of its type, and no buffer is filled beyond its end.
TypeOK == Types /\ UnitsFit

\* The XOR of the files of request q, once.
OwnOutput(q) == << {<<q, i>> : i \in Files(q)} >>

\* RIGHT says that the files were transferred and XORed correctly (comment of
\* create_client_connect_data_server, get_data_client_file_data.h): the output
\* then holds the XOR of the files of this request and nothing else.
RightMeansOwnFiles ==
  \A q \in Requests : co[q].ret = "RIGHT" => co[q].out = OwnOutput(q)

\* The same for a request that is alone, from its memset to its result: when
\* all threads of earlier requests have ended, nothing they have left in
\* g_tgroupFile, on the heap or in the descriptor table reaches its output.
LoneRightMeansOwnFiles ==
  \A q \in Requests : co[q].ret = "RIGHT" /\ co[q].alone => co[q].out = OwnOutput(q)

\* With a data server that answers, a request that is alone fails only if it
\* was refused a descriptor, or lost one to the second close() of a thread that
\* had closed its socket before (512, 525 and 743).
LoneFailsForCause ==
  \A q \in Requests : co[q].ret = "ERROR" /\ co[q].alone => q \in harmed

\* A request that is alone and keeps its descriptors returns, or the process
\* ends.
LoneReturns ==
  \A q \in Requests :
    co[q].pc = "fill" ~> co[q].pc \in {"done", "dead"} \/ ~co[q].alone \/ q \in harmed

Owned(q) == {s \in Sockets \cup Outputs : s[1] = q /\ IsOpen(s)}

\* What is left open of a request that was alone and succeeded, when all its
\* threads have ended: the first socket of each reader (642), which no code
\* closes, and nothing else.
LeaksOnePerFile ==
  \A q \in Requests :
    co[q].pc = "done" /\ co[q].ret = "RIGHT" /\ co[q].alone /\ ~Active(q) /\ q \notin harmed
      => Owned(q) = {<<q, "a", i>> : i \in Files(q)}
=============================================================================
