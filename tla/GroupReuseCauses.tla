-------------------------- MODULE GroupReuseCauses --------------------------
(***************************************************************************)
(* Proofs about GroupReuse: a request that is alone fails only for want of *)
(* a descriptor, and when it has returned RIGHT and its readers have ended *)
(* it leaves exactly one socket per file open.  The invariant follows the  *)
(* descriptors of a request that has neither been refused one nor lost one *)
(* to a close() of another thread: each is where the thread that opened it *)
(* remembers it, although every reader closes its number twice.            *)
(***************************************************************************)
EXTENDS GroupReuseProofs

Working == {"enter", "judge", "test", "verdict"}

\* The request is alone and has lost nothing so far, or was when it succeeded.
Good(q) ==
  /\ co[q].alone /\ q \notin harmed
  /\ co[q].pc \in Live \/ (co[q].pc = "done" /\ co[q].ret = "RIGHT")

\* Before its threads start, none of its descriptors has been used.
Unused(q) ==
  co[q].pc \in {"idle", "fill"} =>
    /\ \A s \in OwnSockets(q) : sock[s].st = "new"
    /\ ~IsOpen(<<q, "out", 0>>)

\* An open event socket or output is open where its thread has it, once; the first
\* socket of a reader stays open for ever.
Held(q) ==
  /\ \A i \in Slots, f \in Fds : fds[f] = Own(<<q, i>>) =>
       rd[<<q, i>>].pc \in HasSocket /\ rd[<<q, i>>].fd = f
  /\ \A f \in Fds : fds[f] = <<q, "out", 0>> => co[q].pc \in Working /\ co[q].fd = f
  /\ \A i \in Slots : IsOpen(<<q, "a", i>>) <=> rd[<<q, i>>].pc \notin {"none", "socket"}

\* A reader that has not ended its loop has its socket, as far as it has brought it.
Attached(t) ==
  /\ rd[t].pc \in {"none", "socket", "socket2", "connect"} => sock[Own(t)].st = "new"
  /\ rd[t].pc = "header" => sock[Own(t)].st = "open"
  /\ rd[t].pc \in {"alloc", "arm", "loop", "store"} => sock[Own(t)].st = "fin"
  /\ \/ rd[t].pc \in {"connect", "header", "alloc", "arm"}
     \/ rd[t].pc \in {"loop", "store"} /\ ~rd[t].quit
     => fds[rd[t].fd] = Own(t)

\* No error has been recorded, and nothing has happened that could be one.
Sound(q) ==
  /\ g.correct = 0
  /\ \A i \in Slots : Attached(<<q, i>>)
  /\ co[q].pc = "verdict" => Xored(q)

\* No reader is before its loop any more.
Late(q) == \A i \in Files(q) : rd[<<q, i>>].pc \in {"loop", "store", "close", "end"}

Causes(q) ==
  Good(q) => /\ Held(q)
             /\ Busy(q) => Sound(q)
             /\ ~Busy(q) \/ Xored(q) => Late(q)

CInv ==
  /\ IInv /\ \A q \in Requests : Unused(q) /\ Causes(q)
  /\ LoneFailsForCause

-----------------------------------------------------------------------------
(* The descriptor table.                                                   *)

\* The sockets and the output of a request, and what a step does to them.
OwnThings(q) == {s \in Sockets \cup Outputs : s[1] = q}

Same(q) == \A x \in OwnThings(q), f \in Fds : fds'[f] = x <=> fds[f] = x

\* What belongs to a request: its sockets and its output.
LEMMA OwnFacts ==
  ASSUME NEW q \in Requests
  PROVE  /\ \A i \in Slots : /\ Own(<<q, i>>) = <<q, "b", i>>
                             /\ Own(<<q, i>>) \in OwnThings(q) /\ <<q, "a", i>> \in OwnThings(q)
                             /\ Own(<<q, i>>) \in Sockets
         /\ <<q, "out", 0>> \in OwnThings(q)
         /\ \A x \in OwnThings(q) : x \in Things /\ x # Nobody /\ x \notin Clients /\ x[1] = q
         /\ OwnThings(q)' = OwnThings(q) /\ Slots' = Slots
<1>1. \A i \in Slots : /\ Own(<<q, i>>) = <<q, "b", i>> /\ Own(<<q, i>>) \in Sockets
                       /\ <<q, "a", i>> \in Sockets
  <2>1. ASSUME NEW i \in Slots
        PROVE  /\ Own(<<q, i>>) = <<q, "b", i>> /\ Own(<<q, i>>) \in Sockets
               /\ <<q, "a", i>> \in Sockets
    <3> DEFINE t == <<q, i>>
    <3>1. t \in Threads /\ t[1] = q /\ t[2] = i
      BY ThreadFacts
    <3> HIDE DEF t
    <3>2. Own(t) = <<q, "b", i>> /\ Own(t) \in Sockets /\ <<q, "a", i>> \in Sockets
      BY <3>1, ThingFacts DEF Own
    <3>3. QED
      BY <3>2 DEF t
  <2>2. QED
    BY <2>1
<1>2. <<q, "out", 0>> \in Outputs
  BY ThingFacts
<1>3. \A x \in OwnThings(q) : x \in Things /\ x # Nobody /\ x \notin Clients /\ x[1] = q
  BY ThingFacts DEF OwnThings, Things
<1>4. OwnThings(q)' = OwnThings(q) /\ Slots' = Slots
  BY DEF OwnThings, Sockets, Outputs, Threads, Slots
<1>5. QED
  BY <1>1, <1>2, <1>3, <1>4 DEF OwnThings

\* The third of the sockets, the socket and the output are different things.
LEMMA OwnDiffer ==
  ASSUME NEW q \in Requests, NEW i \in Slots, NEW j \in Slots
  PROVE  /\ Own(<<q, i>>) = Own(<<q, j>>) => i = j
         /\ <<q, "a", i>> = <<q, "a", j>> => i = j
         /\ Own(<<q, i>>) # <<q, "a", j>> /\ Own(<<q, i>>) # <<q, "out", 0>>
         /\ <<q, "a", i>> # <<q, "out", 0>>
BY DEF Own

\* A newly opened thing changes what belongs to a request at its own descriptor only.
LEMMA OpenThings ==
  ASSUME Types, NEW q \in Requests, NEW s, Open(s)
  PROVE  \A x \in OwnThings(q), f \in Fds :
           fds'[f] = x <=> fds[f] = x \/ (x = s /\ f = Min(Free))
<1>1. /\ Min(Free) \in Fds /\ fds[Min(Free)] = Nobody
      /\ fds' = [fds EXCEPT ![Min(Free)] = s]
  BY OpenFacts DEF Types
<1>2. \A x \in OwnThings(q) : x # Nobody
  BY OwnFacts
<1>3. QED
  BY <1>1, <1>2 DEF Types, TableType

\* Who closes a descriptor of q that is not its own harms q.
LEMMA CloseThings ==
  ASSUME Types, NEW q \in Requests, NEW d, NEW s, Close(d, s), d \in Fds, q \notin harmed'
  PROVE  \A x \in OwnThings(q), f \in Fds :
           fds'[f] = x <=> fds[f] = x /\ ~(x = s /\ f = d)
<1>1. /\ fds' = [fds EXCEPT ![d] = Nobody]
      /\ fds[d] \notin {Nobody, s} => fds[d][1] # q
  BY DEF Close
<1>2. \A x \in OwnThings(q) : x # Nobody /\ x[1] = q
  BY OwnFacts
<1>3. QED
  BY <1>1, <1>2 DEF Types, TableType

\* A step on the descriptors for a thing of others leaves those of an unharmed request.
LEMMA OthersThings ==
  ASSUME Types, NEW q \in Requests, NEW s, s \notin OwnThings(q), q \notin harmed',
         \/ UNCHANGED fds
         \/ Open(s)
         \/ \E d \in Fds : Close(d, s)
  PROVE  Same(q) /\ Fds' = Fds
<1>1. Same(q)
  BY OpenThings, CloseThings DEF Same
<1>2. Fds' = Fds
  BY DEF Open, Close, Fds
<1>3. QED
  BY <1>1, <1>2

\* Harm is never undone.
LEMMA HarmGrows ==
  ASSUME [Next]_vars
  PROVE  harmed \subseteq harmed'
<1>1. ASSUME NEW d, NEW s, Close(d, s)
      PROVE  harmed \subseteq harmed'
  BY <1>1 DEF Close
<1>2. ASSUME NEW p, Refused(p)
      PROVE  harmed \subseteq harmed'
  BY <1>2 DEF Refused
<1>3. CASE Exit
  BY <1>3 DEF Exit
<1>4. ASSUME NEW p \in Requests, Clear(p) \/ Coordinator(p), ~Exit
      PROVE  harmed \subseteq harmed'
  <2>1. \/ UNCHANGED harmed
        \/ Refused(p)
        \/ Close(co[p].fd, <<p, "out", 0>>)
    BY <1>4 DEF Clear, Coordinator, Fill, FillFails, EnterJudge, LoopTest, Verdict, CloseOutput,
       Round, RoundEmpty, RoundOver
  <2>2. QED
    BY <1>1, <1>2, <2>1
<1>5. ASSUME NEW t \in Threads, Reader(t), ~Exit
      PROVE  harmed \subseteq harmed'
  <2>1. \/ UNCHANGED harmed
        \/ Refused(t[1])
        \/ Close(rd[t].fd, Own(t))
    BY <1>5 DEF Reader, FirstSocket, SecondSocket, Connect, Header, Alloc, Arm, CallbackFrees,
       CallbackReads, CallbackEnds, Store, Prepare, LoopEnds, LastClose
  <2>2. QED
    BY <1>1, <1>2, <2>1
<1>6. ASSUME NEW s \in Clients, Accept(s) \/ Leave(s)
      PROVE  harmed \subseteq harmed'
  <2>1. UNCHANGED harmed \/ \E f \in Fds : Close(f, s)
    BY <1>6 DEF Accept, Leave
  <2>2. QED
    BY <1>1, <2>1
<1>7. CASE UNCHANGED vars
  BY <1>7 DEF vars
<1>8. QED
  BY <1>3, <1>4, <1>5, <1>6, <1>7 DEF Next

-----------------------------------------------------------------------------
(* Before a request starts.                                                *)

\* Until its threads start a request uses no descriptor.
LEMMA UnusedNext ==
  ASSUME Types, Next, NEW q \in Requests, Start(q), Unused(q)
  PROVE  Unused(q)'
<1>1. /\ sock \in [Sockets \cup Clients -> Connections] /\ OwnSockets(q)' = OwnSockets(q)
      /\ \A s \in OwnSockets(q) : s \in Sockets /\ s # Nobody /\ s \notin Clients
      /\ <<q, "out", 0>> \in Things /\ <<q, "out", 0>> # Nobody
      /\ <<q, "out", 0>> \notin Sockets /\ <<q, "out", 0>> \notin Clients
  <2>1. OwnSockets(q)' = OwnSockets(q)
    BY DEF OwnSockets, Sockets, Threads, Slots
  <2>2. QED
    BY <2>1, ThingFacts DEF OwnSockets, Types, TableType, Things
<1>2. SUFFICES ASSUME co'[q].pc \in {"idle", "fill"}
               PROVE  /\ \A s \in OwnSockets(q) : sock'[s].st = "new"
                      /\ ~IsOpen(<<q, "out", 0>>)'
  BY <1>1 DEF Unused
<1>3. ~Exit
  BY <1>2, ExitFrame
<1>4. ASSUME co[q].pc \in {"idle", "fill"}
      PROVE  /\ \A s \in OwnSockets(q) : sock[s].st = "new" /\ ~IsOpen(s)
             /\ ~IsOpen(<<q, "out", 0>>)
  BY <1>4 DEF Unused, Start, BeforeStart
<1>5. ASSUME NEW p \in Requests, Clear(p)
      PROVE  /\ \A s \in OwnSockets(q) : sock'[s].st = "new"
             /\ ~IsOpen(<<q, "out", 0>>)'
  <2>1. co[q].pc \in {"idle", "fill"} /\ UNCHANGED <<fds, sock>>
    BY <1>2, <1>5, ClearFrame
  <2>2. QED
    BY <1>4, <2>1 DEF IsOpen, Fds
<1>6. ASSUME NEW p \in Requests, Coordinator(p)
      PROVE  /\ \A s \in OwnSockets(q) : sock'[s].st = "new"
             /\ ~IsOpen(<<q, "out", 0>>)'
  <2>1. p # q /\ co[q].pc \in {"idle", "fill"} /\ UNCHANGED sock
    BY <1>2, <1>3, <1>6, CoordinatorFrame
  <2>2. \/ UNCHANGED fds \/ Open(<<p, "out", 0>>) \/ Close(co[p].fd, <<p, "out", 0>>)
    BY <1>3, <1>6 DEF Coordinator, Fill, FillFails, EnterJudge, LoopTest, Verdict, CloseOutput,
       Round, RoundEmpty, RoundOver, Refused
  <2>3. <<p, "out", 0>> \in Things /\ <<p, "out", 0>> # <<q, "out", 0>>
    BY <2>1, ThingFacts DEF Things
  <2>4. QED
    BY <1>1, <1>4, <2>1, <2>2, <2>3, Opened
<1>7. ASSUME NEW t \in Threads, Reader(t)
      PROVE  /\ \A s \in OwnSockets(q) : sock'[s].st = "new"
             /\ ~IsOpen(<<q, "out", 0>>)'
  <2>1. co[q].pc \in {"idle", "fill"}
    BY <1>2, <1>3, <1>7, ReaderFrame
  <2>2. /\ \A s \in OwnSockets(q) : sock[s].st = "new" /\ ~IsOpen(s)
        /\ ~IsOpen(<<q, "out", 0>>)
    BY <1>4, <2>1
  <2>3. \/ UNCHANGED fds
        \/ Open(Own(t)) \/ Open(<<t[1], "a", t[2]>>)
        \/ Close(rd[t].fd, Own(t))
    BY <1>3, <1>7, ReaderTable
  <2>4. /\ Own(t) \in Sockets /\ <<t[1], "a", t[2]>> \in Sockets
        /\ Own(t) \in Things /\ <<t[1], "a", t[2]>> \in Things
    BY ThingFacts DEF Things
  <2>5. ~IsOpen(<<q, "out", 0>>)'
    BY <1>1, <2>2, <2>3, <2>4, Opened
  <2>6. ASSUME NEW s \in OwnSockets(q)
        PROVE  sock'[s].st = "new"
    <3>1. CASE Connect(t) \/ Header(t)
      <4>1. rd[t].fd \in Fds
        BY <3>1 DEF Connect, Header, Types, RdType
      <4>2. fds[rd[t].fd] # s
        BY <2>2, <4>1 DEF IsOpen
      <4>3. sock' = sock \/ \E c : sock' = [sock EXCEPT ![fds[rd[t].fd]] = c]
        <5>1. CASE Connect(t)
          BY <5>1 DEF Connect
        <5>2. CASE Header(t)
          BY <5>2 DEF Header
        <5>3. QED
          BY <3>1, <5>1, <5>2
      <4>4. QED
        BY <1>1, <2>2, <4>2, <4>3
    <3>2. CASE CallbackReads(t)
      <4>1. \E x : sock' = [sock EXCEPT ![Source(t)].data = x]
        BY <3>2 DEF CallbackReads
      <4>2. QED
        BY <1>1, <2>2, <4>1 DEF Connections
    <3>3. UNCHANGED sock \/ Connect(t) \/ Header(t) \/ CallbackReads(t)
      BY <1>3, <1>7 DEF Reader, FirstSocket, SecondSocket, Alloc, Arm, CallbackFrees,
         CallbackEnds, Store, Prepare, LoopEnds, LastClose
    <3>4. QED
      BY <2>2, <3>1, <3>2, <3>3
  <2>7. QED
    BY <2>5, <2>6
<1>8. ASSUME NEW c \in Clients, Accept(c) \/ Leave(c)
      PROVE  /\ \A s \in OwnSockets(q) : sock'[s].st = "new"
             /\ ~IsOpen(<<q, "out", 0>>)'
  <2>1. co[q].pc \in {"idle", "fill"}
    BY <1>2, <1>8 DEF Accept, Leave
  <2>2. Open(c) \/ \E f \in Fds : Close(f, c)
    BY <1>8 DEF Accept, Leave
  <2>3. \E x : sock' = [sock EXCEPT ![c].st = x]
    BY <1>8 DEF Accept, Leave
  <2>4. c \in Things
    BY DEF Things
  <2>5. ~IsOpen(<<q, "out", 0>>)'
    BY <1>1, <1>4, <2>1, <2>2, <2>4, Opened
  <2>6. \A s \in OwnSockets(q) : sock'[s].st = "new"
    BY <1>1, <1>4, <2>1, <2>3
  <2>7. QED
    BY <2>5, <2>6
<1>9. QED
  BY <1>5, <1>6, <1>7, <1>8 DEF Next

-----------------------------------------------------------------------------
(* The descriptors of a reader.                                            *)

\* The life of a reader that is refused no descriptor.  At alloc it ends without
\* a close() if an error has been recorded.
LEMMA ReaderLife ==
  ASSUME Types, NEW t \in Threads, Reader(t), ~Exit, t[1] \notin harmed'
  PROVE  \/ /\ rd[t].pc = "socket" /\ rd'[t].pc = "socket2"
            /\ Open(<<t[1], "a", t[2]>>)
         \/ /\ rd[t].pc = "socket2" /\ rd'[t].pc = "connect" /\ rd'[t].fd = Min(Free)
            /\ Open(Own(t))
         \/ /\ rd[t].pc \in HasSocket /\ rd'[t].pc \in HasSocket /\ rd'[t].fd = rd[t].fd
            /\ UNCHANGED fds \/ Close(rd[t].fd, Own(t))
         \/ /\ rd[t].pc \in HasSocket /\ rd'[t].pc = "end"
            /\ Close(rd[t].fd, Own(t)) \/ (rd[t].pc = "alloc" /\ g.correct = -1 /\ UNCHANGED fds)
<1>1. rd \in [Threads -> Readers] /\ slot \in [Slots -> Elements] /\ t[2] \in Slots
  BY ThreadFacts DEF Types, RdType, GroupType
<1>2. ~Refused(t[1])
  BY DEF Refused
<1>3. CASE FirstSocket(t)
  BY <1>1, <1>2, <1>3 DEF FirstSocket, Goto, Readers
<1>4. CASE SecondSocket(t)
  BY <1>1, <1>2, <1>4 DEF SecondSocket, Readers
<1>5. CASE Connect(t) \/ Header(t) \/ Alloc(t) \/ LoopEnds(t) \/ LastClose(t)
  BY <1>1, <1>5 DEF Connect, Header, Alloc, LoopEnds, LastClose, Goto, GiveUp, End, NewThread,
     Readers, HasSocket
<1>6. ASSUME rd[t].pc \in HasSocket, rd'[t].pc \in HasSocket, rd'[t].fd = rd[t].fd,
             UNCHANGED fds \/ Close(rd[t].fd, Own(t))
      PROVE  /\ rd[t].pc \in HasSocket /\ rd'[t].pc \in HasSocket /\ rd'[t].fd = rd[t].fd
             /\ UNCHANGED fds \/ Close(rd[t].fd, Own(t))
  BY <1>6
<1>7. CASE Arm(t)
  <2> DEFINE l == IF fds[rd[t].fd] \in Sockets THEN "loop" ELSE "close"
             s == fds[rd[t].fd]
  <2>1. /\ rd' = [rd EXCEPT ![t].pc = l, ![t].watch = s] /\ UNCHANGED fds
        /\ rd[t].pc = "arm" /\ l \in {"loop", "close"}
    BY <1>7 DEF Arm
  <2> HIDE DEF l, s
  <2>2. QED
    BY <1>1, <2>1 DEF Readers, HasSocket
<1>8. CASE CallbackFrees(t) \/ Prepare(t)
  BY <1>8 DEF CallbackFrees, Prepare, Fires, HasSocket
<1>9. CASE CallbackReads(t)
  BY <1>1, <1>9 DEF CallbackReads, Fires, Readers, HasSocket
<1>10. CASE Store(t)
  <2>1. /\ rd' = [rd EXCEPT ![t].pc = "loop", ![t].hand = Junk]
        /\ UNCHANGED fds /\ rd[t].pc = "store"
    BY <1>10 DEF Store
  <2>2. QED
    BY <1>1, <2>1 DEF Readers, HasSocket
<1>11. CASE CallbackEnds(t)
  <2> DEFINE e == slot[t[2]].ev
  <2>1. /\ rd[t].pc = "loop" /\ Close(rd[t].fd, Own(t))
        /\ (e \in Threads /\ rd' = [rd EXCEPT ![e].quit = TRUE]) \/ UNCHANGED rd
    BY <1>1, <1>11 DEF CallbackEnds, Fires, Elements, Units
  <2> HIDE DEF e
  <2>2. rd'[t].fd = rd[t].fd /\ rd'[t].pc = rd[t].pc
    BY <1>1, <2>1 DEF Readers
  <2>3. QED
    BY <2>1, <2>2 DEF HasSocket
<1>12. QED
  BY <1>3, <1>4, <1>5, <1>7, <1>8, <1>9, <1>10, <1>11 DEF Reader

\* What is open stays where it is held.
LEMMA HeldByReader ==
  ASSUME Types, NEW q \in Requests, NEW i \in Slots, Reader(<<q, i>>), ~Exit, q \notin harmed',
         Held(q), rd[<<q, i>>].pc = "alloc" => g.correct = 0
  PROVE  Held(q)'
<1> DEFINE t == <<q, i>>
<1>1. /\ \A j \in Slots : <<q, j>> \in Threads
      /\ \A u \in Threads : u # t => SameReader(u)
      /\ UNCHANGED co /\ Slots' = Slots /\ Fds' = Fds
  <2>1. \A j \in Slots : <<q, j>> \in Threads
    BY ThreadFacts
  <2>2. t \in Threads /\ Reader(t)
    BY <2>1
  <2> HIDE DEF t
  <2>3. UNCHANGED co /\ \A u \in Threads : u # t => SameReader(u)
    BY <2>2, ReaderFrame
  <2>4. Fds' = Fds /\ Slots' = Slots
    <3>1. UNCHANGED fds \/ (\E s : Open(s)) \/ (\E d, s : Close(d, s))
      BY <2>2, ReaderTable
    <3>2. QED
      BY <3>1 DEF Open, Close, Fds, Slots
  <2>5. QED
    BY <2>1, <2>3, <2>4
<1>2. \/ /\ rd[t].pc = "socket" /\ rd'[t].pc = "socket2"
         /\ Open(<<q, "a", i>>)
      \/ /\ rd[t].pc = "socket2" /\ rd'[t].pc = "connect" /\ rd'[t].fd = Min(Free)
         /\ Open(Own(t))
      \/ /\ rd[t].pc \in HasSocket /\ rd'[t].pc \in HasSocket /\ rd'[t].fd = rd[t].fd
         /\ UNCHANGED fds \/ Close(rd[t].fd, Own(t))
      \/ /\ rd[t].pc \in HasSocket /\ rd'[t].pc = "end"
         /\ Close(rd[t].fd, Own(t))
  <2>1. t \in Threads /\ Reader(t) /\ t[1] = q /\ t[2] = i
    BY <1>1
  <2>2. ~(rd[t].pc = "alloc" /\ g.correct = -1)
    OBVIOUS
  <2> HIDE DEF t
  <2>3. QED
    BY <2>1, <2>2, ReaderLife
<1>3. /\ Own(t) \in OwnThings(q) /\ <<q, "a", i>> \in OwnThings(q)
      /\ <<q, "out", 0>> \in OwnThings(q)
      /\ \A j \in Slots : Own(<<q, j>>) \in OwnThings(q) /\ <<q, "a", j>> \in OwnThings(q)
      /\ \A j \in Slots : <<q, j>>[1] = q /\ <<q, j>>[2] = j
      /\ \A j \in Slots : /\ Own(<<q, j>>) = Own(t) => j = i
                          /\ <<q, "a", j>> = <<q, "a", i>> => j = i
                          /\ Own(t) # <<q, "a", j>> /\ Own(<<q, j>>) # <<q, "a", i>>
      /\ Own(t) # <<q, "out", 0>> /\ <<q, "a", i>> # <<q, "out", 0>>
  BY OwnFacts, OwnDiffer
<1>4. \A j \in Slots : j # i => <<q, j>> # t
  OBVIOUS
<1>5. /\ rd[t].pc \in HasSocket => rd[t].fd \in Fds
      /\ (rd[t].pc = "socket" => Min(Free) \in Fds) \/ ~Open(<<q, "a", i>>)
      /\ "socket" \notin HasSocket /\ "socket2" \notin HasSocket /\ "none" \notin HasSocket
      /\ "end" \notin HasSocket /\ "connect" \in HasSocket
  BY <1>1, OpenFacts DEF HasSocket, Types, RdType
<1>6. /\ \A j \in Slots, f \in Fds : fds[f] = Own(<<q, j>>) =>
           rd[<<q, j>>].pc \in HasSocket /\ rd[<<q, j>>].fd = f
      /\ \A f \in Fds : fds[f] = <<q, "out", 0>> => co[q].pc \in Working /\ co[q].fd = f
      /\ \A j \in Slots : (\E f \in Fds : fds[f] = <<q, "a", j>>) <=>
                          rd[<<q, j>>].pc \notin {"none", "socket"}
  BY DEF Held, IsOpen
<1> HIDE DEF t
<1>7. ASSUME NEW j \in Slots, j # i
      PROVE  /\ rd'[<<q, j>>].pc = rd[<<q, j>>].pc
             /\ rd'[<<q, j>>].fd = rd[<<q, j>>].fd
  BY <1>1, <1>4, <1>7 DEF SameReader
<1>8. CASE rd[t].pc = "socket" /\ rd'[t].pc = "socket2" /\ Open(<<q, "a", i>>)
  <2>1. \A x \in OwnThings(q), f \in Fds :
          fds'[f] = x <=> fds[f] = x \/ (x = <<q, "a", i>> /\ f = Min(Free))
    BY <1>8, OpenThings
  <2>2. Min(Free) \in Fds /\ fds'[Min(Free)] = <<q, "a", i>>
    BY <1>3, <1>5, <1>8, <2>1
  <2>3. \A j \in Slots, f \in Fds : fds'[f] = Own(<<q, j>>) =>
          rd'[<<q, j>>].pc \in HasSocket /\ rd'[<<q, j>>].fd = f
    <3>1. ASSUME NEW j \in Slots, NEW f \in Fds, fds'[f] = Own(<<q, j>>)
          PROVE  rd'[<<q, j>>].pc \in HasSocket /\ rd'[<<q, j>>].fd = f
      <4>1. fds[f] = Own(<<q, j>>)
        BY <1>3, <2>1, <3>1
      <4>2. rd[<<q, j>>].pc \in HasSocket /\ rd[<<q, j>>].fd = f
        BY <1>6, <4>1
      <4>3. j # i
        BY <1>5, <1>8, <4>2 DEF t
      <4>4. QED
        BY <1>7, <4>2, <4>3
    <3>2. QED
      BY <3>1
  <2>4. \A f \in Fds : fds'[f] = <<q, "out", 0>> => co[q].pc \in Working /\ co[q].fd = f
    BY <1>3, <1>6, <2>1
  <2>5. \A j \in Slots : (\E f \in Fds : fds'[f] = <<q, "a", j>>) <=>
                         rd'[<<q, j>>].pc \notin {"none", "socket"}
    <3>1. ASSUME NEW j \in Slots, j # i
          PROVE  \A f \in Fds : fds'[f] = <<q, "a", j>> <=> fds[f] = <<q, "a", j>>
      <4>1. <<q, "a", j>> \in OwnThings(q) /\ <<q, "a", j>> # <<q, "a", i>>
        BY <1>3, <3>1
      <4>2. QED
        BY <2>1, <4>1
    <3>2. ASSUME NEW j \in Slots, j # i
          PROVE  (\E f \in Fds : fds'[f] = <<q, "a", j>>) <=>
                   rd'[<<q, j>>].pc \notin {"none", "socket"}
      <4>1. rd'[<<q, j>>].pc = rd[<<q, j>>].pc
        BY <1>7, <3>2
      <4>2. (\E f \in Fds : fds[f] = <<q, "a", j>>) <=> rd[<<q, j>>].pc \notin {"none", "socket"}
        BY <1>6
      <4>3. QED
        BY <3>1, <3>2, <4>1, <4>2
    <3>3. (\E f \in Fds : fds'[f] = <<q, "a", i>>) /\ rd'[<<q, i>>].pc = "socket2"
      BY <1>8, <2>2 DEF t
    <3>4. QED
      BY <3>2, <3>3
  <2>6. QED
    BY <1>1, <2>3, <2>4, <2>5 DEF Held, IsOpen
<1>9. CASE rd[t].pc = "socket2" /\ rd'[t].pc = "connect" /\ rd'[t].fd = Min(Free) /\ Open(Own(t))
  <2>1. \A x \in OwnThings(q), f \in Fds :
          fds'[f] = x <=> fds[f] = x \/ (x = Own(t) /\ f = Min(Free))
    BY <1>9, OpenThings
  <2>2. \A j \in Slots, f \in Fds : fds'[f] = Own(<<q, j>>) =>
          rd'[<<q, j>>].pc \in HasSocket /\ rd'[<<q, j>>].fd = f
    <3>1. ASSUME NEW f \in Fds, fds'[f] = Own(t)
          PROVE  rd'[t].pc \in HasSocket /\ rd'[t].fd = f
      BY <1>3, <1>5, <1>6, <1>9, <2>1, <3>1 DEF t
    <3>2. ASSUME NEW j \in Slots, j # i, NEW f \in Fds, fds'[f] = Own(<<q, j>>)
          PROVE  rd'[<<q, j>>].pc \in HasSocket /\ rd'[<<q, j>>].fd = f
      <4>1. Own(<<q, j>>) \in OwnThings(q) /\ Own(<<q, j>>) # Own(t)
        BY <1>3, <3>2
      <4>2. fds[f] = Own(<<q, j>>)
        BY <2>1, <3>2, <4>1
      <4>3. rd[<<q, j>>].pc \in HasSocket /\ rd[<<q, j>>].fd = f
        BY <1>6, <4>2
      <4>4. QED
        BY <1>7, <3>2, <4>3
    <3>3. QED
      BY <3>1, <3>2 DEF t
  <2>3. \A f \in Fds : fds'[f] = <<q, "out", 0>> => co[q].pc \in Working /\ co[q].fd = f
    BY <1>3, <1>6, <2>1
  <2>4. \A j \in Slots : (\E f \in Fds : fds'[f] = <<q, "a", j>>) <=>
                         rd'[<<q, j>>].pc \notin {"none", "socket"}
    <3>1. ASSUME NEW j \in Slots
          PROVE  /\ \A f \in Fds : fds'[f] = <<q, "a", j>> <=> fds[f] = <<q, "a", j>>
                 /\ rd'[<<q, j>>].pc \notin {"none", "socket"} <=>
                      rd[<<q, j>>].pc \notin {"none", "socket"}
      <4>1. <<q, "a", j>> \in OwnThings(q) /\ <<q, "a", j>> # Own(t)
        BY <1>3
      <4>2. rd'[<<q, j>>].pc = rd[<<q, j>>].pc \/ j = i
        BY <1>7
      <4>3. QED
        BY <1>9, <2>1, <4>1, <4>2 DEF t
    <3>2. QED
      BY <1>6, <3>1
  <2>5. QED
    BY <1>1, <2>2, <2>3, <2>4 DEF Held, IsOpen
<1>10. CASE /\ rd[t].pc \in HasSocket
            /\ (rd'[t].pc \in HasSocket /\ rd'[t].fd = rd[t].fd) \/ rd'[t].pc = "end"
            /\ \/ UNCHANGED fds /\ rd'[t].pc \in HasSocket
               \/ Close(rd[t].fd, Own(t))
  <2>1. \A x \in OwnThings(q), f \in Fds :
          /\ fds'[f] = x => fds[f] = x
          /\ x # Own(t) => (fds'[f] = x <=> fds[f] = x)
          /\ x = Own(t) /\ f = rd[t].fd /\ rd'[t].pc = "end" => fds'[f] # x
    <3>1. CASE UNCHANGED fds /\ rd'[t].pc \in HasSocket
      BY <1>5, <3>1
    <3>2. CASE Close(rd[t].fd, Own(t))
      <4>1. \A x \in OwnThings(q), f \in Fds :
              fds'[f] = x <=> fds[f] = x /\ ~(x = Own(t) /\ f = rd[t].fd)
        BY <1>5, <1>10, <3>2, CloseThings
      <4>2. QED
        BY <4>1
    <3>3. QED
      BY <1>10, <3>1, <3>2
  <2>2. \A j \in Slots, f \in Fds : fds'[f] = Own(<<q, j>>) =>
          rd'[<<q, j>>].pc \in HasSocket /\ rd'[<<q, j>>].fd = f
    <3>1. ASSUME NEW f \in Fds, fds'[f] = Own(t)
          PROVE  rd'[t].pc \in HasSocket /\ rd'[t].fd = f
      <4>1. fds[f] = Own(t)
        BY <1>3, <2>1, <3>1
      <4>2. rd[t].fd = f
        BY <1>6, <4>1 DEF t
      <4>3. QED
        BY <1>3, <1>5, <1>10, <2>1, <3>1, <4>2
    <3>2. ASSUME NEW j \in Slots, j # i, NEW f \in Fds, fds'[f] = Own(<<q, j>>)
          PROVE  rd'[<<q, j>>].pc \in HasSocket /\ rd'[<<q, j>>].fd = f
      <4>1. Own(<<q, j>>) \in OwnThings(q) /\ Own(<<q, j>>) # Own(t)
        BY <1>3, <3>2
      <4>2. fds[f] = Own(<<q, j>>)
        BY <2>1, <3>2, <4>1
      <4>3. rd[<<q, j>>].pc \in HasSocket /\ rd[<<q, j>>].fd = f
        BY <1>6, <4>2
      <4>4. QED
        BY <1>7, <3>2, <4>3
    <3>3. QED
      BY <3>1, <3>2 DEF t
  <2>3. \A f \in Fds : fds'[f] = <<q, "out", 0>> => co[q].pc \in Working /\ co[q].fd = f
    BY <1>3, <1>6, <2>1
  <2>4. ASSUME NEW j \in Slots
        PROVE  (\E f \in Fds : fds'[f] = <<q, "a", j>>) <=>
                 rd'[<<q, j>>].pc \notin {"none", "socket"}
    <3>1. \A f \in Fds : fds'[f] = <<q, "a", j>> <=> fds[f] = <<q, "a", j>>
      BY <1>3, <2>1
    <3>2. rd'[<<q, j>>].pc \notin {"none", "socket"} <=> rd[<<q, j>>].pc \notin {"none", "socket"}
      BY <1>5, <1>7, <1>10 DEF t
    <3>3. QED
      BY <1>6, <3>1, <3>2
  <2>5. QED
    BY <1>1, <2>2, <2>3, <2>4 DEF Held, IsOpen
<1>11. QED
  BY <1>2, <1>8, <1>9, <1>10

\* A reader that has its socket changes the state of no other.
LEMMA ReaderSocketState ==
  ASSUME Types, NEW t \in Threads, Reader(t), ~Exit, Attached(t), NEW s \in Sockets, s # Own(t)
  PROVE  sock'[s].st = sock[s].st
<1>1. sock \in [Sockets \cup Clients -> Connections]
  BY DEF Types, TableType
<1>2. CASE Connect(t)
  <2>1. fds[rd[t].fd] = Own(t)
    BY <1>2 DEF Connect, Attached
  <2>2. sock' = sock \/ \E c : sock' = [sock EXCEPT ![fds[rd[t].fd]] = c]
    BY <1>2 DEF Connect
  <2>3. QED
    BY <1>1, <2>1, <2>2
<1>3. CASE Header(t)
  <2>1. fds[rd[t].fd] = Own(t)
    BY <1>3 DEF Header, Attached
  <2>2. sock' = sock \/ \E c : sock' = [sock EXCEPT ![fds[rd[t].fd]] = c]
    BY <1>3 DEF Header
  <2>3. QED
    BY <1>1, <2>1, <2>2
<1>4. CASE CallbackReads(t)
  <2>1. \E x : sock' = [sock EXCEPT ![Source(t)].data = x]
    BY <1>4 DEF CallbackReads
  <2>2. QED
    BY <1>1, <2>1 DEF Connections
<1>5. UNCHANGED sock \/ Connect(t) \/ Header(t) \/ CallbackReads(t)
  BY DEF Reader, FirstSocket, SecondSocket, Alloc, Arm, CallbackFrees, CallbackEnds, Store,
     Prepare, LoopEnds, LastClose
<1>6. QED
  BY <1>2, <1>3, <1>4, <1>5

\* Nobody takes back event_base_loopexit of another.
LEMMA QuitStays ==
  ASSUME Types, NEW t \in Threads, Reader(t), ~Exit, NEW u \in Threads, u # t, rd[u].quit
  PROVE  rd'[u].quit
<1>1. rd \in [Threads -> Readers] /\ slot \in [Slots -> Elements] /\ t[2] \in Slots
  BY ThreadFacts DEF Types, RdType, GroupType
<1>2. CASE \E r : rd' = [rd EXCEPT ![t] = r]
  BY <1>1, <1>2
<1>3. CASE CallbackEnds(t)
  <2> DEFINE e == slot[t[2]].ev
  <2>1. UNCHANGED rd \/ (e \in Threads /\ rd' = [rd EXCEPT ![e].quit = TRUE])
    BY <1>1, <1>3 DEF CallbackEnds, Elements, Units
  <2> HIDE DEF e
  <2>2. QED
    BY <1>1, <2>1 DEF Readers
<1>4. (\E r : rd' = [rd EXCEPT ![t] = r]) \/ UNCHANGED rd \/ CallbackEnds(t)
  <2>1. CASE FirstSocket(t) \/ SecondSocket(t) \/ Connect(t) \/ Header(t) \/ Alloc(t)
    BY <2>1 DEF FirstSocket, SecondSocket, SocketFails, Connect, Header, Alloc, Goto, GiveUp, End
  <2>2. CASE Arm(t)
    BY <2>2 DEF Arm
  <2>3. CASE CallbackReads(t) \/ Store(t) \/ LoopEnds(t) \/ LastClose(t)
    BY <2>3 DEF CallbackReads, Store, LoopEnds, LastClose, Goto, End
  <2>4. CASE CallbackFrees(t) \/ Prepare(t)
    BY <2>4 DEF CallbackFrees, Prepare
  <2>5. QED
    BY <2>1, <2>2, <2>3, <2>4 DEF Reader
<1>5. QED
  BY <1>2, <1>3, <1>4

\* The readers of q leave each other's sockets to each other.
LEMMA AttachedOthers ==
  ASSUME Types, NEW q \in Requests, NEW i \in Slots, Reader(<<q, i>>), ~Exit, q \notin harmed',
         Attached(<<q, i>>), NEW j \in Slots, j # i, Attached(<<q, j>>)
  PROVE  Attached(<<q, j>>)'
<1> DEFINE t == <<q, i>>
           u == <<q, j>>
<1>1. t \in Threads /\ u \in Threads /\ u # t /\ t[1] = q /\ Reader(t)
  BY ThreadFacts
<1>2. Own(u) \in Sockets /\ Own(u) # Own(t) /\ Own(u) \in OwnThings(q) /\ Own(t) \in OwnThings(q)
      /\ <<q, "a", i>> # Own(u) /\ t[2] = i
  BY OwnFacts, OwnDiffer
<1> HIDE DEF t, u
<1>3. SameReader(u)
  BY <1>1, ReaderFrame
<1>4. sock'[Own(u)].st = sock[Own(u)].st
  BY <1>1, <1>2, ReaderSocketState DEF t
<1>5. ~rd'[u].quit => ~rd[u].quit
  BY <1>1, QuitStays
<1>6. \A f \in Fds : fds[f] = Own(u) => fds'[f] = Own(u)
  <2>1. \/ UNCHANGED fds
        \/ Open(Own(t)) \/ Open(<<q, "a", i>>)
        \/ rd[t].fd \in Fds /\ Close(rd[t].fd, Own(t))
    <3>1. rd[t].pc \in HasSocket => rd[t].fd \in Fds
      BY <1>1 DEF HasSocket, Types, RdType
    <3>2. QED
      BY <1>1, <1>2, <3>1, ReaderTable
  <2>2. QED
    BY <1>2, <2>1, OpenThings, CloseThings
<1>7. rd[u].pc \in HasSocket => rd[u].fd \in Fds
  BY <1>1 DEF HasSocket, Types, RdType
<1>8. Attached(u)'
  <2>1. Attached(u)
    BY DEF u
  <2>2. Own(u)' = Own(u)
    BY DEF Own
  <2>3. rd'[u].pc = rd[u].pc /\ rd'[u].fd = rd[u].fd
    BY <1>3 DEF SameReader
  <2>4. ASSUME \/ rd[u].pc \in {"connect", "header", "alloc", "arm"}
               \/ rd[u].pc \in {"loop", "store"} /\ ~rd'[u].quit
        PROVE  fds'[rd[u].fd] = Own(u)
    <3>1. rd[u].fd \in Fds
      BY <1>7, <2>4 DEF HasSocket
    <3>2. fds[rd[u].fd] = Own(u)
      BY <1>5, <2>1, <2>4 DEF Attached
    <3>3. QED
      BY <1>6, <3>1, <3>2
  <2>5. QED
    BY <1>4, <2>1, <2>2, <2>3, <2>4 DEF Attached
<1>9. QED
  BY <1>8 DEF u

\* Once its readers are in their loops they stay there or end.
LEMMA LateByReader ==
  ASSUME Types, NEW t \in Threads, Reader(t), ~Exit,
         rd[t].pc \in {"loop", "store", "close", "end"}
  PROVE  rd'[t].pc \in {"loop", "store", "close", "end"}
<1>1. rd \in [Threads -> Readers] /\ slot \in [Slots -> Elements] /\ t[2] \in Slots
  BY ThreadFacts DEF Types, RdType, GroupType
<1>2. CASE CallbackReads(t) \/ LoopEnds(t) \/ LastClose(t)
  BY <1>1, <1>2 DEF CallbackReads, LoopEnds, LastClose, Goto, End, NewThread, Readers
<1>3. CASE CallbackFrees(t) \/ Prepare(t)
  BY <1>3 DEF CallbackFrees, Prepare
<1>4. CASE Store(t)
  <2>1. rd' = [rd EXCEPT ![t].pc = "loop", ![t].hand = Junk]
    BY <1>4 DEF Store
  <2>2. QED
    BY <1>1, <2>1 DEF Readers
<1>5. CASE CallbackEnds(t)
  <2> DEFINE e == slot[t[2]].ev
  <2>1. UNCHANGED rd \/ (e \in Threads /\ rd' = [rd EXCEPT ![e].quit = TRUE])
    BY <1>1, <1>5 DEF CallbackEnds, Elements, Units
  <2> HIDE DEF e
  <2>2. QED
    BY <1>1, <2>1 DEF Readers
<1>6. ~FirstSocket(t) /\ ~SecondSocket(t) /\ ~Connect(t) /\ ~Header(t) /\ ~Alloc(t) /\ ~Arm(t)
  BY DEF FirstSocket, SecondSocket, Connect, Header, Alloc, Arm
<1>7. QED
  BY <1>2, <1>3, <1>4, <1>5, <1>6 DEF Reader

\* The reader comes to its loop with its own socket, and ends it without an error:
\* what it finds there is the end of the file.
LEMMA SoundStep ==
  ASSUME Types, Outsiders, NEW q \in Requests, NEW i \in Slots, Start(q), Busy(q), Lone(q),
         Reader(<<q, i>>), ~Exit, q \notin harmed', Attached(<<q, i>>), g.correct = 0
  PROVE  Attached(<<q, i>>)' /\ g'.correct = 0
<1> DEFINE t == <<q, i>>
           st == sock[Own(t)].st
<1>1. /\ t \in Threads /\ t[1] = q /\ t[2] = i /\ i \in Files(q)
      /\ rd \in [Threads -> Readers] /\ slot \in [Slots -> Elements]
      /\ sock \in [Sockets \cup Clients -> Connections] /\ g \in Groups
      /\ Own(t) \in Sockets /\ t # NULL
  <2>1. i \in Files(q)
    BY ReaderBasics
  <2>2. t \in Threads
    BY ThreadFacts
  <2>3. t # NULL /\ Own(t) \in Sockets
    <3> HIDE DEF t
    <3>1. QED
      BY <2>2, ThreadFacts, ThingFacts
  <2>4. QED
    BY <2>1, <2>2, <2>3 DEF Types, RdType, GroupType, TableType
<1>2. ~Refused(q)
  BY DEF Refused
<1>3. /\ rd[t].pc \in {"none", "socket", "socket2", "connect"} => st = "new"
      /\ rd[t].pc = "header" => st = "open"
      /\ rd[t].pc \in {"alloc", "arm", "loop", "store"} => st = "fin"
      /\ \/ rd[t].pc \in {"connect", "header", "alloc", "arm"}
         \/ rd[t].pc \in {"loop", "store"} /\ ~rd[t].quit
         => fds[rd[t].fd] = Own(t)
  BY DEF Attached
<1> SUFFICES Attached(t)' /\ g'.correct = 0
  OBVIOUS
<1> HIDE DEF t
<1>4. Own(t)' = Own(t)
  BY DEF Own
<1>5. rd[t].pc \in HasSocket => rd[t].fd \in Fds
  BY <1>1 DEF HasSocket, Types, RdType
<1>6. CASE FirstSocket(t)
  <2>1. Goto(t, "socket2") /\ UNCHANGED <<g, sock>> /\ rd[t].pc = "socket"
    BY <1>1, <1>2, <1>6 DEF FirstSocket
  <2>2. rd'[t].pc = "socket2"
    BY <1>1, <2>1 DEF Goto, Readers
  <2>3. QED
    BY <1>3, <1>4, <2>1, <2>2 DEF Attached
<1>7. CASE SecondSocket(t)
  <2>1. /\ rd' = [rd EXCEPT ![t].pc = "connect", ![t].fd = Min(Free)]
        /\ Open(Own(t)) /\ UNCHANGED <<g, sock>> /\ rd[t].pc = "socket2"
    BY <1>1, <1>2, <1>7 DEF SecondSocket
  <2>2. rd'[t].pc = "connect" /\ rd'[t].fd = Min(Free)
    BY <1>1, <2>1 DEF Readers
  <2>3. fds'[Min(Free)] = Own(t)
    BY <2>1, OpenFacts DEF Types, TableType
  <2>4. QED
    BY <1>3, <1>4, <2>1, <2>2, <2>3 DEF Attached
<1>8. CASE Connect(t)
  <2>1. rd[t].pc = "connect" /\ fds[rd[t].fd] = Own(t) /\ st = "new"
    BY <1>3, <1>8 DEF Connect
  <2>2. /\ sock' = [sock EXCEPT ![Own(t)].st = "open"] /\ Goto(t, "header")
        /\ UNCHANGED <<g, fds>>
    BY <1>1, <1>8, <2>1 DEF Connect
  <2>3. rd'[t].pc = "header" /\ rd'[t].fd = rd[t].fd /\ sock'[Own(t)].st = "open"
    BY <1>1, <2>2 DEF Goto, Readers, Connections
  <2>4. QED
    BY <1>4, <2>1, <2>2, <2>3 DEF Attached
<1>9. CASE Header(t)
  <2>1. rd[t].pc = "header" /\ fds[rd[t].fd] = Own(t) /\ st = "open"
    BY <1>3, <1>9 DEF Header
  <2>2. /\ sock' = [sock EXCEPT ![Own(t)] = Served(sock[Own(t)], <<slot[t[2]].path, t[2]>>)]
        /\ Goto(t, "alloc") /\ UNCHANGED <<g, fds>>
    BY <1>1, <1>9, <2>1 DEF Header
  <2>3. rd'[t].pc = "alloc" /\ rd'[t].fd = rd[t].fd
    BY <1>1, <2>2 DEF Goto, Readers
  <2>4. sock'[Own(t)].st = "fin"
    BY <1>1, <2>2 DEF Served
  <2>5. QED
    BY <1>4, <2>1, <2>2, <2>3, <2>4 DEF Attached
<1>10. CASE Alloc(t)
  <2>1. rd[t].pc = "alloc" /\ Goto(t, "arm") /\ UNCHANGED <<g, fds, sock>>
    BY <1>10 DEF Alloc
  <2>2. rd'[t].pc = "arm" /\ rd'[t].fd = rd[t].fd
    BY <1>1, <2>1 DEF Goto, Readers
  <2>3. QED
    BY <1>3, <1>4, <2>1, <2>2 DEF Attached
<1>11. CASE Arm(t)
  <2>1. rd[t].pc = "arm" /\ fds[rd[t].fd] = Own(t)
    BY <1>3, <1>11 DEF Arm
  <2>2. rd' = [rd EXCEPT ![t].pc = "loop", ![t].watch = Own(t)] /\ UNCHANGED <<g, fds, sock>>
    BY <1>1, <1>11, <2>1 DEF Arm
  <2>3. rd'[t].pc = "loop" /\ rd'[t].fd = rd[t].fd
    BY <1>1, <2>2 DEF Readers
  <2>4. QED
    BY <1>3, <1>4, <2>1, <2>2, <2>3 DEF Attached
<1>12. CASE CallbackFrees(t) \/ Prepare(t)
  <2>1. UNCHANGED <<g, rd, fds, sock>>
    BY <1>12 DEF CallbackFrees, Prepare
  <2>2. QED
    BY <1>3, <1>4, <2>1 DEF Attached
<1>13. CASE CallbackReads(t)
  <2>1. rd[t].pc = "loop" /\ ~rd[t].quit /\ UNCHANGED <<g, fds>>
    BY <1>13 DEF CallbackReads, Fires
  <2>2. rd'[t].pc = "store" /\ rd'[t].fd = rd[t].fd
    BY <1>1, <1>13 DEF CallbackReads, Readers
  <2>3. \E x : sock' = [sock EXCEPT ![Source(t)].data = x]
    BY <1>13 DEF CallbackReads
  <2>4. sock'[Own(t)].st = st
    BY <1>1, <2>3 DEF Connections
  <2>5. QED
    BY <1>3, <1>4, <2>1, <2>2, <2>4 DEF Attached
<1>14. CASE CallbackEnds(t)
  <2>1. rd[t].pc = "loop" /\ ~rd[t].quit /\ ~GroupEnded /\ UNCHANGED sock
    BY <1>14 DEF CallbackEnds, Fires
  <2>2. Collecting(q)
    BY <2>1 DEF Lone, Xored, GroupEnded
  <2>3. slot[i].ev = t /\ slot[i].fd = rd[t].fd
    <3>1. Element(q, i)
      BY <1>1, <2>2 DEF Collecting
    <3>2. QED
      BY <2>1, <3>1 DEF Element, t
  <2>4. Source(t) = Own(t) /\ AtEof(Source(t))
    <3>1. Source(t) = Own(t)
      BY <1>1, <1>3, <1>5, <2>1, <2>3 DEF Source, Lookup, HasSocket
    <3>2. QED
      BY <1>1, <1>3, <2>1, <3>1 DEF AtEof
  <2>5. rd' = [rd EXCEPT ![t].quit = TRUE] /\ g' = g
    BY <1>1, <1>14, <2>1, <2>3, <2>4 DEF CallbackEnds
  <2>6. rd'[t].pc = "loop" /\ rd'[t].quit
    BY <1>1, <2>1, <2>5 DEF Readers
  <2>7. QED
    BY <1>3, <1>4, <2>1, <2>5, <2>6 DEF Attached
<1>15. CASE Store(t)
  <2>1. /\ rd' = [rd EXCEPT ![t].pc = "loop", ![t].hand = Junk]
        /\ UNCHANGED <<fds, sock>> /\ rd[t].pc = "store" /\ \E k : Count(k)
    BY <1>15 DEF Store
  <2>2. rd'[t].pc = "loop" /\ rd'[t].fd = rd[t].fd /\ rd'[t].quit = rd[t].quit
    BY <1>1, <2>1 DEF Readers
  <2>3. g'.correct = 0
    BY <1>1, <2>1 DEF Count, Groups
  <2>4. QED
    BY <1>3, <1>4, <2>1, <2>2, <2>3 DEF Attached
<1>16. CASE LoopEnds(t) \/ LastClose(t)
  <2>1. rd'[t].pc \in {"close", "end"} /\ UNCHANGED <<g, sock>>
    BY <1>1, <1>16 DEF LoopEnds, LastClose, Goto, End, NewThread, Readers
  <2>2. QED
    BY <1>4, <2>1 DEF Attached
<1>17. Reader(t)
  BY DEF t
<1>18. QED
  BY <1>6, <1>7, <1>8, <1>9, <1>10, <1>11, <1>12, <1>13, <1>14, <1>15, <1>16, <1>17 DEF Reader

-----------------------------------------------------------------------------
(* The steps of the request.                                               *)

\* When all buffers are full their readers are in their loops.
LEMMA LateByFull ==
  ASSUME Types, Outsiders, NEW q \in Requests, NEW k \in Bufs, Collecting(q),
         g.full[k] = co[q].files
  PROVE  Late(q)
<1>1. ASSUME NEW i \in Files(q)
      PROVE  rd[<<q, i>>].pc \in {"loop", "store", "close", "end"}
  <2>1. Element(q, i) /\ slot[i].flag[k] = 2 /\ i \in Slots
    BY FullBuffers DEF Collecting
  <2>2. rd[<<q, i>>].pc \notin
          {"none", "socket", "socket2", "connect", "header", "alloc", "arm"}
    BY <2>1 DEF Element
  <2>3. <<q, i>> \in Threads
    BY <2>1, ThreadFacts
  <2>4. rd[<<q, i>>].pc \in RdPcs
    BY <2>3 DEF Types, RdType, Readers
  <2>5. QED
    BY <2>2, <2>4 DEF RdPcs
<1>2. QED
  BY <1>1 DEF Late

\* A round of buf_xor finds all readers in their loops, and records no error.
LEMMA SoundRound ==
  ASSUME Types, Outsiders, NEW q \in Requests, Busy(q), Lone(q), Round(q) \/ RoundEmpty(q),
         ~Exit, g.correct = 0
  PROVE  /\ g'.correct = 0 /\ Late(q)
         /\ co'[q].pc = "test" /\ co'[q].fd = co[q].fd
         /\ UNCHANGED <<rd, fds, sock, harmed>>
<1>1. co[q].pc = "judge"
  BY DEF Round, RoundEmpty
<1>2. /\ Collecting(q) /\ co[q].num = co[q].files
  BY <1>1 DEF Lone, Xored, Settings
<1>3. /\ co \in [Requests -> Coordinators({co[p].out : p \in Requests})]
      /\ g \in Groups /\ co[q].files \in Nat \ {0} /\ Files(q) = 1..co[q].files
  <2>1. co[q].files \in Slots
    BY DEF Types, CoType, Coordinators
  <2>2. QED
    BY <2>1, FilesFacts, Constants DEF Types, CoType, GroupType, Slots, Files
<1>4. Round(q)
  BY <1>2, <1>3 DEF RoundEmpty
<1>5. PICK k \in Turn(q) :
        \/ Uneven(q, k)
        \/ Exit
        \/ \E y, x, out : RoundOver(q, k, [g EXCEPT !.xor_size = y, !.xor_flag = x], out)
  BY <1>4 DEF Round
<1>6. k \in Bufs /\ g.full[k] = co[q].files
  BY <1>2 DEF Turn, Bufs
<1>7. Late(q) /\ \A i \in Files(q) : slot[i].size[k] = 1
  BY <1>2, <1>6, LateByFull, FullBuffers
<1>8. ~Uneven(q, k)
  BY <1>2, <1>3, <1>7 DEF Uneven
<1>9. PICK y, x, out : RoundOver(q, k, [g EXCEPT !.xor_size = y, !.xor_flag = x], out)
  BY <1>5, <1>8
<1>10. /\ g'.correct = 0 /\ co'[q].pc = "test" /\ co'[q].fd = co[q].fd
       /\ UNCHANGED <<rd, fds, sock, harmed>>
  BY <1>3, <1>9 DEF RoundOver, Groups, Coordinators
<1>11. QED
  BY <1>7, <1>10

\* A request holds its descriptors as long as neither they nor its threads' places change.
LEMMA HeldSame ==
  ASSUME NEW q \in Requests, Held(q), Same(q), Fds' = Fds,
         \A i \in Slots : /\ rd'[<<q, i>>].pc = rd[<<q, i>>].pc
                          /\ rd'[<<q, i>>].fd = rd[<<q, i>>].fd,
         co[q].pc \in Working => co'[q].pc \in Working /\ co'[q].fd = co[q].fd
  PROVE  Held(q)'
<1>1. /\ \A i \in Slots : Own(<<q, i>>) \in OwnThings(q) /\ <<q, "a", i>> \in OwnThings(q)
      /\ <<q, "out", 0>> \in OwnThings(q) /\ Slots' = Slots
  BY OwnFacts
<1>2. ASSUME NEW i \in Slots, NEW f \in Fds, fds'[f] = Own(<<q, i>>)
      PROVE  rd'[<<q, i>>].pc \in HasSocket /\ rd'[<<q, i>>].fd = f
  <2>1. fds[f] = Own(<<q, i>>)
    BY <1>1, <1>2 DEF Same
  <2>2. rd[<<q, i>>].pc \in HasSocket /\ rd[<<q, i>>].fd = f
    BY <2>1 DEF Held
  <2>3. QED
    BY <2>2
<1>3. \A f \in Fds : fds'[f] = <<q, "out", 0>> => co'[q].pc \in Working /\ co'[q].fd = f
  BY <1>1 DEF Held, Same
<1>4. ASSUME NEW i \in Slots
      PROVE  (\E f \in Fds : fds'[f] = <<q, "a", i>>) <=> rd'[<<q, i>>].pc \notin {"none", "socket"}
  <2>1. \A f \in Fds : fds'[f] = <<q, "a", i>> <=> fds[f] = <<q, "a", i>>
    BY <1>1 DEF Same
  <2>2. (\E f \in Fds : fds[f] = <<q, "a", i>>) <=> rd[<<q, i>>].pc \notin {"none", "socket"}
    BY DEF Held, IsOpen
  <2>3. QED
    BY <2>1, <2>2
<1>5. QED
  BY <1>1, <1>2, <1>3, <1>4 DEF Held, IsOpen

\* The threads of other requests do no more to q than to harm it.
LEMMA ByOthers ==
  ASSUME Types, NEW q \in Requests, ~Exit, q \notin harmed',
         \/ \E p \in Requests : p # q /\ Coordinator(p)
         \/ \E t \in Threads : t[1] # q /\ Reader(t)
         \/ \E c \in Clients : Accept(c) \/ Leave(c)
  PROVE  /\ Same(q) /\ Fds' = Fds /\ co'[q] = co[q]
         /\ \A i \in Slots : /\ rd'[<<q, i>>].pc = rd[<<q, i>>].pc
                             /\ rd'[<<q, i>>].fd = rd[<<q, i>>].fd
<1>1. \A i \in Slots : <<q, i>> \in Threads /\ <<q, i>>[1] = q
  BY ThreadFacts
<1>2. ASSUME NEW p \in Requests, p # q, Coordinator(p)
      PROVE  /\ Same(q) /\ Fds' = Fds /\ co'[q] = co[q]
             /\ \A i \in Slots : /\ rd'[<<q, i>>].pc = rd[<<q, i>>].pc
                                 /\ rd'[<<q, i>>].fd = rd[<<q, i>>].fd
  <2>1. co'[q] = co[q] /\ (UNCHANGED rd \/ Fill(p))
    BY <1>2, CoordinatorFrame
  <2>2. <<p, "out", 0>> \notin OwnThings(q)
    BY <1>2, OwnFacts
  <2>3. \/ UNCHANGED fds \/ Open(<<p, "out", 0>>)
        \/ co[p].pc = "verdict" /\ Close(co[p].fd, <<p, "out", 0>>)
    BY <1>2 DEF Coordinator, Fill, FillFails, EnterJudge, LoopTest, Verdict, CloseOutput,
       Round, RoundEmpty, RoundOver, Refused
  <2>4. co[p].pc = "verdict" => co[p].fd \in Fds
    BY DEF Types, CoType
  <2>5. Same(q) /\ Fds' = Fds
    BY <2>2, <2>3, <2>4, OthersThings
  <2>6. \A i \in Slots : rd'[<<q, i>>] = rd[<<q, i>>]
    <3>1. CASE UNCHANGED rd
      BY <3>1
    <3>2. CASE Fill(p)
      <4>1. rd' = [t \in Threads |-> IF t[1] = p /\ t[2] \in Files(p)
                                     THEN [rd[t] EXCEPT !.pc = "socket"] ELSE rd[t]]
        BY <3>2 DEF Fill
      <4>2. QED
        BY <1>1, <1>2, <4>1
    <3>3. QED
      BY <2>1, <3>1, <3>2
  <2>7. QED
    BY <2>1, <2>5, <2>6
<1>3. ASSUME NEW t \in Threads, t[1] # q, Reader(t)
      PROVE  /\ Same(q) /\ Fds' = Fds /\ co'[q] = co[q]
             /\ \A i \in Slots : /\ rd'[<<q, i>>].pc = rd[<<q, i>>].pc
                                 /\ rd'[<<q, i>>].fd = rd[<<q, i>>].fd
  <2>1. UNCHANGED co /\ \A u \in Threads : u # t => SameReader(u)
    BY <1>3, ReaderFrame
  <2>2. Own(t) \notin OwnThings(q) /\ <<t[1], "a", t[2]>> \notin OwnThings(q)
    BY <1>3 DEF OwnThings, Own
  <2>3. rd[t].pc \in HasSocket => rd[t].fd \in Fds
    BY DEF HasSocket, Types, RdType
  <2>4. Same(q) /\ Fds' = Fds
    BY <1>3, <2>2, <2>3, ReaderTable, OthersThings
  <2>5. \A i \in Slots : SameReader(<<q, i>>)
    BY <1>1, <1>3, <2>1
  <2>6. QED
    BY <2>1, <2>4, <2>5 DEF SameReader
<1>4. ASSUME NEW c \in Clients, Accept(c) \/ Leave(c)
      PROVE  /\ Same(q) /\ Fds' = Fds /\ co'[q] = co[q]
             /\ \A i \in Slots : /\ rd'[<<q, i>>].pc = rd[<<q, i>>].pc
                                 /\ rd'[<<q, i>>].fd = rd[<<q, i>>].fd
  <2>1. c \notin OwnThings(q)
    BY OwnFacts
  <2>2. UNCHANGED <<co, rd>> /\ (Open(c) \/ \E f \in Fds : Close(f, c))
    BY <1>4 DEF Accept, Leave
  <2>3. QED
    BY <2>1, <2>2, OthersThings
<1>5. QED
  BY <1>2, <1>3, <1>4

\* What keeps the descriptors of q and the readers it has.
LEMMA AttachedSame ==
  ASSUME Types, NEW q \in Requests, NEW i \in Slots, Attached(<<q, i>>), Same(q),
         rd'[<<q, i>>] = rd[<<q, i>>], sock'[Own(<<q, i>>)].st = sock[Own(<<q, i>>)].st
  PROVE  Attached(<<q, i>>)'
<1> DEFINE t == <<q, i>>
<1>1. t \in Threads /\ Own(t) \in OwnThings(q)
  BY ThreadFacts, OwnFacts
<1>2. /\ Attached(t) /\ rd'[t] = rd[t] /\ sock'[Own(t)].st = sock[Own(t)].st
  OBVIOUS
<1> SUFFICES Attached(t)'
  OBVIOUS
<1> HIDE DEF t
<1>3. Own(t)' = Own(t)
  BY DEF Own
<1>4. rd[t].pc \in HasSocket => rd[t].fd \in Fds
  BY <1>1 DEF HasSocket, Types, RdType
<1>5. ASSUME \/ rd[t].pc \in {"connect", "header", "alloc", "arm"}
             \/ rd[t].pc \in {"loop", "store"} /\ ~rd[t].quit
      PROVE  fds'[rd[t].fd] = Own(t)
  <2>1. rd[t].fd \in Fds
    BY <1>4, <1>5 DEF HasSocket
  <2>2. fds[rd[t].fd] = Own(t)
    BY <1>2, <1>5 DEF Attached
  <2>3. QED
    BY <1>1, <2>1, <2>2 DEF Same
<1>6. QED
  BY <1>2, <1>3, <1>5 DEF Attached

\* While q is alone, only clients take descriptors beside it.
LEMMA CausesByOthers ==
  ASSUME Types, Outsiders, NEW q \in Requests, Lone(q), ~Exit, Next, Causes(q),
         \/ \E p \in Requests : p # q /\ Coordinator(p)
         \/ \E t \in Threads : t[1] # q /\ Reader(t)
         \/ \E c \in Clients : Accept(c) \/ Leave(c)
  PROVE  Causes(q)'
<1>1. SUFFICES ASSUME Good(q)'
               PROVE  /\ Held(q)' /\ (Busy(q) => Sound(q))'
                      /\ (~Busy(q) \/ Xored(q) => Late(q))'
  BY DEF Causes
<1>2. q \notin harmed'
  BY <1>1 DEF Good
<1>3. /\ Same(q) /\ Fds' = Fds /\ co'[q] = co[q]
      /\ \A i \in Slots : /\ rd'[<<q, i>>].pc = rd[<<q, i>>].pc
                          /\ rd'[<<q, i>>].fd = rd[<<q, i>>].fd
  BY <1>2, ByOthers
<1>4. Good(q)
  BY <1>1, <1>3, HarmGrows DEF Good, Live
<1>5. Held(q) /\ (Busy(q) => Sound(q)) /\ (~Busy(q) \/ Xored(q) => Late(q))
  BY <1>4 DEF Causes
<1>6. Held(q)'
  BY <1>3, <1>5, HeldSame
<1>7. Busy(q)' <=> Busy(q)
  BY <1>3 DEF Busy, Live
<1>8. \A i \in Files(q) : i \in Slots
  BY FilesFacts
<1>9. Late(q) => Late(q)'
  BY <1>3, <1>8, FilesFacts DEF Late, Files
<1>10. CASE ~Busy(q)
  BY <1>5, <1>6, <1>7, <1>9, <1>10
<1>11. CASE Busy(q)
  <2>1. \E c \in Clients : Accept(c) \/ Leave(c)
    <3>1. ASSUME NEW p \in Requests, p # q
          PROVE  ~Coordinator(p)
      <4>1. co[p].pc \notin Live
        BY <1>11, <3>1 DEF Lone, Isolated
      <4>2. QED
        BY <4>1, CoordinatorFrame
    <3>2. ASSUME NEW t \in Threads, t[1] # q
          PROVE  ~Reader(t)
      <4>1. t = <<t[1], t[2]>> /\ t[1] \in Requests /\ t[2] \in Slots
        BY ThreadFacts
      <4>2. rd[t].pc \in {"none", "end"}
        BY <1>11, <3>2, <4>1 DEF Lone, Isolated
      <4>3. QED
        BY <4>2, ReaderFrame
    <3>3. QED
      BY <3>1, <3>2
  <2>2. PICK c \in Clients : Accept(c) \/ Leave(c)
    BY <2>1
  <2>3. UNCHANGED <<g, rd>> /\ \E x : sock' = [sock EXCEPT ![c].st = x]
    BY <2>2 DEF Accept, Leave
  <2>4. Xored(q)' <=> Xored(q)
    BY <1>3, <2>3 DEF Xored, OwnOutput, Files
  <2>5. ASSUME NEW i \in Slots
        PROVE  Attached(<<q, i>>)'
    <3>1. Own(<<q, i>>) \in Sockets /\ Own(<<q, i>>) # c
      BY OwnFacts
    <3>2. sock'[Own(<<q, i>>)].st = sock[Own(<<q, i>>)].st
      BY <2>3, <3>1 DEF Types, TableType
    <3>3. Attached(<<q, i>>)
      BY <1>5, <1>11 DEF Sound
    <3>4. QED
      BY <1>3, <2>3, <3>2, <3>3, AttachedSame
  <2>6. Sound(q)'
    <3>1. Slots' = Slots
      BY OwnFacts
    <3>2. Sound(q)
      BY <1>5, <1>11
    <3>3. g'.correct = 0 /\ (co'[q].pc = "verdict" => Xored(q)')
      BY <1>3, <2>3, <2>4, <3>2 DEF Sound
    <3>4. QED
      BY <2>5, <3>1, <3>3 DEF Sound
  <2>7. QED
    BY <1>5, <1>6, <1>7, <1>9, <2>4, <2>6
<1>12. QED
  BY <1>10, <1>11

\* memset ends the time in which another request is alone, and finds q with nothing.
LEMMA CausesByClear ==
  ASSUME Types, Outsiders, NEW q \in Requests, Start(q), Unused(q), Causes(q),
         NEW p \in Requests, Clear(p)
  PROVE  Causes(q)'
<1>1. SUFFICES ASSUME Good(q)'
               PROVE  /\ Held(q)' /\ (Busy(q) => Sound(q))'
                      /\ (~Busy(q) \/ Xored(q) => Late(q))'
  BY DEF Causes
<1>2. UNCHANGED <<rd, fds, sock, harmed>> /\ Slots' = Slots /\ Fds' = Fds
  BY DEF Clear, Slots, Fds
<1>3. CASE p # q
  <2>1. /\ co'[q].pc = co[q].pc /\ co'[q].ret = co[q].ret
        /\ co'[q].files = co[q].files /\ (co'[q].alone => co[q].alone)
        /\ co[q].pc \in Live => ~co'[q].alone
    BY <1>3, ClearFrame
  <2>2. co[q].pc = "done" /\ Good(q)
    BY <1>1, <1>2, <2>1 DEF Good, Live
  <2>3. ~Busy(q) /\ ~Busy(q)'
    BY <2>1, <2>2 DEF Busy, Live
  <2>4. Held(q) /\ Late(q)
    BY <2>2, <2>3 DEF Causes
  <2>5. co[q].pc \notin Working /\ co'[q].pc \notin Working
    BY <2>1, <2>2 DEF Working
  <2>6. Held(q)'
    BY <1>2, <2>4, <2>5 DEF Held, IsOpen, Own
  <2>7. Late(q)'
    BY <1>2, <2>1, <2>4 DEF Late, Files
  <2>8. QED
    BY <2>3, <2>6, <2>7
<1>4. CASE p = q
  <2>1. co[q].pc = "idle" /\ co'[q].pc = "fill"
    BY <1>4, ClearFrame
  <2>2. /\ \A s \in OwnSockets(q) : sock[s].st = "new" /\ ~IsOpen(s)
        /\ ~IsOpen(<<q, "out", 0>>)
        /\ \A i \in Slots : rd[<<q, i>>].pc = "none"
    BY <2>1 DEF Unused, Start, BeforeStart
  <2>3. \A i \in Slots : Own(<<q, i>>) \in OwnSockets(q) /\ <<q, "a", i>> \in OwnSockets(q)
    <3>1. ASSUME NEW i \in Slots
          PROVE  Own(<<q, i>>) \in OwnSockets(q) /\ <<q, "a", i>> \in OwnSockets(q)
      <4>1. /\ Own(<<q, i>>) \in Sockets /\ Own(<<q, i>>) \in OwnThings(q)
            /\ <<q, "a", i>> \in OwnThings(q)
        BY OwnFacts
      <4>2. \A x \in OwnThings(q) : x[1] = q
        BY OwnFacts
      <4>3. <<q, "a", i>> \notin Outputs
        BY DEF Outputs
      <4>4. QED
        BY <4>1, <4>2, <4>3 DEF OwnThings, OwnSockets
    <3>2. QED
      BY <3>1
  <2>4. Held(q)'
    BY <1>2, <2>2, <2>3 DEF Held, IsOpen, Own
  <2>5. \A i \in Slots : Attached(<<q, i>>)'
    BY <1>2, <2>2, <2>3 DEF Attached, Own
  <2>6. g'.correct = 0
    BY DEF Clear, Clears, ZeroGroup
  <2>7. Sound(q)' /\ ~Xored(q)' /\ Busy(q)'
    <3>1. Busy(q)'
      BY <1>1, <2>1 DEF Good, Busy, Live
    <3>2. ~Xored(q)'
      BY <2>1 DEF Xored
    <3>3. QED
      BY <1>2, <2>1, <2>5, <2>6, <3>1, <3>2 DEF Sound
  <2>8. QED
    BY <2>4, <2>7
<1>5. QED
  BY <1>3, <1>4

\* fopen gives the output its descriptor, and the readers start with nothing.
LEMMA CausesByFill ==
  ASSUME Types, Outsiders, NEW q \in Requests, Start(q), Unused(q), Causes(q), Fill(q)
  PROVE  Causes(q)'
<1>1. SUFFICES ASSUME Good(q)'
               PROVE  /\ Held(q)' /\ (Busy(q) => Sound(q))'
                      /\ (~Busy(q) \/ Xored(q) => Late(q))'
  BY DEF Causes
<1>2. /\ co[q].pc = "fill" /\ Open(<<q, "out", 0>>)
      /\ co' = [co EXCEPT ![q].pc = "enter", ![q].fd = Min(Free)]
      /\ rd' = [t \in Threads |-> IF t[1] = q /\ t[2] \in Files(q)
                                  THEN [rd[t] EXCEPT !.pc = "socket"] ELSE rd[t]]
      /\ g' = [g EXCEPT !.file_size = 1, !.file_num = co[q].files]
      /\ UNCHANGED <<sock, harmed>>
  BY DEF Fill, Filled
<1>3. /\ co \in [Requests -> Coordinators({co[p].out : p \in Requests})]
      /\ rd \in [Threads -> Readers] /\ g \in Groups
  BY DEF Types, CoType, RdType, GroupType
<1>4. /\ co'[q].pc = "enter" /\ co'[q].fd = Min(Free) /\ co'[q].alone = co[q].alone
      /\ g'.correct = g.correct
  BY <1>2, <1>3 DEF Coordinators, Groups
<1>5. Good(q) /\ Busy(q) /\ Busy(q)' /\ ~Xored(q)'
  BY <1>1, <1>2, <1>4 DEF Good, Busy, Live, Xored
<1>6. Held(q) /\ Sound(q)
  BY <1>5 DEF Causes
<1>7. \A i \in Slots : /\ <<q, i>> \in Threads /\ rd[<<q, i>>].pc = "none"
                       /\ rd'[<<q, i>>].pc \in {"none", "socket"}
  <2>1. ASSUME NEW i \in Slots
        PROVE  /\ <<q, i>> \in Threads /\ rd[<<q, i>>].pc = "none"
               /\ rd'[<<q, i>>].pc \in {"none", "socket"}
    <3>1. <<q, i>> \in Threads
      BY ThreadFacts
    <3>2. rd[<<q, i>>].pc = "none"
      BY <1>2 DEF Start, BeforeStart
    <3>3. rd'[<<q, i>>] \in {rd[<<q, i>>], [rd[<<q, i>>] EXCEPT !.pc = "socket"]}
      BY <1>2, <3>1
    <3>4. QED
      BY <1>3, <3>1, <3>2, <3>3 DEF Readers
  <2>2. QED
    BY <2>1
<1>8. \A x \in OwnThings(q), f \in Fds :
        fds'[f] = x <=> fds[f] = x \/ (x = <<q, "out", 0>> /\ f = Min(Free))
  BY <1>2, OpenThings
<1>9. Fds' = Fds /\ Slots' = Slots
  BY <1>2 DEF Open, Fds, Slots
<1>10. /\ \A i \in Slots : /\ Own(<<q, i>>) \in OwnThings(q) /\ <<q, "a", i>> \in OwnThings(q)
                           /\ Own(<<q, i>>) # <<q, "out", 0>>
                           /\ <<q, "a", i>> # <<q, "out", 0>>
       /\ <<q, "out", 0>> \in OwnThings(q)
  BY OwnFacts, OwnDiffer
<1>11. Held(q)'
  <2>1. \A i \in Slots, f \in Fds : fds'[f] # Own(<<q, i>>)
    <3>1. ASSUME NEW i \in Slots, NEW f \in Fds, fds'[f] = Own(<<q, i>>)
          PROVE  FALSE
      <4>1. fds[f] = Own(<<q, i>>)
        BY <1>8, <1>10, <3>1
      <4>2. rd[<<q, i>>].pc \in HasSocket
        BY <1>6, <4>1 DEF Held
      <4>3. QED
        BY <1>7, <4>2 DEF HasSocket
    <3>2. QED
      BY <3>1
  <2>2. \A f \in Fds : fds'[f] = <<q, "out", 0>> => f = Min(Free)
    <3>1. \A f \in Fds : fds[f] # <<q, "out", 0>>
      BY <1>2 DEF Unused, IsOpen
    <3>2. QED
      BY <1>8, <1>10, <3>1
  <2>3. \A i \in Slots, f \in Fds : fds'[f] # <<q, "a", i>>
    <3>1. ASSUME NEW i \in Slots, NEW f \in Fds, fds'[f] = <<q, "a", i>>
          PROVE  FALSE
      <4>1. fds[f] = <<q, "a", i>>
        BY <1>8, <1>10, <3>1
      <4>2. rd[<<q, i>>].pc \notin {"none", "socket"}
        BY <1>6, <4>1 DEF Held, IsOpen
      <4>3. QED
        BY <1>7, <4>2
    <3>2. QED
      BY <3>1
  <2>4. QED
    BY <1>4, <1>7, <1>9, <2>1, <2>2, <2>3 DEF Held, IsOpen, Working
<1>12. ASSUME NEW i \in Slots
       PROVE  Attached(<<q, i>>)'
  <2> DEFINE t == <<q, i>>
  <2>1. Attached(t) /\ rd[t].pc = "none" /\ rd'[t].pc \in {"none", "socket"}
    BY <1>6, <1>7 DEF Sound
  <2> HIDE DEF t
  <2>2. Attached(t)'
    BY <1>2, <2>1 DEF Attached, Own
  <2>3. QED
    BY <2>2 DEF t
<1>13. Sound(q)'
  BY <1>4, <1>6, <1>9, <1>12 DEF Sound
<1>14. QED
  BY <1>5, <1>11, <1>13

\* A step of the request thread that changes nothing but its locals and the group.
LEMMA CausesByPc ==
  ASSUME Types, Outsiders, NEW q \in Requests, Busy(q), Causes(q),
         UNCHANGED <<rd, fds, sock, harmed>>,
         co[q].pc \in Working, co'[q].pc \in Working, co'[q].fd = co[q].fd,
         co'[q].alone = co[q].alone, co'[q].files = co[q].files,
         g.correct = 0 => /\ g'.correct = 0
                          /\ Xored(q)' => Late(q)
                          /\ co'[q].pc = "verdict" => Xored(q)'
  PROVE  Causes(q)'
<1>1. SUFFICES ASSUME Good(q)'
               PROVE  /\ Held(q)' /\ (Busy(q) => Sound(q))'
                      /\ (~Busy(q) \/ Xored(q) => Late(q))'
  BY DEF Causes
<1>2. Good(q) /\ Busy(q)'
  BY <1>1 DEF Good, Busy, Live, Working
<1>3. Held(q) /\ Sound(q)
  BY <1>2 DEF Causes
<1>4. Same(q) /\ Fds' = Fds /\ Slots' = Slots
  BY DEF Same, Fds, Slots
<1>5. Held(q)'
  BY <1>3, <1>4, HeldSame
<1>6. \A i \in Slots : Attached(<<q, i>>)'
  BY <1>3, <1>4, AttachedSame DEF Sound
<1>7. Late(q)' <=> Late(q)
  BY DEF Late, Files
<1>8. g'.correct = 0 /\ (Xored(q)' => Late(q)) /\ (co'[q].pc = "verdict" => Xored(q)')
  BY <1>3 DEF Sound
<1>9. Sound(q)'
  BY <1>4, <1>6, <1>8 DEF Sound
<1>10. QED
  BY <1>2, <1>5, <1>7, <1>8, <1>9

\* The coordinator's test and rounds keep the causes.
LEMMA CausesByTest ==
  ASSUME Types, Outsiders, NEW q \in Requests, Busy(q), Lone(q), Causes(q),
         EnterJudge(q) \/ LoopTest(q) \/ Round(q) \/ RoundEmpty(q), ~Exit
  PROVE  Causes(q)'
<1>1. co \in [Requests -> Coordinators({co[p].out : p \in Requests})]
  BY DEF Types, CoType
<1>2. co'[q].alone = co[q].alone /\ co'[q].files = co[q].files
  BY CoordinatorFrame DEF Coordinator
<1>3. CASE EnterJudge(q)
  <2>1. /\ co[q].pc = "enter" /\ co'[q].pc = "judge" /\ co'[q].fd = co[q].fd
        /\ UNCHANGED <<g, rd, fds, sock, harmed>>
    BY <1>1, <1>3 DEF EnterJudge, Coordinators
  <2>2. ~Xored(q)'
    BY <2>1 DEF Xored
  <2>3. QED
    BY <1>2, <2>1, <2>2, CausesByPc DEF Working
<1>4. CASE LoopTest(q)
  <2> DEFINE l == IF g.xor_flag = 0 /\ g.correct = 0 THEN "judge" ELSE "verdict"
  <2>1. /\ co' = [co EXCEPT ![q].pc = l] /\ UNCHANGED <<g, rd, fds, sock, harmed>>
        /\ co[q].pc \in {"test", "judge"}
    BY <1>4 DEF LoopTest
  <2>2. /\ co'[q].pc = l /\ co'[q].fd = co[q].fd /\ co'[q].out = co[q].out
    <3> HIDE DEF l
    <3>1. QED
      BY <1>1, <2>1 DEF Coordinators
  <2>3. CASE l = "judge"
    <3>1. ~Xored(q)'
      BY <2>2, <2>3 DEF Xored
    <3>2. QED
      BY <1>2, <2>1, <2>2, <2>3, <3>1, CausesByPc DEF Working
  <2>4. CASE l = "verdict"
    <3>1. ASSUME g.correct = 0
          PROVE  Xored(q) /\ Xored(q)'
      <4>1. g.xor_flag # 0
        BY <2>4, <3>1
      <4>2. Xored(q)
        BY <4>1 DEF Lone, Collecting
      <4>3. QED
        BY <1>2, <2>1, <2>2, <2>4, <4>2 DEF Xored, OwnOutput, Files
    <3>2. ASSUME g.correct = 0, Good(q)
          PROVE  Late(q)
      BY <3>1, <3>2 DEF Causes
    <3>3. CASE Good(q)
      BY <1>2, <2>1, <2>2, <2>4, <3>1, <3>2, <3>3, CausesByPc DEF Working
    <3>4. CASE ~Good(q)
      BY <1>2, <2>1, <2>2, <2>4, <3>4 DEF Causes, Good, Busy, Live
    <3>5. QED
      BY <3>3, <3>4
  <2>5. QED
    BY <2>3, <2>4
<1>5. CASE Round(q) \/ RoundEmpty(q)
  <2>1. co[q].pc = "judge"
    BY <1>5 DEF Round, RoundEmpty
  <2>2. ASSUME g.correct = 0
        PROVE  /\ g'.correct = 0 /\ Late(q)
               /\ co'[q].pc = "test" /\ co'[q].fd = co[q].fd
               /\ UNCHANGED <<rd, fds, sock, harmed>>
    BY <1>5, <2>2, SoundRound
  <2>3. CASE g.correct = 0
    BY <1>2, <2>1, <2>2, <2>3, CausesByPc DEF Working
  <2>4. CASE g.correct # 0
    <3>1. ~Good(q)
      BY <2>4 DEF Causes, Sound
    <3>2. UNCHANGED harmed /\ co'[q].pc = "test"
      <4>1. \E k, group, o : RoundOver(q, k, group, o)
        <5>1. CASE Round(q)
          BY <5>1 DEF Round
        <5>2. CASE RoundEmpty(q)
          BY <5>2 DEF RoundEmpty
        <5>3. QED
          BY <1>5, <5>1, <5>2
      <4>2. QED
        BY <1>1, <4>1 DEF RoundOver, Coordinators
    <3>3. QED
      BY <1>2, <2>1, <3>1, <3>2 DEF Causes, Good, Live
  <2>5. QED
    BY <2>3, <2>4
<1>6. QED
  BY <1>3, <1>4, <1>5

\* A request that has lost no descriptor finds no error recorded and all of its file
\* written, and fclose closes its output.
LEMMA CausesByVerdict ==
  ASSUME Types, Outsiders, NEW q \in Requests, Busy(q), Lone(q), Causes(q), Verdict(q),
         ~Exit, q \notin harmed, q \notin harmed'
  PROVE  Causes(q)' /\ co'[q].ret = "RIGHT"
<1> DEFINE out == <<q, "out", 0>>
<1>1. /\ co[q].pc = "verdict" /\ co[q].fd \in Fds /\ Close(co[q].fd, out)
      /\ UNCHANGED <<rd, sock>>
  BY DEF Verdict, CloseOutput, Types, CoType
<1>2. Good(q)
  BY <1>1 DEF Busy, Good
<1>3. Held(q) /\ Sound(q) /\ Xored(q) /\ Late(q)
  BY <1>1, <1>2 DEF Causes, Sound
<1>4. /\ co'[q].pc = "done" /\ co'[q].ret = "RIGHT" /\ co'[q].files = co[q].files
  <2>1. ~(g.correct # 0 \/ g.file_size # g.xor_size)
    BY <1>1, <1>3 DEF Lone, Settings, Xored, Sound
  <2> DEFINE o == IF fds[co[q].fd] = out THEN co[q].out ELSE << >>
  <2>2. co' = [co EXCEPT ![q] = [co[q] EXCEPT !.pc = "done", !.ret = "RIGHT", !.out = o]]
    BY <2>1 DEF Verdict, Types, CoType
  <2> HIDE DEF o
  <2>3. QED
    BY <2>2 DEF Types, CoType, Coordinators
<1>5. \A x \in OwnThings(q), f \in Fds : fds'[f] = x <=> fds[f] = x /\ ~(x = out /\ f = co[q].fd)
  BY <1>1, CloseThings
<1>6. /\ \A i \in Slots : /\ Own(<<q, i>>) \in OwnThings(q) /\ <<q, "a", i>> \in OwnThings(q)
                          /\ Own(<<q, i>>) # out /\ <<q, "a", i>> # out
      /\ out \in OwnThings(q)
  BY OwnFacts, OwnDiffer
<1>7. Fds' = Fds /\ Slots' = Slots
  BY <1>1 DEF Close, Fds, Slots
<1>8. Held(q)'
  <2>1. ASSUME NEW i \in Slots, NEW f \in Fds, fds'[f] = Own(<<q, i>>)
        PROVE  rd'[<<q, i>>].pc \in HasSocket /\ rd'[<<q, i>>].fd = f
    <3>1. fds[f] = Own(<<q, i>>)
      BY <1>5, <1>6, <2>1
    <3>2. QED
      BY <1>1, <1>3, <3>1 DEF Held
  <2>2. \A f \in Fds : fds'[f] # out
    BY <1>3, <1>5, <1>6 DEF Held
  <2>3. ASSUME NEW i \in Slots
        PROVE  (\E f \in Fds : fds'[f] = <<q, "a", i>>) <=>
                 rd'[<<q, i>>].pc \notin {"none", "socket"}
    <3>1. \A f \in Fds : fds'[f] = <<q, "a", i>> <=> fds[f] = <<q, "a", i>>
      BY <1>5, <1>6
    <3>2. (\E f \in Fds : fds[f] = <<q, "a", i>>) <=> rd[<<q, i>>].pc \notin {"none", "socket"}
      BY <1>3 DEF Held, IsOpen
    <3>3. QED
      BY <1>1, <3>1, <3>2
  <2>4. QED
    BY <1>7, <2>1, <2>2, <2>3 DEF Held, IsOpen
<1>9. Late(q)' /\ ~Busy(q)'
  BY <1>1, <1>3, <1>4 DEF Late, Files, Busy, Live
<1>10. QED
  BY <1>4, <1>8, <1>9 DEF Causes

\* What the readers of q do to its own descriptors.
LEMMA CausesByReader ==
  ASSUME Types, Outsiders, NEW q \in Requests, Start(q), Lone(q), Next, Causes(q),
         NEW i \in Slots, Reader(<<q, i>>), ~Exit
  PROVE  Causes(q)'
<1> DEFINE t == <<q, i>>
<1>1. SUFFICES ASSUME Good(q)'
               PROVE  /\ Held(q)' /\ (Busy(q) => Sound(q))'
                      /\ (~Busy(q) \/ Xored(q) => Late(q))'
  BY DEF Causes
<1>2. t \in Threads /\ Reader(t) /\ q \notin harmed'
  BY <1>1, ThreadFacts DEF Good
<1>3. /\ UNCHANGED co /\ rd[t].pc # "none"
      /\ \A u \in Threads : u # t => SameReader(u)
  <2> HIDE DEF t
  <2>1. QED
    BY <1>2, ReaderFrame
<1>4. Good(q) /\ (Busy(q)' <=> Busy(q))
  BY <1>1, <1>3, HarmGrows DEF Good, Busy, Live
<1>5. Held(q) /\ (Busy(q) => Sound(q)) /\ (~Busy(q) \/ Xored(q) => Late(q))
  BY <1>4 DEF Causes
<1>6. i \in Files(q) /\ Files(q)' = Files(q) /\ Files(q) \subseteq Slots
  BY <1>3, FilesFacts DEF Files
<1>7. Late(q) => Late(q)'
  <2>1. SUFFICES ASSUME Late(q), NEW j \in Files(q)
                 PROVE  rd'[<<q, j>>].pc \in {"loop", "store", "close", "end"}
    BY <1>6 DEF Late
  <2>2. rd[<<q, j>>].pc \in {"loop", "store", "close", "end"} /\ <<q, j>> \in Threads
    BY <1>6, <2>1, ThreadFacts DEF Late
  <2>3. CASE j = i
    <3>1. rd[t].pc \in {"loop", "store", "close", "end"}
      BY <2>2, <2>3
    <3>2. rd'[t].pc \in {"loop", "store", "close", "end"}
      <4> HIDE DEF t
      <4>1. QED
        BY <1>2, <3>1, LateByReader
    <3>3. QED
      BY <2>3, <3>2
  <2>4. CASE j # i
    BY <1>3, <2>2, <2>4 DEF SameReader
  <2>5. QED
    BY <2>3, <2>4
<1>8. rd[t].pc = "alloc" => g.correct = 0
  <2>1. Busy(q) \/ Late(q)
    BY <1>5
  <2>2. QED
    BY <1>5, <1>6, <2>1 DEF Sound, Late
<1>9. Held(q)'
  BY <1>2, <1>5, <1>8, HeldByReader
<1>10. ASSUME Busy(q)
       PROVE  Sound(q)' /\ (Xored(q)' => Xored(q))
  <2>1. g.correct = 0 /\ \A j \in Slots : Attached(<<q, j>>)
    BY <1>5, <1>10 DEF Sound
  <2>2. Attached(<<q, i>>)' /\ g'.correct = 0
    BY <1>2, <1>10, <2>1, SoundStep
  <2>3. \A j \in Slots : Attached(<<q, j>>)'
    BY <1>2, <2>1, <2>2, AttachedOthers
  <2>4. g'.xor_size = g.xor_size /\ g'.xor_flag = g.xor_flag
    <3> HIDE DEF t
    <3>1. \/ UNCHANGED g \/ (\E k : Count(k)) \/ g' = [g EXCEPT !.correct = -1]
      BY <1>2 DEF Reader, FirstSocket, SecondSocket, SocketFails, GiveUp, Connect, Header,
         Alloc, Arm, CallbackFrees, CallbackReads, CallbackEnds, Store, Prepare, LoopEnds,
         LastClose
    <3>2. QED
      BY <3>1 DEF Count, Types, GroupType, Groups
  <2>5. Xored(q)' <=> Xored(q)
    BY <1>3, <2>4 DEF Xored, OwnOutput, Files
  <2>6. Slots' = Slots
    BY DEF Slots
  <2>7. QED
    BY <1>3, <1>5, <1>10, <2>2, <2>3, <2>5, <2>6 DEF Sound
<1>11. QED
  BY <1>4, <1>5, <1>7, <1>9, <1>10

-----------------------------------------------------------------------------
(* The invariant.                                                          *)

\* Every step keeps the causes.
LEMMA CausesNext ==
  ASSUME CInv, Next, NEW q \in Requests
  PROVE  Causes(q)'
<1>1. Types /\ Outsiders /\ Start(q) /\ Lone(q) /\ Unused(q) /\ Causes(q)
  BY DEF CInv, IInv
<1>2. SUFFICES ASSUME Good(q)'
               PROVE  Causes(q)'
  BY DEF Causes
<1>3. /\ co'[q].alone /\ q \notin harmed /\ q \notin harmed'
      /\ co'[q].pc \in Live \cup {"done"}
  BY <1>2, HarmGrows DEF Good, Live
<1>4. ~Exit
  BY <1>1, <1>3, ExitFrame DEF Live
<1>5. ASSUME NEW p \in Requests, Clear(p)
      PROVE  Causes(q)'
  BY <1>1, <1>5, CausesByClear
<1>6. CASE Coordinator(q)
  <2>1. Busy(q)
    BY <1>1, <1>3, <1>4, <1>6, CoordinatorFrame DEF Busy
  <2>2. ~FillFails(q)
    BY <1>3 DEF FillFails, Refused
  <2>3. QED
    BY <1>1, <1>3, <1>4, <1>6, <2>1, <2>2, CausesByFill, CausesByTest, CausesByVerdict DEF
       Coordinator
<1>7. ASSUME NEW p \in Requests, p # q, Coordinator(p)
      PROVE  Causes(q)'
  BY <1>1, <1>4, <1>7, CausesByOthers
<1>8. ASSUME NEW t \in Threads, Reader(t)
      PROVE  Causes(q)'
  <2>1. CASE t[1] # q
    BY <1>1, <1>4, <1>8, <2>1, CausesByOthers
  <2>2. CASE t[1] = q
    <3>1. t = <<q, t[2]>> /\ t[2] \in Slots
      BY <2>2, ThreadFacts
    <3>2. Reader(<<q, t[2]>>)
      BY <1>8, <3>1
    <3>3. QED
      BY <1>1, <1>4, <3>1, <3>2, CausesByReader
  <2>3. QED
    BY <2>1, <2>2
<1>9. ASSUME NEW c \in Clients, Accept(c) \/ Leave(c)
      PROVE  Causes(q)'
  BY <1>1, <1>4, <1>9, CausesByOthers
<1>10. QED
  BY <1>5, <1>6, <1>7, <1>8, <1>9 DEF Next

\* Only fopen and the verdict give a result.
LEMMA LoneFailsNext ==
  ASSUME CInv, Next
  PROVE  LoneFailsForCause'
<1>1. Types /\ Outsiders /\ LoneFailsForCause
  BY DEF CInv, IInv
<1>2. SUFFICES ASSUME NEW q \in Requests, co'[q].ret = "ERROR", co'[q].alone, q \notin harmed'
               PROVE  FALSE
  BY DEF LoneFailsForCause
<1>3. Lone(q) /\ Causes(q) /\ Start(q) /\ q \notin harmed
  BY <1>2, HarmGrows DEF CInv, IInv
<1>4. co[q].ret # "ERROR" \/ ~co[q].alone
  BY <1>1, <1>3 DEF LoneFailsForCause
<1>5. ASSUME co'[q].ret = co[q].ret, co'[q].alone => co[q].alone
      PROVE  FALSE
  BY <1>2, <1>4, <1>5
<1>6. CASE Exit
  BY <1>1, <1>5, <1>6, ExitFrame
<1>7. ASSUME NEW p \in Requests, Clear(p)
      PROVE  FALSE
  <2>1. co[q].ret = co'[q].ret /\ (p # q => (co'[q].alone => co[q].alone))
    BY <1>1, <1>7, ClearFrame
  <2>2. CASE p = q
    <3>1. co[q].pc = "idle"
      BY <1>1, <1>7, <2>2, ClearFrame
    <3>2. co[q].ret = "none"
      BY <1>3, <3>1 DEF Start, Unfinished
    <3>3. QED
      BY <1>2, <2>1, <3>2
  <2>3. QED
    BY <1>5, <2>1, <2>2
<1>8. ASSUME NEW p \in Requests, Coordinator(p), ~Exit
      PROVE  FALSE
  <2>1. p = q
    BY <1>1, <1>5, <1>8, CoordinatorFrame
  <2>2. Busy(q) /\ (co'[q].ret = co[q].ret \/ co'[q].pc = "done")
    BY <1>1, <1>2, <1>8, <2>1, CoordinatorFrame DEF Busy
  <2>3. co[q].ret = "none"
    BY <1>3, <2>2 DEF Start, Unfinished, Busy, Live
  <2>4. co'[q].pc = "done"
    BY <1>2, <2>2, <2>3
  <2>5. ~FillFails(q)
    BY <1>2 DEF FillFails, Refused
  <2>6. Verdict(q)
    <3>1. co \in [Requests -> Coordinators({co[r].out : r \in Requests})]
      BY <1>1 DEF Types, CoType
    <3>2. ~Fill(q) /\ ~EnterJudge(q)
      BY <2>4, <3>1 DEF Fill, EnterJudge, Coordinators
    <3>3. ~LoopTest(q)
      <4> DEFINE l == IF g.xor_flag = 0 /\ g.correct = 0 THEN "judge" ELSE "verdict"
      <4>1. LoopTest(q) => co' = [co EXCEPT ![q].pc = l]
        BY DEF LoopTest
      <4>2. l # "done"
        OBVIOUS
      <4> HIDE DEF l
      <4>3. QED
        BY <2>4, <3>1, <4>1, <4>2 DEF Coordinators
    <3>4. ~Round(q) /\ ~RoundEmpty(q)
      <4>1. Round(q) \/ RoundEmpty(q) => \E k, group, o : RoundOver(q, k, group, o)
        BY <1>8 DEF Round, RoundEmpty
      <4>2. QED
        BY <2>4, <3>1, <4>1 DEF RoundOver, Coordinators
    <3>5. QED
      BY <1>8, <2>1, <2>5, <3>2, <3>3, <3>4 DEF Coordinator
  <2>7. co'[q].ret = "RIGHT"
    BY <1>1, <1>2, <1>3, <1>8, <2>2, <2>6, CausesByVerdict
  <2>8. QED
    BY <1>2, <2>7
<1>9. ASSUME NEW t \in Threads, Reader(t), ~Exit
      PROVE  FALSE
  BY <1>1, <1>5, <1>9, ReaderFrame
<1>10. ASSUME NEW c \in Clients, Accept(c) \/ Leave(c)
       PROVE  FALSE
  BY <1>5, <1>10 DEF Accept, Leave
<1>11. QED
  BY <1>6, <1>7, <1>8, <1>9, <1>10 DEF Next

\* The causes hold at the start.
LEMMA CausesInit ==
  ASSUME Init
  PROVE  CInv
<1>1. IInv
  BY InvInit
<1>2. PICK sc \in Scenarios :
        /\ co = [q \in Requests |-> [pc |-> "idle", num |-> 0, fd |-> 0, out |-> << >>,
                                    ret |-> "none", alone |-> TRUE,
                                    files |-> sc.files[q], waits |-> sc.waits]]
        /\ fds = [f \in 3..(sc.limit + 2) |-> Nobody]
        /\ sock = [s \in Sockets \cup Clients |->
                     IF s \in Clients /\ s[3] \notin sc.visitors THEN GoneSock ELSE NewSock]
  BY DEF Init
<1>3. \A q \in Requests : co[q].pc = "idle" /\ co[q].ret = "none"
  BY <1>2
<1>4. \A f \in Fds : fds[f] = Nobody
  BY <1>2 DEF Fds
<1>5. \A s \in Sockets : sock[s].st = "new"
  BY <1>2, ThingFacts DEF NewSock
<1>6. ASSUME NEW q \in Requests
      PROVE  Unused(q) /\ Causes(q)
  <2>1. ~IsOpen(<<q, "out", 0>>)
    BY <1>4, OwnFacts DEF IsOpen
  <2>2. Unused(q)
    BY <1>5, <2>1 DEF Unused, OwnSockets
  <2>3. Causes(q)
    BY <1>3 DEF Causes, Good, Live
  <2>4. QED
    BY <2>2, <2>3
<1>7. QED
  BY <1>1, <1>3, <1>6 DEF CInv, LoneFailsForCause

\* The invariant is inductive.
LEMMA CausesKept ==
  ASSUME CInv, [Next]_vars
  PROVE  CInv'
<1>1. IInv'
  BY InvNext DEF CInv
<1>2. CASE Next
  <2>1. \A q \in Requests : Unused(q)'
    BY <1>2, UnusedNext DEF CInv, IInv
  <2>2. QED
    BY <1>1, <1>2, <2>1, CausesNext, LoneFailsNext DEF CInv
<1>3. CASE UNCHANGED vars
  <2>1. \A q \in Requests : Unused(q)' = Unused(q) /\ Causes(q)' = Causes(q)
    BY <1>3 DEF vars, Unused, Causes, Good, Busy, Held, Sound, Attached, Late, Xored,
       OwnSockets, IsOpen, Fds, Files, OwnOutput, Own
  <2>2. LoneFailsForCause' = LoneFailsForCause
    BY <1>3 DEF vars, LoneFailsForCause
  <2>3. QED
    BY <1>1, <2>1, <2>2 DEF CInv
<1>4. QED
  BY <1>2, <1>3

\* What a successful request has open when its readers have ended.
LEMMA LeaksByInv ==
  ASSUME CInv
  PROVE  LeaksOnePerFile
<1>1. SUFFICES ASSUME NEW q \in Requests, co[q].pc = "done", co[q].ret = "RIGHT", co[q].alone,
                      ~Active(q), q \notin harmed
               PROVE  Owned(q) = {<<q, "a", i>> : i \in Files(q)}
  BY DEF LeaksOnePerFile
<1>2. Types /\ Outsiders /\ Causes(q)
  BY DEF CInv, IInv
<1>3. Held(q)
  BY <1>1, <1>2 DEF Good, Causes
<1>4. Late(q)
  BY <1>1, <1>2 DEF Good, Causes, Busy, Live
<1>5. /\ \A i \in Files(q) : rd[<<q, i>>].pc = "end"
      /\ \A i \in Slots : i \notin Files(q) => rd[<<q, i>>].pc = "none"
      /\ Files(q) \subseteq Slots
  BY <1>1, <1>2, <1>4, FilesFacts DEF Active, Late
<1>6. ~IsOpen(<<q, "out", 0>>)
  BY <1>1, <1>3 DEF Held, IsOpen, Working
<1>7. ASSUME NEW i \in Slots
      PROVE  /\ ~IsOpen(Own(<<q, i>>)) /\ (IsOpen(<<q, "a", i>>) <=> i \in Files(q))
             /\ <<q, "a", i>> \in Sockets \cup Outputs /\ <<q, "a", i>>[1] = q
  <2>1. rd[<<q, i>>].pc \in {"none", "end"}
    BY <1>5
  <2>2. ~IsOpen(Own(<<q, i>>))
    BY <1>3, <2>1 DEF Held, IsOpen, HasSocket
  <2>3. IsOpen(<<q, "a", i>>) <=> i \in Files(q)
    BY <1>3, <1>5 DEF Held
  <2>4. <<q, "a", i>> \in Sockets \cup Outputs /\ <<q, "a", i>>[1] = q
    BY OwnFacts DEF OwnThings
  <2>5. QED
    BY <2>2, <2>3, <2>4
<1>8. ASSUME NEW s \in Owned(q)
      PROVE  \E i \in Files(q) : s = <<q, "a", i>>
  <2>1. s \in Sockets \cup Outputs /\ s[1] = q /\ IsOpen(s)
    BY DEF Owned
  <2>2. s \notin Outputs
    <3>1. s \in Outputs => s = <<q, "out", 0>>
      BY <2>1, ThingFacts
    <3>2. QED
      BY <1>6, <2>1, <3>1
  <2>3. s = <<q, s[2], s[3]>> /\ s[2] \in {"a", "b"} /\ s[3] \in Slots
    BY <2>1, <2>2, ThingFacts
  <2>4. Own(<<q, s[3]>>) = <<q, "b", s[3]>>
    BY <2>3, OwnFacts
  <2>5. s = <<q, "a", s[3]>>
    BY <1>7, <2>1, <2>3, <2>4
  <2>6. QED
    BY <1>7, <2>1, <2>3, <2>5
<1>9. ASSUME NEW i \in Files(q)
      PROVE  <<q, "a", i>> \in Owned(q)
  BY <1>5, <1>7 DEF Owned
<1>10. QED
  BY <1>8, <1>9

-----------------------------------------------------------------------------
(* The theorems.                                                           *)

\* The inductive invariant: while a request is alone and has lost no descriptor,
\* each of its sockets and its output is open where the thread that opened it has
\* its number (process_in_new_thread_file_num, judge_xor_condition), and no error
\* is in correct_flag.
THEOREM CausesInductive == Spec => []CInv
<1>1. Init => CInv
  BY CausesInit
<1>2. CInv /\ [Next]_vars => CInv'
  BY CausesKept
<1>3. QED
  BY <1>1, <1>2, PTL DEF Spec

\* A request that is alone and that create_client_connect_data_server answers with
\* ERROR was refused a descriptor by fopen() or socket(), or lost one to the close()
\* of a thread that no longer owned the number.
THEOREM FailsOnlyForDescriptors == Spec => []LoneFailsForCause
<1>1. CInv => LoneFailsForCause
  BY DEF CInv
<1>2. QED
  BY <1>1, CausesInductive, PTL

\* A successful request that was alone leaves the first socket of each of its
\* readers open, which connect_to_server overwrites, and nothing else.
THEOREM LeaksExactlyOne == Spec => []LeaksOnePerFile
<1>1. CInv => LeaksOnePerFile
  BY LeaksByInv
<1>2. QED
  BY <1>1, CausesInductive, PTL
=============================================================================
