-------------------------- MODULE GroupReuseProofs --------------------------
(***************************************************************************)
(* Proofs about GroupReuse, for any number of requests, files, clients and *)
(* descriptors: nothing that earlier requests have left in g_tgroupFile,   *)
(* on the heap or in the descriptor table reaches the output of a request  *)
(* that is alone.  The invariant follows the units of such a request: each *)
(* is in one place, in a socket of the request, in the hand of one of its  *)
(* readers or in one of its buffers, and is asked for once.  So when the   *)
(* counter says that every reader has filled its buffer, the buffers hold  *)
(* all units of the request, whichever descriptors the readers have        *)
(* closed under each other.                                                *)
(***************************************************************************)
EXTENDS GroupReuse, FiniteSetTheorems, SequenceTheorems, WellFoundedInduction, TLAPS

Live    == {"fill", "enter", "judge", "test", "verdict"}
Busy(q) == co[q].alone /\ co[q].pc \in Live

OwnSockets(q) == {s \in Sockets : s[1] = q}

\* There is one reader for each file.
Outsiders == \A t \in Threads : t[2] \notin Files(t[1]) => rd[t].pc = "none"

\* Before its threads start a request has no result, no thread and no socket.
Unfinished(q) == co[q].pc \notin {"done", "dead"} => co[q].ret = "none"
BeforeStart(q) ==
  co[q].pc \in {"idle", "fill"} =>
    /\ co[q].out = << >>
    /\ \A i \in Slots : rd[<<q, i>>].pc = "none"
    /\ \A s \in OwnSockets(q) : sock[s].data = << >> /\ ~IsOpen(s)

\* No thread of another request is active.
Isolated(q) ==
  \A p \in Requests \ {q} :
    co[p].pc \notin Live /\ \A i \in Slots : rd[<<p, i>>].pc \in {"none", "end"}

\* The readers of q may close the descriptors of each other, but neither that of
\* the output file nor one under which a socket of another request is open.
HasSocket == {"connect", "header", "alloc", "arm", "loop", "store", "close"}
Descriptors(q) ==
  /\ co[q].pc # "fill" => fds[co[q].fd] = <<q, "out", 0>>
  /\ \A i \in Slots : rd[<<q, i>>].pc \in HasSocket =>
       /\ rd[<<q, i>>].fd # co[q].fd
       /\ fds[rd[<<q, i>>].fd] \in Sockets => fds[rd[<<q, i>>].fd] \in OwnSockets(q)

\* The locals and the fields of the group that the request has set itself.
Settings(q) ==
  /\ co[q].pc # "fill" => g.file_size = 1 /\ g.file_num = co[q].files
  /\ co[q].pc \in {"judge", "test", "verdict"} => co[q].num = co[q].files

\* Element i is that of reader i of q.
Element(q, i) ==
  LET t == <<q, i>> IN
    /\ co[q].pc # "fill" => slot[i].path = q
    /\ rd[t].pc \in {"none", "socket", "socket2", "connect", "header", "alloc", "arm"} =>
         \A k \in Bufs : slot[i].flag[k] = 0
    /\ rd[t].pc \in {"arm", "loop", "store", "close"} => slot[i].ptr = t
    /\ rd[t].pc \in {"loop", "store"} => slot[i].ev = t /\ slot[i].fd = rd[t].fd
    /\ slot[i].ptr = t => heap[t].st # "none"
    /\ \A k \in Bufs : slot[i].flag[k] # 0 => slot[i].ptr = t
    /\ \A k \in Bufs : slot[i].size[k] = IF slot[i].flag[k] = 2 THEN 1 ELSE 0

\* The counters do not overstate.
Full(q, k) == {i \in Files(q) : slot[i].flag[k] = 2}
Counts(q)  == \A k \in Bufs : g.full[k] <= Cardinality(Full(q, k))

\* The places where a unit of q can be, and the units that are there.
Places(q) ==
  {<<"socket", s>> : s \in OwnSockets(q)}
    \cup {<<"hand", <<q, i>>>> : i \in Slots}
    \cup {<<"buffer", <<i, k>>>> : i \in Slots, k \in Bufs}

Waiting(s)    == {sock[s].data[n] : n \in 1..Len(sock[s].data)}
Hand(t)       == IF rd[t].pc = "store" THEN {rd[t].hand} ELSE {}
Kept(q, i, k) == IF i \in Full(q, k) /\ heap[<<q, i>>].st = "live"
                 THEN {heap[<<q, i>>].unit[k][1]} ELSE {}

In(q, x) == CASE x[1] = "socket" -> Waiting(x[2])
              [] x[1] = "hand"   -> Hand(x[2])
              [] x[1] = "buffer" -> Kept(q, x[2][1], x[2][2])

\* No unit is in two places, or twice in a socket, and there is none that its
\* reader has not asked for.
OnePlace(q) == \A x, y \in Places(q) : x # y => In(q, x) \cap In(q, y) = {}
Once(q) ==
  \A s \in OwnSockets(q) : \A m, n \in 1..Len(sock[s].data) :
    sock[s].data[m] = sock[s].data[n] => m = n
Asked(q) ==
  \A x \in Places(q) : \A u \in In(q, x) :
    /\ u \in Threads /\ u[1] = q /\ u[2] \in Files(q)
    /\ rd[u].pc \notin {"none", "socket", "socket2", "connect", "header"}

\* Before the buffers are XORed, and after.
Collecting(q) ==
  /\ co[q].out = << >> /\ g.xor_size = 0 /\ g.xor_flag = 0
  /\ \A i \in Files(q) : Element(q, i)
  /\ Counts(q) /\ OnePlace(q) /\ Once(q) /\ Asked(q)
Xored(q) ==
  /\ co[q].out = OwnOutput(q) /\ g.xor_size = 1 /\ g.xor_flag = 1
  /\ co[q].pc \in {"test", "verdict"}

Lone(q) ==
  Busy(q) => /\ Isolated(q) /\ Descriptors(q) /\ Settings(q)
             /\ Collecting(q) \/ Xored(q)

Start(q) == Unfinished(q) /\ BeforeStart(q)

IInv ==
  /\ Types /\ Outsiders
  /\ \A q \in Requests : Start(q) /\ Lone(q)
  /\ LoneRightMeansOwnFiles

-----------------------------------------------------------------------------
(* The constants, the descriptor table and what can be in it.              *)

\* What ReuseAssumption says, by parts.
LEMMA Constants ==
  /\ Requests \subseteq Nat /\ 0 \notin Requests /\ IsFiniteSet(Requests)
  /\ MaxFiles \in 1..50
  /\ Scenarios \subseteq [files : [Requests -> 1..MaxFiles], waits : BOOLEAN,
                          visitors : SUBSET Visitors, limit : Nat]
BY ReuseAssumption

\* A thread is a request and the number of a file.
LEMMA ThreadFacts ==
  /\ \A t \in Threads : t = <<t[1], t[2]>> /\ t[1] \in Requests /\ t[2] \in Slots
  /\ \A q \in Requests, i \in Slots : <<q, i>> \in Threads
  /\ NULL \notin Threads
<1>1. 0 \notin Requests
  BY Constants
<1>2. QED
  BY <1>1 DEF Threads, NULL

\* If there is a request, a buffer has room for a unit.
LEMMA UnitsBound == MaxUnits \in Nat /\ (Threads # {} => 1 \in 1..MaxUnits)
<1>1. IsFiniteSet(Slots)
  BY Constants, FS_Interval DEF Slots
<1>2. IsFiniteSet(Threads)
  BY <1>1, Constants, FS_Product DEF Threads
<1>3. MaxUnits \in Nat /\ (MaxUnits = 0 <=> Threads = {})
  BY <1>2, FS_CardinalityType, FS_EmptySet DEF MaxUnits
<1>4. QED
  BY <1>3

\* socket() and fopen() find the lowest free number.
LEMMA MinFree ==
  ASSUME NEW S \in SUBSET Nat, S # {}
  PROVE  Min(S) \in S
<1> DEFINE less == {p \in Nat \X Nat : p[1] < p[2]}
<1>1. IsWellFoundedOn(less, Nat)
  BY NatLessThanWellFounded, Zenon DEF OpToRel
<1>2. \E x \in S : \A y \in S : ~(<<y, x>> \in less)
  <2> HIDE DEF less
  <2>1. QED
    BY <1>1, WFMin, Zenon
<1>3. PICK x \in S : \A y \in S : ~(<<y, x>> \in less)
  BY <1>2
<1>4. ASSUME NEW y \in S
      PROVE  x <= y
  <2>1. x \in Nat /\ y \in Nat /\ <<y, x>> \notin less
    BY <1>3
  <2>2. ~(y < x)
    BY <2>1
  <2>3. QED
    BY <2>1, <2>2
<1>5. QED
  BY <1>4 DEF Min

\* The sockets, the output files, the clients and nobody are different things.
LEMMA ThingFacts ==
  /\ \A s \in Sockets : s[1] \in Requests /\ s[2] \in {"a", "b"} /\ s[3] \in Slots
  /\ \A s \in Sockets : s = <<s[1], s[2], s[3]>>
  /\ \A s \in Outputs : s[2] = "out" /\ s[1] \in Requests /\ s = <<s[1], "out", 0>>
  /\ \A s \in Clients : s[2] = "client"
  /\ Nobody[2] = "free"
  /\ \A q \in Requests : <<q, "out", 0>> \in Outputs
  /\ \A t \in Threads : Own(t) \in Sockets /\ <<t[1], "a", t[2]>> \in Sockets
  /\ \A t \in Threads : Own(t)[1] = t[1]
  /\ Nobody \notin Sockets /\ Nobody \notin Outputs /\ Nobody \notin Clients
  /\ Sockets \cap Outputs = {} /\ Sockets \cap Clients = {} /\ Outputs \cap Clients = {}
<1>1. /\ \A s \in Sockets : s[1] \in Requests /\ s[2] \in {"a", "b"} /\ s[3] \in Slots
      /\ \A s \in Sockets : s = <<s[1], s[2], s[3]>>
  BY ThreadFacts DEF Sockets
<1>2. /\ \A s \in Outputs : s[2] = "out" /\ s[1] \in Requests /\ s = <<s[1], "out", 0>>
      /\ \A q \in Requests : <<q, "out", 0>> \in Outputs
  BY DEF Outputs
<1>3. \A s \in Clients : s[2] = "client"
  BY DEF Clients
<1>4. Nobody[2] = "free"
  BY DEF Nobody
<1>5. /\ \A t \in Threads : Own(t) \in Sockets /\ <<t[1], "a", t[2]>> \in Sockets
      /\ \A t \in Threads : Own(t)[1] = t[1]
  BY DEF Sockets, Own
<1>6. QED
  BY <1>1, <1>2, <1>3, <1>4, <1>5

\* What Open and Refused do to the table.
LEMMA OpenFacts ==
  ASSUME TableType, NEW s, Open(s)
  PROVE  /\ Min(Free) \in Fds /\ fds[Min(Free)] = Nobody
         /\ fds' = [fds EXCEPT ![Min(Free)] = s]
<1>1. Free \in SUBSET Nat /\ Free # {} /\ Free \subseteq Fds
  BY DEF TableType, Free, Open
<1>2. Min(Free) \in Free
  BY <1>1, MinFree
<1>3. QED
  BY <1>1, <1>2 DEF Free, Open

-----------------------------------------------------------------------------
(* Types.                                                                  *)

\* Fields are replaced by values of their types.
LEMMA GroupFields ==
  ASSUME NEW r \in Groups
  PROVE  /\ \A n \in 0..MaxFiles : [r EXCEPT !.file_size = 1, !.file_num = n] \in Groups
         /\ [r EXCEPT !.correct = -1] \in Groups
         /\ \A k \in Bufs : [r EXCEPT !.full[k] = 0] \in Groups
         /\ \A k \in Bufs : [r EXCEPT !.full[k] = @ + 1] \in Groups
         /\ \A y \in Nat, x \in 0..1 : [r EXCEPT !.xor_size = y, !.xor_flag = x] \in Groups
         /\ \A x \in 0..1 : [r EXCEPT !.xor_flag = x] \in Groups
<1>1. ASSUME NEW C, NEW X, NEW F, NEW S, NEW Y, NEW N,
             NEW s \in [correct : C, xor_flag : X, full : F, file_size : S, xor_size : Y, file_num : N],
             NEW n \in N, NEW z \in S, NEW c \in C, NEW f \in F, NEW y \in Y, NEW x \in X
      PROVE  LET R == [correct : C, xor_flag : X, full : F, file_size : S, xor_size : Y, file_num : N]
             IN  /\ [s EXCEPT !.file_size = z, !.file_num = n] \in R
                 /\ [s EXCEPT !.correct = c] \in R
                 /\ [s EXCEPT !.full = f] \in R
                 /\ [s EXCEPT !.xor_size = y, !.xor_flag = x] \in R
                 /\ [s EXCEPT !.xor_flag = x] \in R
  OBVIOUS
<1> DEFINE Counter == [Bufs -> Nat]
<1>2. \A f \in Counter : [r EXCEPT !.full = f] \in Groups
  BY <1>1 DEF Groups
<1>3. r.full \in Counter
  BY DEF Groups
<1>4. \A k \in Bufs : [r.full EXCEPT ![k] = 0] \in Counter /\ [r.full EXCEPT ![k] = @ + 1] \in Counter
  BY <1>3
<1>5. \A n \in 0..MaxFiles : [r EXCEPT !.file_size = 1, !.file_num = n] \in Groups
  <2>1. 1 \in 0..1
    OBVIOUS
  <2>2. QED
    BY <1>1, <2>1 DEF Groups
<1>6. [r EXCEPT !.correct = -1] \in Groups
  BY <1>1 DEF Groups
<1>7. \A y \in Nat, x \in 0..1 : [r EXCEPT !.xor_size = y, !.xor_flag = x] \in Groups
  BY <1>1 DEF Groups
<1>8. \A x \in 0..1 : [r EXCEPT !.xor_flag = x] \in Groups
  BY <1>1 DEF Groups
<1>9. QED
  BY <1>2, <1>4, <1>5, <1>6, <1>7, <1>8

\* An element of the array stays one when a field of it is set.
LEMMA ElementFields ==
  ASSUME NEW e \in Elements
  PROVE  /\ \A q \in Requests : [e EXCEPT !.path = q] \in Elements
         /\ \A u \in Units : [e EXCEPT !.ptr = u] \in Elements
         /\ \A k \in Bufs, n \in 0..2 : [e EXCEPT !.flag[k] = n] \in Elements
         /\ \A k \in Bufs, n \in 0..2, m \in Nat :
              [e EXCEPT !.flag[k] = n, !.size[k] = m] \in Elements
         /\ \A f \in [Bufs -> 0..2], d \in Fds, v \in Units :
              [e EXCEPT !.flag = f, !.fd = d, !.ev = v] \in Elements
<1>1. ASSUME NEW P, NEW Q, NEW F, NEW S, NEW D, NEW V,
             NEW s \in [path : P, ptr : Q, flag : F, size : S, fd : D, ev : V],
             NEW p \in P, NEW q \in Q, NEW f \in F, NEW z \in S, NEW d \in D, NEW v \in V
      PROVE  LET R == [path : P, ptr : Q, flag : F, size : S, fd : D, ev : V]
             IN  /\ [s EXCEPT !.path = p] \in R
                 /\ [s EXCEPT !.ptr = q] \in R
                 /\ [s EXCEPT !.flag = f] \in R
                 /\ [s EXCEPT !.flag = f, !.size = z] \in R
                 /\ [s EXCEPT !.flag = f, !.fd = d, !.ev = v] \in R
  OBVIOUS
<1> DEFINE Flag == [Bufs -> 0..2]
           Size == [Bufs -> Nat]
<1>2. e.flag \in Flag /\ e.size \in Size
  BY DEF Elements
<1>3. \A k \in Bufs, n \in 0..2 : [e.flag EXCEPT ![k] = n] \in Flag
  BY <1>2
<1>4. \A k \in Bufs, m \in Nat : [e.size EXCEPT ![k] = m] \in Size
  BY <1>2
<1>5. \A f \in Flag, z \in Size : [e EXCEPT !.flag = f, !.size = z] \in Elements
  BY <1>1 DEF Elements
<1>6. \A f \in Flag : [e EXCEPT !.flag = f] \in Elements
  BY <1>1 DEF Elements
<1>7. \A q \in Requests : [e EXCEPT !.path = q] \in Elements
  BY <1>1 DEF Elements
<1>8. \A u \in Units : [e EXCEPT !.ptr = u] \in Elements
  BY <1>1 DEF Elements
<1>9. \A f \in Flag, d \in Fds, v \in Units : [e EXCEPT !.flag = f, !.fd = d, !.ev = v] \in Elements
  BY <1>1 DEF Elements
<1>10. ASSUME NEW k \in Bufs, NEW n \in 0..2, NEW m \in Nat
       PROVE  /\ [e EXCEPT !.flag[k] = n] \in Elements
              /\ [e EXCEPT !.flag[k] = n, !.size[k] = m] \in Elements
  <2>1. [e EXCEPT !.flag[k] = n] = [e EXCEPT !.flag = [e.flag EXCEPT ![k] = n]]
    BY DEF Elements
  <2>2. [e EXCEPT !.flag[k] = n, !.size[k] = m]
          = [e EXCEPT !.flag = [e.flag EXCEPT ![k] = n], !.size = [e.size EXCEPT ![k] = m]]
    BY DEF Elements
  <2> HIDE DEF Flag, Size
  <2>3. QED
    BY <1>3, <1>4, <1>5, <1>6, <2>1, <2>2
<1>11. QED
  BY <1>7, <1>8, <1>9, <1>10

\* Types: the initial states.
LEMMA TypesInit ==
  ASSUME Init
  PROVE  Types
<1>1. PICK sc \in Scenarios :
        /\ co = [q \in Requests |-> [pc |-> "idle", num |-> 0, fd |-> 0, out |-> << >>,
                                   ret |-> "none", alone |-> TRUE,
                                   files |-> sc.files[q], waits |-> sc.waits]]
        /\ fds = [f \in 3..(sc.limit + 2) |-> Nobody]
        /\ sock = [s \in Sockets \cup Clients |->
                     IF s \in Clients /\ s[3] \notin sc.visitors THEN GoneSock ELSE NewSock]
  BY DEF Init
<1>2. sc.files \in [Requests -> Slots] /\ sc.waits \in BOOLEAN /\ sc.limit \in Nat
  BY <1>1, Constants DEF Slots
<1>3. GroupType
  BY Constants DEF Init, ZeroGroup, ZeroSlot, GroupType, Groups, Elements, Units, Bufs
<1>4. CoType
  <2>1. \A q \in Requests : co[q].out = << >>
    BY <1>1
  <2>2. \A q \in Requests : << >> \in {co[p].out : p \in Requests}
    BY <2>1
  <2>3. 0 \in 0..MaxFiles
    BY Constants
  <2>4. QED
    BY <1>1, <1>2, <2>2, <2>3 DEF CoType, Coordinators, CoPcs
<1>5. RdType
  BY DEF Init, RdType, NewThread, Junk, Units, Things, Readers, RdPcs
<1>6. TableType
  <2>1. fds \in [Fds -> Things] /\ Fds \subseteq Nat
    BY <1>1, <1>2 DEF Fds, Things
  <2>2. heap \in [Threads -> Buffers]
    BY DEF Init, Fresh, Junk, Units, Buffers
  <2>3. NewSock \in Connections
        /\ GoneSock \in Connections
    BY DEF NewSock, GoneSock, Connections
  <2>4. sock \in [Sockets \cup Clients -> Connections]
    BY <1>1, <2>3
  <2>5. QED
    BY <2>1, <2>2, <2>4 DEF Init, TableType
<1>7. QED
  BY <1>3, <1>4, <1>5, <1>6 DEF Types

\* The process ends.
LEMMA TypesExit ==
  ASSUME Types, Exit
  PROVE  Types'
<1>1. Fds' = Fds /\ fds' \in [Fds -> Things]
  BY DEF Exit, Fds, Things
<1>2. GroupType'
  BY <1>1, Constants DEF Exit, ZeroGroup, ZeroSlot, GroupType, Groups, Elements, Units,
     Bufs
<1>3. CoType'
  <2> DEFINE T(X) == Coordinators(X)
             outs == {co'[p].out : p \in Requests}
  <2>1. \A q \in Requests :
          /\ co[q] \in T({co[p].out : p \in Requests}) /\ co'[q] = [co[q] EXCEPT !.pc = "dead"]
    BY DEF Exit, Types, CoType
  <2>2. ASSUME NEW q \in Requests
        PROVE  co'[q] \in T(outs) /\ co'[q].pc = "dead"
    <3>1. co'[q].out \in outs
      OBVIOUS
    <3>2. QED
      BY <2>1, <3>1 DEF Coordinators, CoPcs
  <2>3. co' \in [Requests -> T(outs)]
    BY <2>2 DEF Exit
  <2>4. QED
    BY <1>1, <2>2, <2>3 DEF CoType, Coordinators
<1>4. RdType'
  BY <1>1 DEF Exit, RdType, NewThread, Junk, Units, Things, Readers, RdPcs
<1>5. TableType'
  <2>1. heap' \in [Threads -> Buffers]
    BY DEF Exit, Fresh, Junk, Units, Buffers
  <2>2. GoneSock \in Connections
    BY DEF GoneSock, Connections
  <2>3. sock' \in [Sockets \cup Clients -> Connections]
    BY <2>2 DEF Exit
  <2>4. QED
    BY <1>1, <2>1, <2>3 DEF Exit, Types, TableType
<1>6. QED
  BY <1>2, <1>3, <1>4, <1>5 DEF Types

\* One request changes its locals.
LEMMA CoMoves ==
  ASSUME CoType, Fds' = Fds, NEW q \in Requests, co' = [co EXCEPT ![q] = co'[q]],
         co'[q] \in Coordinators({co'[q].out}),
         co'[q].fd \in Fds \/ co'[q].pc \in {"idle", "fill", "done", "dead"}
  PROVE  CoType'
<1> DEFINE T(X) == Coordinators(X)
           outs == {co'[p].out : p \in Requests}
<1>1. DOMAIN co' = Requests /\ \A p \in Requests : p # q => co'[p] = co[p]
  BY DEF CoType
<1>2. ASSUME NEW p \in Requests
      PROVE  co'[p] \in T(outs)
  <2>1. co'[p].out \in outs
    OBVIOUS
  <2>2. CASE p = q
    BY <2>1, <2>2 DEF Coordinators
  <2>3. CASE p # q
    BY <1>1, <2>1, <2>3 DEF CoType, Coordinators
  <2>4. QED
    BY <2>2, <2>3
<1>3. co' \in [Requests -> T(outs)]
  BY <1>1, <1>2 DEF CoType
<1>4. \A p \in Requests : co'[p].fd \in Fds \/ co'[p].pc \in {"idle", "fill", "done", "dead"}
  BY <1>1 DEF CoType
<1>5. QED
  BY <1>3, <1>4 DEF CoType, Coordinators

\* One reader changes its locals.
LEMMA RdMoves ==
  ASSUME RdType, Fds' = Fds, NEW t \in Threads, rd' = [rd EXCEPT ![t] = rd'[t]],
         rd'[t] \in Readers,
         rd'[t].fd \in Fds \/ rd'[t].pc \in {"none", "socket", "socket2", "end"},
         rd'[t].watch \in Sockets \/ rd'[t].pc \notin {"loop", "store"}
  PROVE  RdType'
<1>1. DOMAIN rd' = Threads /\ \A u \in Threads : u # t => rd'[u] = rd[u]
  BY DEF RdType
<1>2. rd' \in [Threads -> Readers]
  BY <1>1 DEF RdType
<1>3. \A u \in Threads : /\ rd'[u].fd \in Fds \/ rd'[u].pc \in {"none", "socket", "socket2", "end"}
                         /\ rd'[u].watch \in Sockets \/ rd'[u].pc \notin {"loop", "store"}
  BY <1>1 DEF RdType
<1>4. QED
  BY <1>2, <1>3 DEF RdType, Readers

\* The owner of a thing.
LEMMA Owner == \A s \in Things : s[1] \in Requests \cup {0}
BY ThingFacts DEF Things, Outputs, Clients, Nobody

\* The table stays one when a number is taken, refused or given back.
LEMMA TableMoves ==
  ASSUME TableType
  PROVE  /\ \A s \in Things : Open(s) =>
              /\ Min(Free) \in Fds /\ fds[Min(Free)] = Nobody
              /\ Fds' = Fds /\ fds' \in [Fds -> Things]
         /\ \A q \in Requests : Refused(q) =>
              /\ Fds' = Fds /\ fds' \in [Fds -> Things]
              /\ harmed' \subseteq Requests \cup {0}
         /\ \A f \in Fds, s \in Things : Close(f, s) =>
              /\ Fds' = Fds /\ fds' \in [Fds -> Things]
              /\ harmed' \subseteq Requests \cup {0}
<1>1. ASSUME NEW s \in Things, Open(s)
      PROVE  /\ Min(Free) \in Fds /\ fds[Min(Free)] = Nobody
             /\ Fds' = Fds /\ fds' \in [Fds -> Things]
  BY <1>1, OpenFacts DEF TableType, Fds
<1>2. ASSUME NEW q \in Requests, Refused(q)
      PROVE  /\ Fds' = Fds /\ fds' \in [Fds -> Things]
             /\ harmed' \subseteq Requests \cup {0}
  BY <1>2 DEF TableType, Refused, Fds
<1>3. ASSUME NEW f \in Fds, NEW s \in Things, Close(f, s)
      PROVE  /\ Fds' = Fds /\ fds' \in [Fds -> Things]
             /\ harmed' \subseteq Requests \cup {0}
  <2>1. fds[f][1] \in Requests \cup {0} /\ Nobody \in Things
    BY Owner DEF TableType, Things
  <2>2. fds' = [fds EXCEPT ![f] = Nobody]
    BY <1>3 DEF Close
  <2>3. harmed' = harmed \/ harmed' = harmed \cup {fds[f][1]}
    BY <1>3 DEF Close
  <2>4. QED
    BY <2>1, <2>2, <2>3 DEF TableType, Fds
<1>4. QED
  BY <1>1, <1>2, <1>3

\* Nothing but the locals of the requests and their descriptors changes.
LEMMA TypesKept ==
  ASSUME Types, Fds' = Fds, fds' \in [Fds -> Things], harmed' \subseteq Requests \cup {0}
  PROVE  /\ UNCHANGED <<g, slot>> => GroupType'
         /\ UNCHANGED co => CoType'
         /\ UNCHANGED rd => RdType'
         /\ UNCHANGED <<heap, sock>> => TableType'
<1>1. UNCHANGED <<g, slot>> => GroupType'
  <2>1. Elements' = Elements
    BY DEF Elements
  <2>2. QED
    BY <2>1 DEF Types, GroupType, Groups
<1>2. UNCHANGED co => CoType'
  BY DEF Types, CoType, Coordinators
<1>3. UNCHANGED rd => RdType'
  BY DEF Types, RdType, Readers
<1>4. UNCHANGED <<heap, sock>> => TableType'
  BY DEF Types, TableType
<1>5. QED
  BY <1>1, <1>2, <1>3, <1>4

\* Types: a request clears the globals.
LEMMA TypesClear ==
  ASSUME Types, NEW q \in Requests, Clear(q)
  PROVE  Types'
<1>1. Fds' = Fds /\ fds' \in [Fds -> Things] /\ harmed' \subseteq Requests \cup {0}
  BY DEF Clear, Fds, Types, TableType
<1>2. GroupType'
  <2>1. g' = ZeroGroup /\ slot' = [i \in Slots |-> ZeroSlot]
    BY DEF Clear, Clears
  <2>2. QED
    BY <1>1, <2>1, Constants DEF ZeroGroup, ZeroSlot, GroupType, Groups, Elements, Units,
       Bufs
<1>3. CoType'
  <2> DEFINE T(X) == Coordinators(X)
             outs == {co'[p].out : p \in Requests}
  <2>1. /\ co[q].pc = "idle" /\ co' = [p \in Requests |-> co'[p]]
        /\ \E b \in BOOLEAN : co'[q] = [co[q] EXCEPT !.pc = "fill", !.alone = b]
        /\ \A p \in Requests : p # q =>
             co'[p] = co[p] \/ co'[p] = [co[p] EXCEPT !.alone = FALSE]
    BY DEF Clear
  <2>2. ASSUME NEW p \in Requests
        PROVE  /\ co'[p] \in T(outs)
               /\ co'[p].fd \in Fds \/ co'[p].pc \in {"idle", "fill", "done", "dead"}
    <3>1. co'[p].out \in outs
      OBVIOUS
    <3>2. /\ co[p] \in T({co[p].out})
          /\ co[p].fd \in Fds \/ co[p].pc \in {"idle", "fill", "done", "dead"}
      BY DEF Types, CoType, Coordinators
    <3>3. "fill" \in CoPcs
      BY DEF Coordinators, CoPcs
    <3> HIDE DEF outs
    <3>4. CASE p = q
      BY <2>1, <3>1, <3>2, <3>3, <3>4 DEF Coordinators
    <3>5. CASE co'[p] = co[p]
      BY <3>1, <3>2, <3>5 DEF Coordinators
    <3>6. CASE co'[p] = [co[p] EXCEPT !.alone = FALSE]
      BY <3>1, <3>2, <3>6 DEF Coordinators
    <3>7. QED
      BY <2>1, <3>4, <3>5, <3>6
  <2>3. co' \in [Requests -> T(outs)]
    BY <2>1, <2>2
  <2>4. QED
    BY <1>1, <2>2, <2>3 DEF CoType, Coordinators
<1>4. QED
  BY <1>1, <1>2, <1>3, TypesKept DEF Clear, Types

\* Types: a file is entered into the array, or cannot be.
LEMMA TypesFill ==
  ASSUME Types, NEW q \in Requests, Fill(q) \/ FillFails(q)
  PROVE  Types'
<1>1. <<q, "out", 0>> \in Things
  BY ThingFacts DEF Things
<1>2. /\ Fds' = Fds /\ fds' \in [Fds -> Things] /\ harmed' \subseteq Requests \cup {0}
      /\ (Fill(q) /\ Min(Free) \in Fds) \/ FillFails(q)
  <2>1. CASE Fill(q)
    BY <1>1, <2>1, TableMoves DEF Fill, Types, TableType
  <2>2. CASE FillFails(q)
    <3>1. Refused(q)
      BY <2>2 DEF FillFails
    <3>2. QED
      BY <2>2, <3>1, TableMoves DEF Types
  <2>3. QED
    BY <2>1, <2>2
<1>3. co[q] \in Coordinators({co[q].out})
  BY DEF Types, CoType, Coordinators
<1>4. GroupType'
  <2>1. g' = [g EXCEPT !.file_size = 1, !.file_num = co[q].files]
        /\ slot' = [i \in Slots |-> IF i \in Files(q) THEN [slot[i] EXCEPT !.path = q] ELSE slot[i]]
    BY DEF Fill, FillFails, Filled
  <2>2. co[q].files \in 0..MaxFiles
    BY <1>3, Constants DEF Slots, Coordinators
  <2>3. g' \in Groups
    <3> DEFINE n == co[q].files
    <3>1. n \in 0..MaxFiles /\ g' = [g EXCEPT !.file_size = 1, !.file_num = n]
      BY <2>1, <2>2
    <3>2. g \in Groups
      BY DEF Types, GroupType
    <3> HIDE DEF n
    <3>3. QED
      BY <3>1, <3>2, GroupFields
  <2>4. slot' \in [Slots -> Elements]
    <3>1. \A i \in Slots : slot[i] \in Elements
      BY DEF Types, GroupType
    <3>2. QED
      BY <2>1, <3>1, ElementFields
  <2>5. Elements' = Elements
    BY <1>2 DEF Elements
  <2>6. QED
    BY <2>3, <2>4, <2>5 DEF GroupType, Groups
<1>5. CoType'
  <2>1. /\ co' = [co EXCEPT ![q] = co'[q]]
        /\ \/ /\ Min(Free) \in Fds
              /\ co'[q] = [co[q] EXCEPT !.pc = "enter", !.fd = Min(Free)]
           \/ co'[q] = [co[q] EXCEPT !.pc = "done", !.ret = "ERROR"]
    BY <1>2 DEF Fill, FillFails, Types, CoType
  <2>2. co' = [co EXCEPT ![q] = co'[q]]
    BY <2>1
  <2>3. /\ co'[q] \in Coordinators({co'[q].out})
        /\ co'[q].fd \in Fds \/ co'[q].pc \in {"idle", "fill", "done", "dead"}
    <3>1. CASE co'[q] = [co[q] EXCEPT !.pc = "enter", !.fd = Min(Free)] /\ Min(Free) \in Fds
      BY <1>3, <3>1 DEF Coordinators, CoPcs
    <3>2. CASE co'[q] = [co[q] EXCEPT !.pc = "done", !.ret = "ERROR"]
      BY <1>3, <3>2 DEF Coordinators, CoPcs
    <3>3. QED
      BY <2>1, <3>1, <3>2
  <2>4. QED
    BY <1>2, <2>2, <2>3, CoMoves DEF Types
<1>6. RdType'
  <2>1. CASE Fill(q)
    BY <1>2, <2>1 DEF Fill, Types, RdType, Readers, RdPcs
  <2>2. CASE FillFails(q)
    BY <1>2, <2>2, TypesKept DEF FillFails
  <2>3. QED
    BY <2>1, <2>2
<1>7. TableType'
  BY <1>2, TypesKept DEF Fill, FillFails
<1>8. QED
  BY <1>4, <1>5, <1>6, <1>7 DEF Types

\* Types: what ends a round of the coordinator.
LEMMA TypesRoundOver ==
  ASSUME Types, NEW q \in Requests, NEW k \in Bufs, NEW group, NEW o, RoundOver(q, k, group, o),
         group \in Groups,
         heap' \in [Threads -> Buffers],
         co[q].pc = "judge"
  PROVE  Types'
<1>1. Fds' = Fds /\ fds' \in [Fds -> Things] /\ harmed' \subseteq Requests \cup {0}
  BY DEF RoundOver, Types, TableType, Fds
<1>2. g' \in Groups
  BY GroupFields DEF RoundOver
<1>3. slot' \in [Slots -> Elements]
  <2>1. ASSUME NEW i \in Slots
        PROVE  slot'[i] \in Elements
    <3>1. slot'[i] = slot[i] \/ slot'[i] = [slot[i] EXCEPT !.flag[k] = 0]
      BY DEF RoundOver
    <3>2. slot[i] \in Elements /\ 0 \in 0..2
      BY DEF Types, GroupType
    <3>3. [slot[i] EXCEPT !.flag[k] = 0] \in Elements
      BY <3>2, ElementFields
    <3>4. QED
      BY <3>1, <3>2, <3>3
  <2>2. QED
    BY <2>1 DEF RoundOver
<1>4. CoType'
  <2>1. co' = [co EXCEPT ![q] = [co[q] EXCEPT !.pc = "test", !.out = o]]
    BY DEF RoundOver, Types, CoType
  <2>2. co' = [co EXCEPT ![q] = co'[q]] /\ co'[q] = [co[q] EXCEPT !.pc = "test", !.out = o]
    BY <2>1 DEF Types, CoType
  <2>3. /\ co[q] \in Coordinators({co[q].out})
        /\ co[q].fd \in Fds
    BY DEF Types, CoType, Coordinators
  <2>4. /\ co'[q] \in Coordinators({co'[q].out})
        /\ co'[q].fd \in Fds
    BY <2>2, <2>3 DEF Coordinators, CoPcs
  <2>5. QED
    BY <1>1, <2>2, <2>4, CoMoves DEF Types
<1>5. RdType' /\ (sock' = sock)
  BY <1>1, TypesKept DEF RoundOver
<1>6. TableType'
  BY <1>1, <1>5 DEF Types, TableType
<1>7. Elements' = Elements /\ Groups' = Groups
  BY <1>1 DEF Elements, Groups
<1>8. QED
  BY <1>2, <1>3, <1>4, <1>5, <1>6, <1>7 DEF Types, GroupType

\* Buffers stay buffers when some are freed.
LEMMA FreedType ==
  ASSUME TableType, NEW P
  PROVE  Freed(P) \in [Threads -> Buffers]
<1>1. [st |-> "freed", unit |-> Fresh] \in Buffers
  BY DEF Buffers, Fresh, Junk, Units
<1>2. QED
  BY <1>1 DEF TableType, Freed

\* Types: a round of the coordinator.
LEMMA TypesRound ==
  ASSUME Types, NEW q \in Requests, Round(q) \/ RoundEmpty(q)
  PROVE  Types'
<1>1. g \in Groups /\ slot \in [Slots -> Elements] /\ heap \in [Threads -> Buffers]
  BY DEF Types, GroupType, TableType
<1>2. co[q].pc = "judge" /\ co[q].num \in 0..MaxFiles
  BY DEF Round, RoundEmpty, Types, CoType, Coordinators
<1>3. CASE Round(q)
  <2>1. PICK k \in Turn(q) :
          LET used == 1..co[q].num
              ptrs == {slot[i].ptr : i \in used}
              size == slot[1].size[k]
              over == g.xor_size + size = g.file_size
          IN  \/ RoundOver(q, k, [g EXCEPT !.correct = -1], co[q].out) /\ UNCHANGED heap
              \/ Exit
              \/ /\ \E o : RoundOver(q, k, [g EXCEPT !.xor_size = @ + size,
                                                     !.xor_flag = IF over THEN 1 ELSE @], o)
                 /\ heap' = IF over THEN Freed(ptrs) ELSE heap
    BY <1>3 DEF Round
  <2>2. k \in Bufs /\ 1 \in Slots
    BY Constants DEF Turn, Bufs, Slots
  <2> DEFINE size == slot[1].size[k]
             over == g.xor_size + size = g.file_size
             flag == IF over THEN 1 ELSE g.xor_flag
  <2>3. size \in Nat /\ g.xor_size \in Nat /\ flag \in 0..1
    BY <1>1, <2>2 DEF Elements, Groups
  <2>4. CASE RoundOver(q, k, [g EXCEPT !.correct = -1], co[q].out) /\ UNCHANGED heap
    BY <1>1, <1>2, <2>2, <2>4, GroupFields, TypesRoundOver
  <2>5. CASE Exit
    BY <2>5, TypesExit
  <2>6. ASSUME NEW o, RoundOver(q, k, [g EXCEPT !.xor_size = @ + size,
                                                !.xor_flag = IF over THEN 1 ELSE @], o),
               heap' = heap \/ \E P : heap' = Freed(P)
        PROVE  Types'
    <3> DEFINE y == g.xor_size + size
               group == [g EXCEPT !.xor_size = y, !.xor_flag = flag]
    <3>1. y \in Nat
      BY <2>3
    <3>2. heap' \in [Threads -> Buffers]
      BY <1>1, <2>6, FreedType DEF Types
    <3>3. RoundOver(q, k, group, o)
      BY <2>6
    <3> HIDE DEF y, flag
    <3>4. group \in Groups
      BY <1>1, <2>3, <3>1, GroupFields
    <3> HIDE DEF group
    <3>5. QED
      BY <1>2, <2>2, <3>2, <3>3, <3>4, TypesRoundOver
  <2>7. QED
    BY <2>1, <2>4, <2>5, <2>6
<1>4. CASE RoundEmpty(q)
  <2>1. PICK k \in Turn(q) :
          \/ Exit
          \/ /\ RoundOver(q, k, [g EXCEPT !.xor_flag = IF g.xor_size = g.file_size THEN 1 ELSE @],
                          co[q].out)
             /\ UNCHANGED heap
    BY <1>4 DEF RoundEmpty
  <2>2. k \in Bufs
    BY DEF Turn, Bufs
  <2>3. CASE Exit
    BY <2>3, TypesExit
  <2>4. ASSUME RoundOver(q, k, [g EXCEPT !.xor_flag = IF g.xor_size = g.file_size THEN 1 ELSE @],
                         co[q].out), UNCHANGED heap
        PROVE  Types'
    <3> DEFINE flag == IF g.xor_size = g.file_size THEN 1 ELSE g.xor_flag
               group == [g EXCEPT !.xor_flag = flag]
    <3>1. flag \in 0..1
      BY <1>1 DEF Groups
    <3>2. RoundOver(q, k, group, co[q].out)
      BY <2>4
    <3> HIDE DEF flag
    <3>3. group \in Groups
      BY <1>1, <3>1, GroupFields
    <3> HIDE DEF group
    <3>4. QED
      BY <1>1, <1>2, <2>2, <2>4, <3>2, <3>3, TypesRoundOver
  <2>5. QED
    BY <2>1, <2>3, <2>4
<1>5. QED
  BY <1>3, <1>4

\* Types: the coordinator's tests and its verdict.
LEMMA TypesOtherSteps ==
  ASSUME Types, NEW q \in Requests, EnterJudge(q) \/ LoopTest(q) \/ Verdict(q)
  PROVE  Types'
<1>1. <<q, "out", 0>> \in Things
  BY ThingFacts DEF Things
<1>2. co[q] \in Coordinators({co[q].out}) /\ (co[q].pc = "verdict" => co[q].fd \in Fds)
  BY DEF Types, CoType, Coordinators
<1>3. Fds' = Fds /\ fds' \in [Fds -> Things] /\ harmed' \subseteq Requests \cup {0}
  <2>1. CASE Verdict(q)
    BY <1>1, <1>2, <2>1, TableMoves DEF Verdict, CloseOutput, Types
  <2>2. CASE EnterJudge(q) \/ LoopTest(q)
    BY <2>2 DEF EnterJudge, LoopTest, Types, TableType, Fds
  <2>3. QED
    BY <2>1, <2>2
<1>4. CoType'
  <2>1. /\ co' = [co EXCEPT ![q] = co'[q]]
        /\ \/ /\ co'[q] = [co[q] EXCEPT !.pc = "judge", !.num = g.file_num]
              /\ co[q].pc = "enter"
           \/ \E p \in {"judge", "verdict"} : /\ co'[q] = [co[q] EXCEPT !.pc = p]
                                              /\ co[q].pc \in {"test", "judge"}
           \/ \E r \in {"RIGHT", "ERROR"} : \E o :
                co'[q] = [co[q] EXCEPT !.pc = "done", !.ret = r, !.out = o]
    <3>1. CASE EnterJudge(q)
      BY <3>1 DEF EnterJudge, Types, CoType
    <3>2. CASE LoopTest(q)
      BY <3>2 DEF LoopTest, Types, CoType
    <3>3. CASE Verdict(q)
      <4> DEFINE r == IF g.correct # 0 \/ g.file_size # g.xor_size THEN "ERROR" ELSE "RIGHT"
                 o == IF fds[co[q].fd] = <<q, "out", 0>> THEN co[q].out ELSE << >>
      <4>1. /\ co' = [co EXCEPT ![q] = co'[q]]
            /\ co'[q] = [co[q] EXCEPT !.pc = "done", !.ret = r, !.out = o]
        BY <3>3 DEF Verdict, Types, CoType
      <4>2. r \in {"RIGHT", "ERROR"}
        OBVIOUS
      <4> HIDE DEF r, o
      <4>3. QED
        BY <4>1, <4>2
    <3>4. QED
      BY <3>1, <3>2, <3>3
  <2>2. g.file_num \in 0..MaxFiles
    BY DEF Types, GroupType, Groups
  <2>3. /\ co'[q] \in Coordinators({co'[q].out})
        /\ co'[q].fd \in Fds \/ co'[q].pc \in {"idle", "fill", "done", "dead"}
    <3>1. co[q].fd \in Fds \/ co[q].pc \in {"idle", "fill", "done", "dead"}
      BY DEF Types, CoType
    <3>2. CASE /\ co'[q] = [co[q] EXCEPT !.pc = "judge", !.num = g.file_num]
               /\ co[q].pc = "enter"
      BY <1>2, <2>2, <3>1, <3>2 DEF Coordinators, CoPcs
    <3>3. CASE \E p \in {"judge", "verdict"} : /\ co'[q] = [co[q] EXCEPT !.pc = p]
                                               /\ co[q].pc \in {"test", "judge"}
      BY <1>2, <3>1, <3>3 DEF Coordinators, CoPcs
    <3>4. CASE \E r \in {"RIGHT", "ERROR"} : \E o :
                 co'[q] = [co[q] EXCEPT !.pc = "done", !.ret = r, !.out = o]
      BY <1>2, <3>4 DEF Coordinators, CoPcs
    <3>5. QED
      BY <2>1, <3>2, <3>3, <3>4
  <2>4. QED
    BY <1>3, <2>1, <2>3, CoMoves DEF Types
<1>5. UNCHANGED <<g, slot, rd, heap, sock>>
  BY DEF EnterJudge, LoopTest, Verdict
<1>6. QED
  BY <1>3, <1>4, <1>5, TypesKept DEF Types

\* What a reader thread may do to its own locals.
LEMMA ReaderMoves ==
  ASSUME RdType, Fds' = Fds, NEW t \in Threads
  PROVE  /\ \A l \in RdPcs \ {"loop", "store"} :
              /\ rd[t].fd \in Fds \/ l \in {"socket", "socket2", "end"}
              /\ Goto(t, l)
              => RdType'
         /\ End(t) => RdType'
         /\ \A l \in RdPcs \ {"loop", "store"}, f \in Fds :
              rd' = [rd EXCEPT ![t].pc = l, ![t].fd = f] => RdType'
         /\ \A l \in {"loop", "close"}, s \in Things :
              /\ rd[t].fd \in Fds /\ (l = "loop" => s \in Sockets)
              /\ rd' = [rd EXCEPT ![t].pc = l, ![t].watch = s]
              => RdType'
         /\ \A l \in {"loop", "store"}, h \in Units :
              /\ rd[t].pc \in {"loop", "store"}
              /\ rd' = [rd EXCEPT ![t].pc = l, ![t].hand = h]
              => RdType'
         /\ rd' = [rd EXCEPT ![t].quit = TRUE] => RdType'
<1>0. /\ rd[t] \in Readers
      /\ rd[t].fd \in Fds \/ rd[t].pc \in {"none", "socket", "socket2", "end"}
      /\ rd[t].watch \in Sockets \/ rd[t].pc \notin {"loop", "store"}
      /\ rd \in [Threads -> Readers]
  BY DEF RdType
<1>1. ASSUME NEW r \in Readers, rd' = [rd EXCEPT ![t] = r],
             r.fd \in Fds \/ r.pc \in {"none", "socket", "socket2", "end"},
             r.watch \in Sockets \/ r.pc \notin {"loop", "store"}
      PROVE  RdType'
  <2>1. rd' = [rd EXCEPT ![t] = rd'[t]] /\ rd'[t] = r
    BY <1>0, <1>1
  <2>2. QED
    BY <1>1, <2>1, RdMoves
<1>2. ASSUME NEW l \in RdPcs \ {"loop", "store"},
             rd[t].fd \in Fds \/ l \in {"socket", "socket2", "end"}, Goto(t, l)
      PROVE  RdType'
  <2> DEFINE r == [rd[t] EXCEPT !.pc = l]
  <2>1. r \in Readers /\ r.pc = l /\ r.fd = rd[t].fd
    BY <1>0 DEF Readers
  <2>2. rd' = [rd EXCEPT ![t] = r]
    BY <1>0, <1>2 DEF Goto
  <2> HIDE DEF r
  <2>3. QED
    BY <1>1, <1>2, <2>1, <2>2
<1>3. ASSUME End(t)
      PROVE  RdType'
  <2> DEFINE r == [NewThread EXCEPT !.pc = "end"]
  <2>1. r \in Readers /\ r.pc = "end"
    BY DEF Readers, NewThread, Junk, Units, Things, RdPcs
  <2>2. rd' = [rd EXCEPT ![t] = r]
    BY <1>3 DEF End
  <2> HIDE DEF r
  <2>3. QED
    BY <1>1, <2>1, <2>2
<1>4. ASSUME NEW l \in RdPcs \ {"loop", "store"}, NEW f \in Fds,
             rd' = [rd EXCEPT ![t].pc = l, ![t].fd = f]
      PROVE  RdType'
  <2> DEFINE r == [rd[t] EXCEPT !.pc = l, !.fd = f]
  <2>1. r \in Readers /\ r.pc = l /\ r.fd = f
    BY <1>0 DEF Readers
  <2>2. rd' = [rd EXCEPT ![t] = r]
    BY <1>0, <1>4
  <2> HIDE DEF r
  <2>3. QED
    BY <1>1, <2>1, <2>2
<1>5. ASSUME NEW l \in {"loop", "close"}, NEW s \in Things, rd[t].fd \in Fds,
             l = "loop" => s \in Sockets, rd' = [rd EXCEPT ![t].pc = l, ![t].watch = s]
      PROVE  RdType'
  <2> DEFINE r == [rd[t] EXCEPT !.pc = l, !.watch = s]
  <2>1. r \in Readers /\ r.pc = l /\ r.watch = s /\ r.fd = rd[t].fd
    BY <1>0 DEF Readers, RdPcs
  <2>2. rd' = [rd EXCEPT ![t] = r]
    BY <1>0, <1>5
  <2> HIDE DEF r
  <2>3. QED
    BY <1>1, <1>5, <2>1, <2>2
<1>6. ASSUME NEW l \in {"loop", "store"}, NEW h \in Units, rd[t].pc \in {"loop", "store"},
             rd' = [rd EXCEPT ![t].pc = l, ![t].hand = h]
      PROVE  RdType'
  <2> DEFINE r == [rd[t] EXCEPT !.pc = l, !.hand = h]
  <2>1. r \in Readers /\ r.watch = rd[t].watch /\ r.fd = rd[t].fd
    BY <1>0 DEF Readers, RdPcs
  <2>2. rd' = [rd EXCEPT ![t] = r]
    BY <1>0, <1>6
  <2> HIDE DEF r
  <2>3. QED
    BY <1>0, <1>1, <1>6, <2>1, <2>2
<1>7. ASSUME rd' = [rd EXCEPT ![t].quit = TRUE]
      PROVE  RdType'
  <2> DEFINE r == [rd[t] EXCEPT !.quit = TRUE]
  <2>1. r \in Readers /\ r.watch = rd[t].watch /\ r.fd = rd[t].fd /\ r.pc = rd[t].pc
    BY <1>0 DEF Readers
  <2>2. rd' = [rd EXCEPT ![t] = r]
    BY <1>0, <1>7
  <2> HIDE DEF r
  <2>3. QED
    BY <1>0, <1>1, <2>1, <2>2
<1>8. QED
  BY <1>2, <1>3, <1>4, <1>5, <1>6, <1>7

\* A group in which something has failed, a socket in another state.
LEMMA OtherMoves ==
  ASSUME Types, Fds' = Fds, fds' \in [Fds -> Things], harmed' \subseteq Requests \cup {0}
  PROVE  /\ g' \in Groups /\ slot' = slot => GroupType'
         /\ \A i \in Slots, e \in Elements : g' = g /\ slot' = [slot EXCEPT ![i] = e] => GroupType'
         /\ heap' \in [Threads -> Buffers] /\ sock' = sock => TableType'
         /\ \A s \in Sockets \cup Clients, c \in Connections :
              heap' = heap /\ sock' = [sock EXCEPT ![s] = c] => TableType'
<1>1. Elements' = Elements /\ Groups' = Groups /\ Buffers' = Buffers /\ Connections' = Connections
  BY DEF Elements, Groups, Buffers, Connections
<1>2. QED
  BY <1>1 DEF Types, GroupType, TableType

\* A group in which a thread has given up is a group.
LEMMA TypesGroup ==
  ASSUME Types, Fds' = Fds, g' = g \/ g' = [g EXCEPT !.correct = -1], UNCHANGED slot
  PROVE  GroupType'
<1>1. g' \in Groups
  BY GroupFields DEF Types, GroupType
<1>2. Elements' = Elements
  BY DEF Elements
<1>3. QED
  BY <1>1, <1>2 DEF Types, GroupType, Groups

\* Types: a reader opens its sockets.
LEMMA TypesSocketSteps ==
  ASSUME Types, NEW t \in Threads, FirstSocket(t) \/ SecondSocket(t)
  PROVE  Types'
<1>1. Own(t) \in Things /\ <<t[1], "a", t[2]>> \in Things /\ t[1] \in Requests
  BY ThingFacts, ThreadFacts DEF Things
<1>2. /\ Fds' = Fds /\ fds' \in [Fds -> Things] /\ harmed' \subseteq Requests \cup {0}
      /\ RdType'
  <2>1. CASE FirstSocket(t)
    <3>1. CASE Open(<<t[1], "a", t[2]>>) /\ Goto(t, "socket2") /\ UNCHANGED harmed
      <4>1. Fds' = Fds /\ fds' \in [Fds -> Things]
        BY <1>1, <3>1, TableMoves DEF Types
      <4>2. "socket2" \in RdPcs \ {"loop", "store"}
        BY DEF RdPcs
      <4>3. QED
        BY <3>1, <4>1, <4>2, ReaderMoves DEF Types, TableType
    <3>2. CASE Refused(t[1]) /\ GiveUp(t)
      <4>1. /\ Fds' = Fds /\ fds' \in [Fds -> Things]
            /\ harmed' \subseteq Requests \cup {0}
        BY <1>1, <3>2, TableMoves DEF Types
      <4>2. QED
        BY <3>2, <4>1, ReaderMoves DEF Types, GiveUp
    <3>3. QED
      BY <2>1, <3>1, <3>2 DEF FirstSocket
  <2>2. CASE SecondSocket(t)
    <3>1. CASE /\ Open(Own(t)) /\ UNCHANGED harmed
               /\ rd' = [rd EXCEPT ![t].pc = "connect", ![t].fd = Min(Free)]
      <4>1. Fds' = Fds /\ fds' \in [Fds -> Things] /\ Min(Free) \in Fds
        BY <1>1, <3>1, TableMoves DEF Types
      <4>2. "connect" \in RdPcs \ {"loop", "store"}
        BY DEF RdPcs
      <4>3. QED
        BY <3>1, <4>1, <4>2, ReaderMoves DEF Types, TableType
    <3>2. CASE Refused(t[1]) /\ GiveUp(t)
      <4>1. /\ Fds' = Fds /\ fds' \in [Fds -> Things]
            /\ harmed' \subseteq Requests \cup {0}
        BY <1>1, <3>2, TableMoves DEF Types
      <4>2. QED
        BY <3>2, <4>1, ReaderMoves DEF Types, GiveUp
    <3>3. QED
      BY <2>2, <3>1, <3>2 DEF SecondSocket, SocketFails
  <2>3. QED
    BY <2>1, <2>2
<1>3. g' = g \/ g' = [g EXCEPT !.correct = -1]
  BY DEF FirstSocket, SecondSocket, SocketFails, GiveUp
<1>4. UNCHANGED <<slot, co, heap, sock>>
  BY DEF FirstSocket, SecondSocket
<1>5. QED
  BY <1>2, <1>3, <1>4, TypesGroup, TypesKept DEF Types

\* Types: a reader connects and sends its header.
LEMMA TypesConnectSteps ==
  ASSUME Types, NEW t \in Threads, Connect(t) \/ Header(t)
  PROVE  Types'
<1>1. Own(t) \in Things /\ t[1] \in Requests /\ t[2] \in Slots
  BY ThingFacts, ThreadFacts DEF Things
<1>2. rd[t].fd \in Fds
  BY DEF Connect, Header, Types, RdType
<1> DEFINE s == fds[rd[t].fd]
<1>3. CASE Close(rd[t].fd, Own(t)) /\ GiveUp(t) /\ UNCHANGED <<sock, slot, co, heap>>
  <2>1. /\ Fds' = Fds /\ fds' \in [Fds -> Things]
        /\ harmed' \subseteq Requests \cup {0}
    BY <1>1, <1>2, <1>3, TableMoves DEF Types
  <2>2. RdType'
    BY <1>3, <2>1, ReaderMoves DEF Types, GiveUp
  <2>3. QED
    BY <1>3, <2>1, <2>2, TypesGroup, TypesKept DEF Types, GiveUp
<1>4. ASSUME s \in Sockets, \E c \in Connections : sock' = [sock EXCEPT ![s] = c],
             \E l \in {"header", "alloc"} : Goto(t, l), UNCHANGED <<g, fds, harmed, slot, co, heap>>
      PROVE  Types'
  <2>1. /\ Fds' = Fds /\ fds' \in [Fds -> Things]
        /\ harmed' \subseteq Requests \cup {0}
    BY <1>4 DEF Types, TableType, Fds
  <2>2. RdType'
    <3>1. {"header", "alloc"} \subseteq RdPcs \ {"loop", "store"}
      BY DEF RdPcs
    <3>2. QED
      BY <1>2, <1>4, <2>1, <3>1, ReaderMoves DEF Types
  <2>3. TableType'
    <3>1. s \in Sockets \cup Clients /\ heap' = heap
      BY <1>4
    <3> HIDE DEF s
    <3>2. QED
      BY <1>4, <2>1, <3>1, OtherMoves DEF Types
  <2>4. QED
    BY <1>4, <2>1, <2>2, <2>3, TypesKept DEF Types
<1>5. CASE Connect(t)
  <2>1. CASE s \in Sockets /\ sock' = [sock EXCEPT ![s].st = "open"] /\ Goto(t, "header")
    <3>1. sock \in [Sockets \cup Clients -> Connections] /\ s \in Sockets \cup Clients
      BY <2>1 DEF Types, TableType
    <3>2. sock' = [sock EXCEPT ![s] = [sock[s] EXCEPT !.st = "open"]]
      BY <2>1
    <3>3. [sock[s] EXCEPT !.st = "open"] \in Connections
      BY <3>1 DEF Connections
    <3>4. UNCHANGED <<g, fds, harmed, slot, co, heap>>
      BY <1>5, <2>1 DEF Connect, Goto, GiveUp, End, NewThread, Types, RdType, Readers
    <3>5. QED
      BY <1>4, <2>1, <3>2, <3>3, <3>4
  <2>2. QED
    BY <1>3, <1>5, <2>1 DEF Connect
<1>6. CASE Header(t)
  <2> DEFINE tag == <<slot[t[2]].path, t[2]>>
  <2>1. CASE s \in Sockets /\ sock' = [sock EXCEPT ![s] = Served(@, tag)] /\ Goto(t, "alloc")
    <3>1. sock[s] \in Connections
      BY <2>1 DEF Types, TableType
    <3>2. sock' = [sock EXCEPT ![s] = Served(sock[s], tag)]
      BY <2>1
    <3>3. tag \in Threads \/ tag[1] = 0
      BY <1>1 DEF Types, GroupType, Elements, Threads
    <3>4. Served(sock[s], tag) \in Connections
      BY <3>1, <3>3 DEF Served, Connections
    <3>5. UNCHANGED <<g, fds, harmed, slot, co, heap>>
      BY <1>6, <2>1 DEF Header, Goto, GiveUp, End, NewThread, Types, RdType, Readers
    <3>6. QED
      BY <1>4, <2>1, <3>2, <3>4, <3>5
  <2>2. QED
    BY <1>3, <1>6, <2>1 DEF Header
<1>7. QED
  BY <1>5, <1>6

\* Types: a reader allocates its element and enters the event loop.
LEMMA TypesAllocArm ==
  ASSUME Types, NEW t \in Threads, Alloc(t) \/ Arm(t)
  PROVE  Types'
<1>1. t \in Units /\ t[2] \in Slots /\ slot[t[2]] \in Elements /\ slot \in [Slots -> Elements]
  BY ThreadFacts DEF Units, Types, GroupType
<1>2. /\ Fds' = Fds /\ fds' \in [Fds -> Things]
      /\ harmed' \subseteq Requests \cup {0}
  BY DEF Alloc, Arm, Types, TableType, Fds
<1>3. rd[t].fd \in Fds
  BY DEF Alloc, Arm, Types, RdType
<1>4. CASE Alloc(t)
  <2>1. RdType'
    <3>1. "arm" \in RdPcs \ {"loop", "store"}
      BY DEF RdPcs
    <3>2. End(t) \/ Goto(t, "arm")
      BY <1>4 DEF Alloc
    <3>3. QED
      BY <1>2, <1>3, <3>1, <3>2, ReaderMoves DEF Types
  <2>2. GroupType'
    <3> DEFINE e == [slot[t[2]] EXCEPT !.ptr = t]
    <3>1. e \in Elements
      BY <1>1, ElementFields
    <3>2. slot' = [slot EXCEPT ![t[2]] = e] /\ g' = g
      BY <1>1, <1>4 DEF Alloc
    <3> HIDE DEF e
    <3>3. QED
      BY <1>1, <1>2, <3>1, <3>2, OtherMoves
  <2>3. TableType'
    <3>1. heap' = [heap EXCEPT ![t].st = "live"] /\ sock' = sock
      BY <1>4 DEF Alloc
    <3>2. heap' \in [Threads -> Buffers]
      BY <3>1 DEF Types, TableType, Buffers
    <3>3. QED
      BY <1>2, <3>1, <3>2, OtherMoves
  <2>4. QED
    BY <1>2, <1>4, <2>1, <2>2, <2>3, TypesKept DEF Types, Alloc
<1>5. CASE Arm(t)
  <2>1. RdType'
    <3> DEFINE s == fds[rd[t].fd]
               l == IF s \in Sockets THEN "loop" ELSE "close"
    <3>1. s \in Things
      BY <1>3 DEF Types, TableType
    <3>2. rd' = [rd EXCEPT ![t].pc = l, ![t].watch = s]
      BY <1>5 DEF Arm
    <3>3. l \in {"loop", "close"} /\ (l = "loop" => s \in Sockets)
      OBVIOUS
    <3> HIDE DEF s, l
    <3>4. QED
      BY <1>2, <1>3, <3>1, <3>2, <3>3, ReaderMoves DEF Types
  <2>2. GroupType'
    <3> DEFINE f == [k \in Bufs |-> 1 - k]
               e == [slot[t[2]] EXCEPT !.flag = f, !.fd = rd[t].fd, !.ev = t]
    <3>1. f \in [Bufs -> 0..2]
      BY DEF Bufs
    <3>2. slot' = [slot EXCEPT ![t[2]] = e] /\ g' = g
      BY <1>1, <1>5 DEF Arm
    <3> HIDE DEF f
    <3>3. e \in Elements
      BY <1>1, <1>3, <3>1, ElementFields
    <3> HIDE DEF e
    <3>4. QED
      BY <1>1, <1>2, <3>2, <3>3, OtherMoves
  <2>3. QED
    BY <1>2, <1>5, <2>1, <2>2, TypesKept DEF Types, Arm
<1>6. QED
  BY <1>4, <1>5

\* Types: the callback frees, reads and ends.
LEMMA TypesCallback ==
  ASSUME Types, NEW t \in Threads, CallbackFrees(t) \/ CallbackReads(t) \/ CallbackEnds(t)
  PROVE  Types'
<1>1. rd[t].fd \in Fds /\ Own(t) \in Things /\ t[2] \in Slots /\ rd[t].pc = "loop"
  BY ThingFacts, ThreadFacts
  DEF CallbackFrees, CallbackReads, CallbackEnds, Fires, Types, RdType, Things
<1>2. CASE CallbackFrees(t)
  <2>1. CASE Exit
    BY <2>1, TypesExit
  <2>2. CASE /\ \E P : heap' = Freed(P)
             /\ UNCHANGED <<g, slot, co, rd, fds, sock, harmed>>
    <3>1. /\ Fds' = Fds /\ fds' \in [Fds -> Things]
          /\ harmed' \subseteq Requests \cup {0}
      BY <2>2 DEF Types, TableType, Fds
    <3>2. heap' \in [Threads -> Buffers]
      BY <2>2, FreedType DEF Types
    <3>3. QED
      BY <2>2, <3>1, <3>2, OtherMoves, TypesKept DEF Types
  <2>3. QED
    BY <1>2, <2>1, <2>2 DEF CallbackFrees
<1>3. CASE CallbackReads(t)
  <2> DEFINE s == Source(t)
             h == Head(sock[s].data)
             c == [sock[s] EXCEPT !.data = Tail(@)]
  <2>1. /\ Fds' = Fds /\ fds' \in [Fds -> Things]
        /\ harmed' \subseteq Requests \cup {0}
    BY <1>3 DEF CallbackReads, Types, TableType, Fds
  <2>2. s \in Sockets \cup Clients /\ sock[s] \in Connections /\ sock[s].data # << >>
    BY <1>3 DEF CallbackReads, Types, TableType
  <2>3. h \in Threads /\ c \in Connections
    BY <2>2 DEF Connections
  <2>4. /\ sock' = [sock EXCEPT ![s] = c] /\ heap' = heap
        /\ rd' = [rd EXCEPT ![t].pc = "store", ![t].hand = h]
    BY <1>3, <2>2 DEF CallbackReads, Types, TableType
  <2> HIDE DEF s, h, c
  <2>5. h \in Units
    BY <2>3 DEF Units
  <2>6. RdType'
    BY <1>1, <2>1, <2>4, <2>5, ReaderMoves DEF Types
  <2>7. TableType'
    BY <2>1, <2>2, <2>3, <2>4, OtherMoves
  <2>8. QED
    BY <1>3, <2>1, <2>6, <2>7, TypesKept DEF CallbackReads, Types
<1>4. CASE CallbackEnds(t)
  <2> DEFINE e == slot[t[2]].ev
  <2>1. \/ Exit
        \/ /\ \/ e \in Units \ {NULL} /\ rd' = [rd EXCEPT ![e].quit = TRUE]
              \/ UNCHANGED rd
           /\ g' = g \/ g' = [g EXCEPT !.correct = -1]
           /\ Close(rd[t].fd, Own(t))
           /\ UNCHANGED <<slot, co, heap, sock>>
    <3>1. e \in Units
      BY <1>1 DEF Types, GroupType, Elements
    <3>2. QED
      BY <1>4, <3>1 DEF CallbackEnds
  <2>2. CASE Exit
    BY <2>2, TypesExit
  <2>3. CASE /\ \/ e \in Units \ {NULL} /\ rd' = [rd EXCEPT ![e].quit = TRUE]
                \/ UNCHANGED rd
             /\ g' = g \/ g' = [g EXCEPT !.correct = -1]
             /\ Close(rd[t].fd, Own(t))
             /\ UNCHANGED <<slot, co, heap, sock>>
    <3>1. /\ Fds' = Fds /\ fds' \in [Fds -> Things]
          /\ harmed' \subseteq Requests \cup {0}
      BY <1>1, <2>3, TableMoves DEF Types
    <3>2. RdType'
      <4>1. CASE UNCHANGED rd
        BY <3>1, <4>1, TypesKept
      <4>2. CASE e \in Units \ {NULL} /\ rd' = [rd EXCEPT ![e].quit = TRUE]
        <5> HIDE DEF e
        <5>1. e \in Threads
          BY <4>2 DEF Units
        <5>2. QED
          BY <3>1, <4>2, <5>1, ReaderMoves DEF Types
      <4>3. QED
        BY <2>3, <4>1, <4>2
    <3>3. QED
      BY <2>3, <3>1, <3>2, TypesGroup, TypesKept DEF Types
  <2>4. QED
    BY <2>1, <2>2, <2>3
<1>5. QED
  BY <1>2, <1>3, <1>4

\* Types: the callback stores a unit or prepares a buffer.
LEMMA TypesStore ==
  ASSUME Types, NEW t \in Threads, Store(t) \/ Prepare(t)
  PROVE  Types'
<1> DEFINE e == slot[t[2]]
           p == e.ptr
           Unit == [1..MaxUnits -> Units]
           Put(k, f, m, v) ==
             /\ slot' = [slot EXCEPT ![t[2]].flag[k] = f, ![t[2]].size[k] = m]
             /\ heap' = [heap EXCEPT ![p].unit[k] = v]
<1>1. t[2] \in Slots /\ rd[t].pc = "store" /\ slot \in [Slots -> Elements]
  BY ThreadFacts DEF Store, Prepare, Types, GroupType
<1>2. e \in Elements
  BY <1>1
<1>3. e.ptr \in Units /\ e.flag \in [Bufs -> 0..2] /\ e.size \in [Bufs -> Nat]
  BY <1>2 DEF Elements
<1>4. ASSUME ~Exit
      PROVE  /\ p \in Threads
             /\ \E k \in Bufs, f \in 0..2, m \in Nat, v \in Unit : Put(k, f, m, v)
             /\ \/ Store(t) /\ \E k \in Bufs : g' = [g EXCEPT !.full[k] = @ + 1]
                \/ UNCHANGED <<g, rd>>
             /\ UNCHANGED <<co, fds, sock, harmed>>
  <2>1. CASE Store(t)
    <3> DEFINE k == IF e.flag[0] = 1 THEN 0 ELSE 1
               n == e.size[k]
               v == [heap[p].unit[k] EXCEPT ![n + 1] = rd[t].hand]
    <3>1. k \in Bufs
      BY DEF Bufs
    <3>2. /\ ~Unusable(p)
          /\ heap' = [heap EXCEPT ![p].unit[k][n + 1] = rd[t].hand]
          /\ slot' = [slot EXCEPT ![t[2]].size[k] = @ + 1, ![t[2]].flag[k] = 2]
          /\ g' = [g EXCEPT !.full[k] = @ + 1]
          /\ UNCHANGED <<co, fds, sock, harmed>>
      BY <1>4, <2>1 DEF Store, Count
    <3>3. p \in Threads
      BY <1>3, <3>2 DEF Unusable, Units
    <3>4. n \in Nat
      BY <1>3, <3>1
    <3>5. v \in Unit
      <4>1. heap[p] \in Buffers /\ rd[t].hand \in Units
        BY <3>3 DEF Types, TableType, RdType, Readers
      <4>2. heap[p].unit[k] \in Unit
        BY <3>1, <4>1 DEF Buffers
      <4>3. QED
        BY <4>1, <4>2
    <3>6. heap' = [heap EXCEPT ![p].unit[k] = v]
      BY <3>2
    <3>7. slot' = [slot EXCEPT ![t[2]].flag[k] = 2, ![t[2]].size[k] = n + 1]
      BY <1>1, <1>2, <3>2 DEF Elements
    <3>8. Put(k, 2, n + 1, v)
      <4> HIDE DEF k, n, v, e, p, Unit
      <4>1. QED
        BY <3>6, <3>7
    <3> HIDE DEF k, n, v, e, p, Unit, Put
    <3>9. \E j \in Bufs, f \in 0..2, m \in Nat, w \in Unit : Put(j, f, m, w)
      <4>1. n + 1 \in Nat /\ 2 \in 0..2
        BY <3>4
      <4>2. QED
        BY <3>1, <3>5, <3>8, <4>1
    <3>10. QED
      BY <2>1, <3>1, <3>2, <3>3, <3>9
  <2>2. CASE Prepare(t)
    <3> DEFINE k == IF e.flag[0] = 0 THEN 0 ELSE 1
    <3>1. k \in Bufs
      BY DEF Bufs
    <3>2. /\ ~Unusable(p)
          /\ heap' = [heap EXCEPT ![p].unit[k] = Fresh[k]]
          /\ slot' = [slot EXCEPT ![t[2]].flag[k] = 1, ![t[2]].size[k] = 0]
          /\ UNCHANGED <<g, co, rd, fds, sock, harmed>>
      BY <1>4, <2>2 DEF Prepare
    <3>3. p \in Threads
      BY <1>3, <3>2 DEF Unusable, Units
    <3>4. Fresh[k] \in Unit
      BY <3>1 DEF Fresh, Junk, Units
    <3>5. 0 \in Nat /\ 1 \in 0..2 /\ Put(k, 1, 0, Fresh[k])
      BY <3>2
    <3> HIDE DEF k, e, p, Unit, Put
    <3>6. \E j \in Bufs, f \in 0..2, m \in Nat, w \in Unit : Put(j, f, m, w)
      BY <3>1, <3>4, <3>5
    <3>7. QED
      BY <3>2, <3>3, <3>6
  <2>3. QED
    BY <2>1, <2>2
<1>5. CASE Exit
  BY <1>5, TypesExit
<1>6. CASE ~Exit
  <2>1. PICK k \in Bufs, f \in 0..2, m \in Nat, v \in Unit : Put(k, f, m, v)
    BY <1>4, <1>6
  <2>2. /\ Fds' = Fds /\ fds' \in [Fds -> Things]
        /\ harmed' \subseteq Requests \cup {0}
    BY <1>4, <1>6 DEF Types, TableType, Fds
  <2>3. GroupType'
    <3> DEFINE d == [e EXCEPT !.flag[k] = f, !.size[k] = m]
    <3>1. d \in Elements
      BY <1>2, ElementFields
    <3>2. slot' = [slot EXCEPT ![t[2]] = d]
      BY <1>1, <2>1 DEF Elements
    <3> HIDE DEF d, e
    <3>3. slot' \in [Slots -> Elements]
      BY <1>1, <3>1, <3>2
    <3>4. g' \in Groups
      <4>1. g' = g \/ \E j \in Bufs : g' = [g EXCEPT !.full[j] = @ + 1]
        BY <1>4, <1>6
      <4>2. g \in Groups
        BY DEF Types, GroupType
      <4>3. QED
        BY <4>1, <4>2, GroupFields
    <3>5. Elements' = Elements /\ Groups' = Groups
      BY <2>2 DEF Elements, Groups
    <3>6. QED
      BY <3>3, <3>4, <3>5 DEF GroupType
  <2>4. TableType'
    <3>1. heap' \in [Threads -> Buffers]
      <4>1. p \in Threads /\ heap \in [Threads -> Buffers]
        BY <1>4, <1>6 DEF Types, TableType
      <4> DEFINE b == [heap[p] EXCEPT !.unit[k] = v]
      <4> HIDE DEF p, Unit
      <4>2. b \in Buffers
        BY <4>1 DEF Buffers, Unit
      <4>3. heap' = [heap EXCEPT ![p] = b]
        BY <2>1, <4>1
      <4> HIDE DEF b
      <4>4. QED
        BY <4>1, <4>2, <4>3
    <3>2. QED
      BY <1>4, <1>6, <2>2, <3>1, OtherMoves
  <2>5. RdType'
    <3>1. CASE Store(t)
      <4>1. rd' = [rd EXCEPT ![t].pc = "loop", ![t].hand = Junk]
        BY <1>6, <3>1 DEF Store
      <4>2. Junk \in Units
        BY DEF Junk, Units
      <4>3. QED
        BY <1>1, <2>2, <4>1, <4>2, ReaderMoves DEF Types
    <3>2. CASE UNCHANGED rd
      BY <2>2, <3>2, TypesKept
    <3>3. QED
      BY <1>4, <1>6, <3>1, <3>2
  <2>6. QED
    BY <1>4, <1>6, <2>2, <2>3, <2>4, <2>5, TypesKept DEF Types
<1>7. QED
  BY <1>5, <1>6

\* Types: a reader leaves the event loop and closes its socket.
LEMMA TypesLastSteps ==
  ASSUME Types, NEW t \in Threads, LoopEnds(t) \/ LastClose(t)
  PROVE  Types'
<1>1. rd[t].fd \in Fds /\ Own(t) \in Things
  BY ThingFacts DEF LoopEnds, LastClose, Types, RdType, Things
<1>2. CASE LoopEnds(t)
  <2>1. /\ Fds' = Fds /\ fds' \in [Fds -> Things]
        /\ harmed' \subseteq Requests \cup {0}
    BY <1>2 DEF LoopEnds, Types, TableType, Fds
  <2>2. "close" \in RdPcs \ {"loop", "store"}
    BY DEF RdPcs
  <2>3. RdType'
    BY <1>1, <1>2, <2>1, <2>2, ReaderMoves DEF Types, LoopEnds
  <2>4. QED
    BY <1>2, <2>1, <2>3, TypesKept DEF Types, LoopEnds
<1>3. CASE LastClose(t)
  <2>1. /\ Fds' = Fds /\ fds' \in [Fds -> Things]
        /\ harmed' \subseteq Requests \cup {0}
    BY <1>1, <1>3, TableMoves DEF LastClose, Types
  <2>2. RdType'
    BY <1>3, <2>1, ReaderMoves DEF Types, LastClose
  <2>3. QED
    BY <1>3, <2>1, <2>2, TypesKept DEF Types, LastClose
<1>4. QED
  BY <1>2, <1>3

\* Types: a client comes or goes.
LEMMA TypesClients ==
  ASSUME Types, NEW s \in Clients, Accept(s) \/ Leave(s)
  PROVE  Types'
<1>1. s \in Things /\ s \in Sockets \cup Clients
  BY DEF Things
<1>2. /\ Fds' = Fds /\ fds' \in [Fds -> Things]
      /\ harmed' \subseteq Requests \cup {0}
  <2>1. CASE Accept(s)
    BY <1>1, <2>1, TableMoves DEF Accept, Types, TableType
  <2>2. CASE Leave(s)
    <3>1. PICK f \in Fds : Close(f, s)
      BY <2>2 DEF Leave
    <3>2. QED
      BY <1>1, <3>1, TableMoves DEF Types
  <2>3. QED
    BY <2>1, <2>2
<1>3. PICK x \in {"open", "gone"} : sock' = [sock EXCEPT ![s].st = x]
  BY DEF Accept, Leave
<1> DEFINE c == [sock[s] EXCEPT !.st = x]
<1>4. c \in Connections /\ sock' = [sock EXCEPT ![s] = c]
  BY <1>1, <1>3 DEF Types, TableType, Connections
<1>5. TableType'
  <2> HIDE DEF c
  <2>1. QED
    BY <1>1, <1>2, <1>4, OtherMoves DEF Accept, Leave
<1>6. UNCHANGED <<g, slot, co, rd>>
  BY DEF Accept, Leave
<1>7. QED
  BY <1>2, <1>5, <1>6, TypesKept DEF Types

\* Every variable keeps its type in every step.
LEMMA TypesNext ==
  ASSUME Types, [Next]_vars
  PROVE  Types'
<1>1. CASE Next
  <2>1. ASSUME NEW q \in Requests, Clear(q) \/ Coordinator(q)
        PROVE  Types'
    BY <2>1, TypesClear, TypesFill, TypesRound, TypesOtherSteps DEF Coordinator
  <2>2. ASSUME NEW t \in Threads, Reader(t)
        PROVE  Types'
    BY <2>2, TypesSocketSteps, TypesConnectSteps, TypesAllocArm, TypesCallback,
       TypesStore, TypesLastSteps DEF Reader
  <2>3. ASSUME NEW s \in Clients, Accept(s) \/ Leave(s)
        PROVE  Types'
    BY <2>3, TypesClients
  <2>4. QED
    BY <1>1, <2>1, <2>2, <2>3 DEF Next
<1>2. CASE UNCHANGED vars
  BY <1>2, TypesKept DEF vars, Types, TableType, Fds
<1>3. QED
  BY <1>1, <1>2

-----------------------------------------------------------------------------
(* What the steps leave alone.                                             *)

\* The locals of a reader that its own steps change: its flag quit may be set by
\* another.
SameReader(u) == rd'[u].pc = rd[u].pc /\ rd'[u].fd = rd[u].fd /\ rd'[u].hand = rd[u].hand

\* A reader's step changes no coordinator and no other reader.
LEMMA ReaderFrame ==
  ASSUME Types, NEW t \in Threads, Reader(t), ~Exit
  PROVE  /\ UNCHANGED co
         /\ rd[t].pc \notin {"none", "end"} /\ rd'[t].pc # "none"
         /\ \A u \in Threads : u # t => SameReader(u)
<1>1. rd \in [Threads -> Readers] /\ slot \in [Slots -> Elements] /\ t[2] \in Slots
  BY ThreadFacts DEF Types, RdType, GroupType
<1>2. CASE FirstSocket(t)
  BY <1>1, <1>2 DEF FirstSocket, Goto, GiveUp, End, NewThread, SameReader, Readers
<1>3. CASE SecondSocket(t)
  BY <1>1, <1>3 DEF SecondSocket, SocketFails, GiveUp, End, NewThread, SameReader, Readers
<1>4. CASE Connect(t) \/ Header(t)
  BY <1>1, <1>4 DEF Connect, Header, Goto, GiveUp, End, NewThread, SameReader, Readers
<1>5. CASE Alloc(t)
  BY <1>1, <1>5 DEF Alloc, Goto, End, NewThread, SameReader, Readers
<1>6. CASE Arm(t)
  <2> DEFINE s == fds[rd[t].fd]
             l == IF s \in Sockets THEN "loop" ELSE "close"
  <2>1. /\ rd' = [rd EXCEPT ![t].pc = l, ![t].watch = s]
        /\ co' = co /\ rd[t].pc = "arm"
    BY <1>6 DEF Arm
  <2>2. l # "none"
    OBVIOUS
  <2> HIDE DEF l, s
  <2>3. QED
    BY <1>1, <2>1, <2>2 DEF SameReader, Readers
<1>7. CASE CallbackFrees(t) \/ Prepare(t)
  BY <1>1, <1>7 DEF CallbackFrees, Prepare, Fires, SameReader
<1>8. CASE CallbackReads(t) \/ Store(t)
  <2>1. /\ co' = co /\ rd[t].pc \in {"loop", "store"}
        /\ \E l \in {"loop", "store"} : \E h : rd' = [rd EXCEPT ![t].pc = l, ![t].hand = h]
    <3>1. CASE CallbackReads(t)
      BY <3>1 DEF CallbackReads, Fires
    <3>2. CASE Store(t)
      BY <3>2 DEF Store
    <3>3. QED
      BY <1>8, <3>1, <3>2
  <2>2. QED
    BY <1>1, <2>1 DEF SameReader, Readers
<1>9. CASE CallbackEnds(t)
  <2> DEFINE e == slot[t[2]].ev
  <2>1. /\ UNCHANGED co /\ rd[t].pc = "loop"
        /\ (e \in Threads /\ rd' = [rd EXCEPT ![e].quit = TRUE]) \/ UNCHANGED rd
    BY <1>1, <1>9 DEF CallbackEnds, Fires, Elements, Units
  <2> HIDE DEF e
  <2>2. \A u \in Threads : SameReader(u)
    BY <1>1, <2>1 DEF SameReader, Readers
  <2>3. QED
    BY <2>1, <2>2 DEF SameReader
<1>10. CASE LoopEnds(t) \/ LastClose(t)
  BY <1>1, <1>10 DEF LoopEnds, LastClose, Goto, End, NewThread, SameReader, Readers
<1>11. QED
  BY <1>2, <1>3, <1>4, <1>5, <1>6, <1>7, <1>8, <1>9, <1>10 DEF Reader

\* A request changes its own locals only, and starts readers only.
LEMMA CoordinatorFrame ==
  ASSUME Types, NEW q \in Requests, Coordinator(q), ~Exit
  PROVE  /\ DOMAIN co' = Requests /\ \A p \in Requests : p # q => co'[p] = co[p]
         /\ co'[q].files = co[q].files /\ co'[q].alone = co[q].alone
         /\ co[q].pc \in Live /\ co'[q].pc \notin {"idle", "fill", "dead"}
         /\ co'[q].ret = co[q].ret \/ co'[q].pc = "done"
         /\ \/ UNCHANGED rd
            \/ Fill(q)
         /\ UNCHANGED sock
<1>1. co \in [Requests -> Coordinators({co[p].out : p \in Requests})]
  BY DEF Types, CoType
<1>2. CASE Fill(q) \/ FillFails(q) \/ EnterJudge(q)
  BY <1>1, <1>2 DEF Fill, FillFails, EnterJudge, Live, Coordinators
<1>3. CASE LoopTest(q)
  <2> DEFINE l == IF g.xor_flag = 0 /\ g.correct = 0 THEN "judge" ELSE "verdict"
  <2>1. co' = [co EXCEPT ![q].pc = l] /\ l \in {"judge", "verdict"}
    BY <1>3 DEF LoopTest
  <2> HIDE DEF l
  <2>2. QED
    BY <1>1, <1>3, <2>1 DEF LoopTest, Live, Coordinators
<1>4. CASE Verdict(q)
  <2> DEFINE r == IF g.correct # 0 \/ g.file_size # g.xor_size THEN "ERROR" ELSE "RIGHT"
             o == IF fds[co[q].fd] = <<q, "out", 0>> THEN co[q].out ELSE << >>
  <2>1. co' = [co EXCEPT ![q] = [co[q] EXCEPT !.pc = "done", !.ret = r, !.out = o]]
    BY <1>1, <1>4 DEF Verdict
  <2> HIDE DEF r, o
  <2>2. QED
    BY <1>1, <1>4, <2>1 DEF Verdict, Live, Coordinators
<1>5. ASSUME NEW k, NEW group, NEW o, RoundOver(q, k, group, o), co[q].pc = "judge"
      PROVE  /\ \A p \in Requests : p # q => co'[p] = co[p]
             /\ DOMAIN co' = Requests
             /\ co'[q].files = co[q].files /\ co'[q].alone = co[q].alone
             /\ co[q].pc \in Live /\ co'[q].pc = "test" /\ co'[q].ret = co[q].ret
             /\ UNCHANGED <<rd, sock>>
  BY <1>1, <1>5 DEF RoundOver, Live, Coordinators
<1>6. CASE Round(q) \/ RoundEmpty(q)
  <2>1. co[q].pc = "judge" /\ \E k, group, o : RoundOver(q, k, group, o)
    <3>1. CASE Round(q)
      BY <3>1 DEF Round
    <3>2. CASE RoundEmpty(q)
      BY <3>2 DEF RoundEmpty
    <3>3. QED
      BY <1>6, <3>1, <3>2 DEF Round, RoundEmpty
  <2>2. QED
    BY <1>5, <2>1
<1>7. QED
  BY <1>2, <1>3, <1>4, <1>6 DEF Coordinator

\* The end of the process ends every request as it is.
LEMMA ExitFrame ==
  ASSUME Types, Exit, NEW p \in Requests
  PROVE  /\ co'[p].pc = "dead" /\ co'[p].ret = co[p].ret /\ co'[p].out = co[p].out
         /\ co'[p].alone = co[p].alone /\ co'[p].files = co[p].files
         /\ \A t \in Threads : rd'[t].pc = "none"
BY DEF Exit, Types, CoType, Coordinators, NewThread

\* A request that starts is alone only if no other is active, and no other stays alone.
LEMMA ClearFrame ==
  ASSUME Types, NEW q \in Requests, Clear(q)
  PROVE  /\ co[q].pc = "idle" /\ co'[q].pc = "fill" /\ co'[q].ret = co[q].ret
         /\ co'[q].out = co[q].out /\ co'[q].files = co[q].files
         /\ \A p \in Requests : p # q =>
              /\ co'[p].pc = co[p].pc /\ co'[p].ret = co[p].ret
              /\ co'[p].out = co[p].out /\ co'[p].files = co[p].files
              /\ co'[p].alone => co[p].alone
         /\ \A p \in Requests : p # q /\ co[p].pc \in Live => ~co'[p].alone
         /\ co'[q].alone => \A p \in Requests : p # q => ~Active(p)
         /\ UNCHANGED <<rd, heap, fds, sock>>
<1> DEFINE others == {p \in Requests \ {q} : Active(p)}
<1>1. /\ co[q].pc = "idle" /\ UNCHANGED <<rd, heap, fds, sock>>
      /\ co' = [p \in Requests |->
                  CASE p = q -> [co[p] EXCEPT !.pc = "fill", !.alone = (others = {})]
                    [] p \in others /\ co[p].pc # "done" -> [co[p] EXCEPT !.alone = FALSE]
                    [] OTHER -> co[p]]
  BY DEF Clear
<1>2. \A p \in Requests : co[p] \in Coordinators({co[r].out : r \in Requests})
  BY DEF Types, CoType
<1>3. \A p \in Requests : p # q /\ co[p].pc \in Live => p \in others
  BY DEF Active, Live
<1>4. q \notin others /\ (others = {} => \A p \in Requests : p # q => ~Active(p))
  OBVIOUS
<1> HIDE DEF others
<1>5. /\ \E b \in BOOLEAN : (b <=> others = {}) /\ co'[q] = [co[q] EXCEPT !.pc = "fill", !.alone = b]
      /\ \A p \in Requests : p # q =>
           \/ p \in others /\ co[p].pc # "done" /\ co'[p] = [co[p] EXCEPT !.alone = FALSE]
           \/ (p \notin others \/ co[p].pc = "done") /\ co'[p] = co[p]
  <2>1. \E b \in BOOLEAN : (b <=> others = {}) /\ co'[q] = [co[q] EXCEPT !.pc = "fill", !.alone = b]
    BY <1>1, <1>4
  <2>2. ASSUME NEW p \in Requests, p # q
        PROVE  \/ p \in others /\ co[p].pc # "done" /\ co'[p] = [co[p] EXCEPT !.alone = FALSE]
               \/ (p \notin others \/ co[p].pc = "done") /\ co'[p] = co[p]
    <3>1. CASE p \in others /\ co[p].pc # "done"
      BY <1>1, <2>2, <3>1
    <3>2. CASE ~(p \in others /\ co[p].pc # "done")
      BY <1>1, <2>2, <3>2
    <3>3. QED
      BY <3>1, <3>2
  <2>3. QED
    BY <2>1, <2>2
<1>6. co'[q].alone <=> others = {}
  BY <1>2, <1>5 DEF Coordinators
<1>7. /\ co'[q].pc = "fill" /\ co'[q].ret = co[q].ret
      /\ co'[q].out = co[q].out /\ co'[q].files = co[q].files
  BY <1>2, <1>5 DEF Coordinators
<1>8. ASSUME NEW p \in Requests, p # q
      PROVE  /\ co'[p].pc = co[p].pc /\ co'[p].ret = co[p].ret
             /\ co'[p].out = co[p].out /\ co'[p].files = co[p].files
             /\ co'[p].alone => co[p].alone
             /\ p \in others /\ co[p].pc # "done" => ~co'[p].alone
  <2>1. CASE co'[p] = co[p] /\ (p \notin others \/ co[p].pc = "done")
    BY <2>1
  <2>2. CASE co'[p] = [co[p] EXCEPT !.alone = FALSE]
    BY <1>2, <2>2 DEF Coordinators
  <2>3. QED
    BY <1>5, <1>8, <2>1, <2>2
<1>9. QED
  BY <1>1, <1>3, <1>4, <1>6, <1>7, <1>8 DEF Live

\* The number of files of a request does not change.
LEMMA FilesKept ==
  ASSUME Types, [Next]_vars, NEW q \in Requests
  PROVE  Files(q)' = Files(q)
<1>1. co'[q].files = co[q].files
  <2>1. CASE Exit
    BY <2>1, ExitFrame
  <2>2. ASSUME ~Exit, NEW p \in Requests, Clear(p) \/ Coordinator(p)
        PROVE  co'[q].files = co[q].files
    BY <2>2, ClearFrame, CoordinatorFrame
  <2>3. ASSUME ~Exit, NEW t \in Threads, Reader(t)
        PROVE  co'[q].files = co[q].files
    BY <2>3, ReaderFrame
  <2>4. ASSUME NEW s \in Clients, Accept(s) \/ Leave(s)
        PROVE  co'[q].files = co[q].files
    BY <2>4 DEF Accept, Leave
  <2>5. QED
    BY <2>1, <2>2, <2>3, <2>4 DEF Next, vars
<1>2. QED
  BY <1>1 DEF Files

\* There is one reader for each file after every step.
LEMMA OutsidersNext ==
  ASSUME Types, Outsiders, [Next]_vars
  PROVE  Outsiders'
<1>1. \A t \in Threads : t[1] \in Requests /\ Files(t[1])' = Files(t[1])
  BY FilesKept, ThreadFacts
<1>2. SUFFICES ASSUME NEW t \in Threads, t[2] \notin Files(t[1]), rd'[t].pc # "none"
               PROVE  FALSE
  BY <1>1 DEF Outsiders
<1>3. rd[t].pc = "none"
  BY <1>2 DEF Outsiders
<1>4. CASE Exit
  BY <1>1, <1>2, <1>4, ExitFrame
<1>5. ASSUME ~Exit, NEW q \in Requests, Clear(q) \/ Coordinator(q)
      PROVE  FALSE
  <2>1. CASE UNCHANGED rd
    BY <1>2, <1>3, <2>1
  <2>2. CASE Fill(q)
    BY <1>2, <1>3, <2>2 DEF Fill
  <2>3. QED
    BY <1>5, <2>1, <2>2, ClearFrame, CoordinatorFrame
<1>6. ASSUME ~Exit, NEW u \in Threads, Reader(u)
      PROVE  FALSE
  BY <1>2, <1>3, <1>6, ReaderFrame DEF SameReader
<1>7. ASSUME NEW s \in Clients, Accept(s) \/ Leave(s)
      PROVE  FALSE
  BY <1>2, <1>3, <1>7 DEF Accept, Leave
<1>8. CASE UNCHANGED vars
  BY <1>2, <1>3, <1>8 DEF vars
<1>9. QED
  BY <1>4, <1>5, <1>6, <1>7, <1>8 DEF Next

-----------------------------------------------------------------------------
(* Before its readers start, nothing of a request is in use.               *)

\* A descriptor that is open is what Open has just put there, or was open.
LEMMA Opened ==
  ASSUME Types, NEW s \in Things, s # Nobody, IsOpen(s)'
  PROVE  /\ \A x \in Things : Open(x) => IsOpen(s) \/ s = x
         /\ \A f, x : Close(f, x) => IsOpen(s)
         /\ UNCHANGED fds => IsOpen(s)
<1>1. PICK f \in DOMAIN fds' : fds'[f] = s
  BY DEF IsOpen, Fds
<1>2. ASSUME NEW x \in Things, Open(x)
      PROVE  IsOpen(s) \/ s = x
  BY <1>1, <1>2, OpenFacts DEF Types, IsOpen, Fds
<1>3. ASSUME NEW d, NEW x, Close(d, x)
      PROVE  IsOpen(s)
  BY <1>1, <1>3 DEF Close, IsOpen, Fds
<1>4. QED
  BY <1>1, <1>2, <1>3 DEF IsOpen, Fds

\* A reader opens sockets of its own request, and data gets into or out of
\* sockets that are open.
LEMMA ReaderSockets ==
  ASSUME Types, NEW t \in Threads, Reader(t), ~Exit, NEW s \in Sockets, s[1] # t[1]
  PROVE  /\ IsOpen(s)' => IsOpen(s)
         /\ ~IsOpen(s) /\ sock[s].data = << >> => sock'[s].data = << >>
<1>1. /\ Own(t) \in Things /\ <<t[1], "a", t[2]>> \in Things /\ s \in Things /\ s # Nobody
      /\ Own(t)[1] = t[1] /\ s \in Sockets \cup Clients
  BY ThingFacts, ThreadFacts DEF Things
<1>2. sock \in [Sockets \cup Clients -> Connections]
  BY DEF Types, TableType
<1>3. IsOpen(s)' => IsOpen(s)
  <2>1. \/ UNCHANGED fds
        \/ Open(Own(t)) \/ Open(<<t[1], "a", t[2]>>)
        \/ Close(rd[t].fd, Own(t))
    BY DEF Reader, FirstSocket, SecondSocket, Connect, Header, Alloc, Arm, CallbackFrees,
       CallbackReads, CallbackEnds, Store, Prepare, LoopEnds, LastClose, Refused
  <2>2. QED
    BY <1>1, <2>1, Opened
<1>4. ASSUME ~IsOpen(s), sock[s].data = << >>
      PROVE  sock'[s].data = << >>
  <2>1. CASE Connect(t) \/ Header(t)
    <3>1. rd[t].fd \in Fds
      BY <2>1 DEF Connect, Header, Types, RdType
    <3>2. fds[rd[t].fd] # s
      BY <1>4, <3>1 DEF IsOpen
    <3>3. sock' = sock \/ \E c : sock' = [sock EXCEPT ![fds[rd[t].fd]] = c]
      <4>1. CASE Connect(t)
        BY <4>1 DEF Connect
      <4>2. CASE Header(t)
        BY <4>2 DEF Header
      <4>3. QED
        BY <2>1, <4>1, <4>2
    <3>4. QED
      BY <1>1, <1>2, <1>4, <3>2, <3>3
  <2>2. CASE CallbackReads(t)
    BY <1>1, <1>2, <1>4, <2>2 DEF CallbackReads
  <2>3. CASE UNCHANGED sock
    BY <1>4, <2>3
  <2>4. UNCHANGED sock \/ Connect(t) \/ Header(t) \/ CallbackReads(t)
    BY DEF Reader, FirstSocket, SecondSocket, Alloc, Arm, CallbackFrees, CallbackEnds,
       Store, Prepare, LoopEnds, LastClose
  <2>5. QED
    BY <2>1, <2>2, <2>3, <2>4
<1>5. QED
  BY <1>3, <1>4

\* What holds of a request before its threads start is kept.
LEMMA StartNext ==
  ASSUME Types, Next, NEW q \in Requests, Start(q)
  PROVE  Start(q)'
<1> USE DEF Start
<1>1. /\ \A i \in Slots : <<q, i>> \in Threads
      /\ \A s \in OwnSockets(q) : s \in Sockets /\ s \in Things /\ s # Nobody /\ s[1] = q
      /\ OwnSockets(q)' = OwnSockets(q)
  <2>1. OwnSockets(q)' = OwnSockets(q)
    BY DEF OwnSockets, Sockets, Threads, Slots
  <2>2. QED
    BY <2>1, ThreadFacts, ThingFacts DEF Things, OwnSockets
<1>2. CASE Exit
  <2>1. co'[q].pc = "dead"
    BY <1>2, ExitFrame
  <2>2. QED
    BY <2>1 DEF Unfinished, BeforeStart
<1>3. ASSUME Clear(q)
      PROVE  Start(q)'
  <2>1. /\ co[q].pc = "idle" /\ co'[q].pc = "fill" /\ co'[q].ret = co[q].ret
        /\ co'[q].out = co[q].out /\ UNCHANGED <<rd, fds, sock>>
    BY <1>3, ClearFrame
  <2>2. Unfinished(q)'
    BY <2>1 DEF Unfinished
  <2>3. BeforeStart(q)'
    BY <1>1, <2>1 DEF BeforeStart, IsOpen, Fds
  <2>4. QED
    BY <2>2, <2>3
<1>4. ASSUME ~Exit, Coordinator(q)
      PROVE  Start(q)'
  BY <1>4, CoordinatorFrame DEF Unfinished, BeforeStart, Live
<1>5. ASSUME co'[q].pc = co[q].pc, co'[q].out = co[q].out, co'[q].ret = co[q].ret,
             co[q].pc \in {"idle", "fill"} =>
               /\ \A i \in Slots : rd'[<<q, i>>].pc = "none"
               /\ \A s \in OwnSockets(q) : sock'[s].data = << >> /\ ~IsOpen(s)'
      PROVE  Start(q)'
  BY <1>1, <1>5 DEF Unfinished, BeforeStart
<1>6. ASSUME ~Exit, NEW p \in Requests, p # q, Clear(p) \/ Coordinator(p)
      PROVE  Start(q)'
  <2>1. /\ co'[q].pc = co[q].pc /\ co'[q].out = co[q].out /\ co'[q].ret = co[q].ret
        /\ UNCHANGED sock
    BY <1>6, ClearFrame, CoordinatorFrame
  <2>2. \A i \in Slots : rd'[<<q, i>>].pc = rd[<<q, i>>].pc
    <3>1. CASE UNCHANGED rd
      BY <3>1
    <3>2. CASE Fill(p)
      BY <1>1, <1>6, <3>2 DEF Fill
    <3>3. QED
      BY <1>6, <3>1, <3>2, ClearFrame, CoordinatorFrame
  <2>3. \A s \in OwnSockets(q) : IsOpen(s)' => IsOpen(s)
    <3>1. UNCHANGED fds \/ Open(<<p, "out", 0>>) \/ Close(co[p].fd, <<p, "out", 0>>)
      BY <1>6 DEF Clear, Coordinator, Fill, FillFails, EnterJudge, Round, RoundEmpty,
         RoundOver, LoopTest, Verdict, CloseOutput, Refused
    <3>2. <<p, "out", 0>> \in Things /\ <<p, "out", 0>> \notin Sockets
      BY ThingFacts DEF Things
    <3>3. QED
      BY <1>1, <3>1, <3>2, Opened
  <2>4. QED
    BY <1>5, <2>1, <2>2, <2>3 DEF BeforeStart
<1>7. ASSUME ~Exit, NEW t \in Threads, Reader(t)
      PROVE  Start(q)'
  <2>1. UNCHANGED co /\ rd[t].pc # "none" /\ \A u \in Threads : u # t => SameReader(u)
    BY <1>7, ReaderFrame
  <2>2. ASSUME co[q].pc \in {"idle", "fill"}
        PROVE  /\ \A i \in Slots : rd'[<<q, i>>].pc = "none"
               /\ \A s \in OwnSockets(q) : sock'[s].data = << >> /\ ~IsOpen(s)'
    <3>1. t[1] # q
      BY <2>1, <2>2, ThreadFacts DEF BeforeStart
    <3>2. QED
      BY <1>1, <1>7, <2>1, <2>2, <3>1, ReaderSockets DEF BeforeStart, SameReader
  <2>3. QED
    BY <1>5, <2>1, <2>2
<1>8. ASSUME NEW c \in Clients, Accept(c) \/ Leave(c)
      PROVE  Start(q)'
  <2>1. c \in Things /\ c \notin Sockets
    BY ThingFacts DEF Things
  <2>2. \A s \in OwnSockets(q) : (IsOpen(s)' => IsOpen(s)) /\ sock'[s] = sock[s]
    <3>1. Open(c) \/ \E f : Close(f, c)
      BY <1>8 DEF Accept, Leave
    <3>2. sock' = [sock EXCEPT ![c] = sock'[c]]
      BY <1>8 DEF Accept, Leave, Types, TableType
    <3>3. QED
      BY <1>1, <2>1, <3>1, <3>2, Opened DEF Types, TableType
  <2>3. UNCHANGED <<co, rd>>
    BY <1>8 DEF Accept, Leave
  <2>4. QED
    BY <1>5, <2>2, <2>3 DEF BeforeStart
<1>9. QED
  BY <1>2, <1>3, <1>4, <1>6, <1>7, <1>8 DEF Next

-----------------------------------------------------------------------------
(* The result of a request that is alone.                                  *)

\* A request that was alone and returns RIGHT wrote its own output.
LEMMA VerdictRight ==
  ASSUME Types, NEW q \in Requests, Busy(q), Lone(q), Verdict(q), co'[q].ret = "RIGHT"
  PROVE  co'[q].out = OwnOutput(q)
<1>1. /\ co[q].pc = "verdict" /\ Descriptors(q) /\ Settings(q)
      /\ Collecting(q) \/ Xored(q)
  BY DEF Lone, Verdict
<1>2. fds[co[q].fd] = <<q, "out", 0>> /\ g.file_size = 1
  BY <1>1 DEF Descriptors, Settings
<1>3. /\ co'[q].out = co[q].out
      /\ ~(g.correct # 0 \/ g.file_size # g.xor_size)
  <2> DEFINE r == IF g.correct # 0 \/ g.file_size # g.xor_size THEN "ERROR" ELSE "RIGHT"
  <2>1. co[q] \in Coordinators({co[q].out})
    BY DEF Types, CoType, Coordinators
  <2>2. co' = [co EXCEPT ![q] = [co[q] EXCEPT !.pc = "done", !.ret = r, !.out = co[q].out]]
    BY <1>2 DEF Verdict, Types, CoType
  <2>3. co'[q].out = co[q].out /\ co'[q].ret = r
    <3> HIDE DEF r
    <3>1. QED
      BY <2>1, <2>2 DEF Types, CoType, Coordinators
  <2>4. QED
    BY <2>3
<1>4. ~Collecting(q)
  BY <1>2, <1>3 DEF Collecting
<1>5. QED
  BY <1>1, <1>3, <1>4 DEF Xored

\* Every step keeps the property.
LEMMA LoneRightNext ==
  ASSUME IInv, Next
  PROVE  LoneRightMeansOwnFiles'
<1>1. Types /\ LoneRightMeansOwnFiles
  BY DEF IInv
<1>2. SUFFICES ASSUME NEW q \in Requests, co'[q].ret = "RIGHT", co'[q].alone
               PROVE  co'[q].out = OwnOutput(q)
  <2>1. \A q \in Requests : OwnOutput(q)' = OwnOutput(q)
    BY <1>1, FilesKept DEF OwnOutput
  <2>2. QED
    BY <2>1 DEF LoneRightMeansOwnFiles
<1>3. CASE co'[q].ret = co[q].ret /\ co'[q].out = co[q].out /\ co[q].alone
  BY <1>1, <1>2, <1>3 DEF LoneRightMeansOwnFiles
<1>4. CASE Exit
  BY <1>1, <1>2, <1>3, <1>4, ExitFrame
<1>5. ASSUME ~Exit, NEW p \in Requests, Clear(p)
      PROVE  co'[q].out = OwnOutput(q)
  <2>1. CASE p = q
    <3>1. co[q].pc = "idle" /\ co'[q].ret = co[q].ret
      BY <1>1, <1>5, <2>1, ClearFrame
    <3>2. QED
      BY <1>2, <3>1 DEF IInv, Start, Unfinished
  <2>2. CASE p # q
    BY <1>1, <1>2, <1>3, <1>5, <2>2, ClearFrame
  <2>3. QED
    BY <2>1, <2>2
<1>6. ASSUME ~Exit, NEW p \in Requests, Coordinator(p)
      PROVE  co'[q].out = OwnOutput(q)
  <2>1. CASE p # q
    BY <1>1, <1>2, <1>3, <1>6, <2>1, CoordinatorFrame
  <2>2. CASE p = q
    <3>1. /\ co[q].pc \in Live /\ co'[q].alone = co[q].alone
          /\ co'[q].ret = co[q].ret \/ co'[q].pc = "done"
      BY <1>1, <1>6, <2>2, CoordinatorFrame
    <3>2. Busy(q) /\ Lone(q) /\ co[q].ret = "none"
      BY <1>2, <3>1 DEF Busy, IInv, Start, Unfinished, Live
    <3>3. co'[q].pc = "done"
      BY <1>2, <3>1, <3>2
    <3>4. CASE Verdict(q)
      BY <1>1, <1>2, <3>2, <3>4, VerdictRight
    <3>5. CASE FillFails(q)
      BY <1>1, <1>2, <3>5 DEF FillFails, Types, CoType, Coordinators
    <3>6. CASE Fill(q) \/ EnterJudge(q) \/ LoopTest(q)
      <4>1. co'[q].pc \in {"enter", "judge", "verdict"}
        BY <1>1, <3>6 DEF Fill, EnterJudge, LoopTest, Types, CoType, Coordinators
      <4>2. QED
        BY <3>3, <4>1
    <3>7. CASE Round(q) \/ RoundEmpty(q)
      <4>1. \E k, group, o : RoundOver(q, k, group, o)
        <5>1. CASE Round(q)
          BY <1>6, <5>1 DEF Round
        <5>2. CASE RoundEmpty(q)
          BY <1>6, <5>2 DEF RoundEmpty
        <5>3. QED
          BY <3>7, <5>1, <5>2
      <4>2. co'[q].pc = "test"
        BY <1>1, <4>1 DEF RoundOver, Types, CoType, Coordinators
      <4>3. QED
        BY <3>3, <4>2
    <3>8. QED
      BY <1>6, <2>2, <3>4, <3>5, <3>6, <3>7 DEF Coordinator
  <2>3. QED
    BY <2>1, <2>2
<1>7. ASSUME ~Exit, NEW t \in Threads, Reader(t)
      PROVE  co'[q].out = OwnOutput(q)
  BY <1>1, <1>2, <1>3, <1>7, ReaderFrame
<1>8. ASSUME NEW c \in Clients, Accept(c) \/ Leave(c)
      PROVE  co'[q].out = OwnOutput(q)
  BY <1>2, <1>3, <1>8 DEF Accept, Leave
<1>9. QED
  BY <1>4, <1>5, <1>6, <1>7, <1>8 DEF Next

-----------------------------------------------------------------------------
(* Units move from place to place.                                         *)

Early == {"none", "socket", "socket2", "connect", "header"}

\* The places are the sockets, the hands and the buffers of the request.
LEMMA PlaceFacts ==
  ASSUME NEW q \in Requests
  PROVE  /\ Places(q)' = Places(q)
         /\ \A s \in OwnSockets(q) :
              /\ <<"socket", s>> \in Places(q)
              /\ In(q, <<"socket", s>>) = Waiting(s) /\ In(q, <<"socket", s>>)' = Waiting(s)'
         /\ \A i \in Slots :
              /\ <<"hand", <<q, i>>>> \in Places(q)
              /\ In(q, <<"hand", <<q, i>>>>) = Hand(<<q, i>>)
              /\ In(q, <<"hand", <<q, i>>>>)' = Hand(<<q, i>>)'
         /\ \A i \in Slots, k \in Bufs :
              /\ <<"buffer", <<i, k>>>> \in Places(q)
              /\ In(q, <<"buffer", <<i, k>>>>) = Kept(q, i, k)
              /\ In(q, <<"buffer", <<i, k>>>>)' = Kept(q, i, k)'
         /\ \A x \in Places(q) :
              \/ \E s \in OwnSockets(q) : x = <<"socket", s>>
              \/ \E i \in Slots : x = <<"hand", <<q, i>>>>
              \/ \E i \in Slots, k \in Bufs : x = <<"buffer", <<i, k>>>>
<1>1. Places(q)' = Places(q)
  BY DEF Places, OwnSockets, Sockets, Threads, Slots, Bufs
<1>2. \A s \in OwnSockets(q) :
        /\ <<"socket", s>> \in Places(q)
        /\ In(q, <<"socket", s>>) = Waiting(s) /\ In(q, <<"socket", s>>)' = Waiting(s)'
  BY DEF Places, In
<1>3. \A i \in Slots :
        /\ <<"hand", <<q, i>>>> \in Places(q)
        /\ In(q, <<"hand", <<q, i>>>>) = Hand(<<q, i>>)
        /\ In(q, <<"hand", <<q, i>>>>)' = Hand(<<q, i>>)'
  BY DEF Places, In
<1>4. \A i \in Slots, k \in Bufs :
        /\ <<"buffer", <<i, k>>>> \in Places(q)
        /\ In(q, <<"buffer", <<i, k>>>>) = Kept(q, i, k)
        /\ In(q, <<"buffer", <<i, k>>>>)' = Kept(q, i, k)'
  BY DEF Places, In
<1>5. \A x \in Places(q) :
        \/ \E s \in OwnSockets(q) : x = <<"socket", s>>
        \/ \E i \in Slots : x = <<"hand", <<q, i>>>>
        \/ \E i \in Slots, k \in Bufs : x = <<"buffer", <<i, k>>>>
  BY DEF Places
<1>6. QED
  BY <1>1, <1>2, <1>3, <1>4, <1>5

\* Units of U, which are in no other place, may come to place y.
LEMMA UnitsMove ==
  ASSUME NEW q \in Requests, NEW U, NEW y \in Places(q), OnePlace(q), Asked(q),
         Files(q)' = Files(q),
         \A x \in Places(q) : x # y => In(q, x)' \subseteq In(q, x) \ U,
         In(q, y)' \subseteq In(q, y) \cup U,
         \A u \in U : u \in Threads /\ u[1] = q /\ u[2] \in Files(q) /\ rd'[u].pc \notin Early,
         \A u \in Threads : rd[u].pc \notin Early => rd'[u].pc \notin Early
  PROVE  OnePlace(q)' /\ Asked(q)'
<1>1. Places(q)' = Places(q)
  BY PlaceFacts
<1>2. ASSUME NEW x \in Places(q), NEW z \in Places(q), x # z
      PROVE  In(q, x)' \cap In(q, z)' = {}
  <2>1. In(q, x) \cap In(q, z) = {}
    BY <1>2 DEF OnePlace
  <2>2. CASE x = y
    BY <1>2, <2>1, <2>2
  <2>3. CASE z = y
    BY <1>2, <2>1, <2>3
  <2>4. CASE x # y /\ z # y
    BY <2>1, <2>4
  <2>5. QED
    BY <2>2, <2>3, <2>4
<1>3. ASSUME NEW x \in Places(q), NEW u \in In(q, x)'
      PROVE  u \in Threads /\ u[1] = q /\ u[2] \in Files(q) /\ rd'[u].pc \notin Early
  <2>1. u \in In(q, x) \/ u \in U
    BY <1>3
  <2>2. QED
    BY <2>1 DEF Asked, Early
<1>4. OnePlace(q)'
  BY <1>1, <1>2 DEF OnePlace
<1>5. Threads' = Threads
  BY DEF Threads, Slots
<1>6. Asked(q)'
  BY <1>1, <1>3, <1>5 DEF Asked, Early
<1>7. QED
  BY <1>4, <1>6

\* Nothing comes to any place.
LEMMA UnitsStay ==
  ASSUME NEW q \in Requests, OnePlace(q), Asked(q), Files(q)' = Files(q),
         \A s \in OwnSockets(q) : Waiting(s)' \subseteq Waiting(s),
         \A i \in Slots : Hand(<<q, i>>)' \subseteq Hand(<<q, i>>),
         \A i \in Slots, k \in Bufs : Kept(q, i, k)' \subseteq Kept(q, i, k),
         \A u \in Threads : rd[u].pc \notin Early => rd'[u].pc \notin Early
  PROVE  OnePlace(q)' /\ Asked(q)'
<1>1. \A x \in Places(q) : In(q, x)' \subseteq In(q, x)
  <2>1. ASSUME NEW x \in Places(q)
        PROVE  In(q, x)' \subseteq In(q, x)
    <3>1. CASE \E s \in OwnSockets(q) : x = <<"socket", s>>
      BY <3>1, PlaceFacts
    <3>2. CASE \E i \in Slots : x = <<"hand", <<q, i>>>>
      BY <3>2, PlaceFacts
    <3>3. CASE \E i \in Slots, k \in Bufs : x = <<"buffer", <<i, k>>>>
      BY <3>3, PlaceFacts
    <3>4. QED
      BY <3>1, <3>2, <3>3, PlaceFacts
  <2>2. QED
    BY <2>1
<1>2. <<"hand", <<q, 1>>>> \in Places(q)
  BY PlaceFacts, Constants DEF Slots
<1>3. PICK y \in Places(q) : TRUE
  BY <1>2
<1> DEFINE U == {}
<1>4. /\ \A x \in Places(q) : x # y => In(q, x)' \subseteq In(q, x) \ U
      /\ In(q, y)' \subseteq In(q, y) \cup U
  BY <1>1
<1>5. \A u \in U : u \in Threads /\ u[1] = q /\ u[2] \in Files(q) /\ rd'[u].pc \notin Early
  OBVIOUS
<1> HIDE DEF U
<1>6. QED
  BY <1>4, <1>5, UnitsMove

-----------------------------------------------------------------------------
(* The steps of the readers of a request that is alone.                    *)

\* What a reader does to the descriptor table.
LEMMA ReaderTable ==
  ASSUME Types, NEW t \in Threads, Reader(t), ~Exit
  PROVE  \/ rd'[t].pc \notin HasSocket /\ (UNCHANGED fds \/ Open(<<t[1], "a", t[2]>>))
         \/ /\ rd[t].pc \in HasSocket /\ (rd'[t].pc \in HasSocket => rd'[t].fd = rd[t].fd)
            /\ UNCHANGED fds \/ Close(rd[t].fd, Own(t))
         \/ Open(Own(t)) /\ rd'[t].fd = Min(Free)
<1>1. rd \in [Threads -> Readers] /\ slot \in [Slots -> Elements] /\ t[2] \in Slots
  BY ThreadFacts DEF Types, RdType, GroupType
<1>2. CASE FirstSocket(t)
  <2>1. rd'[t].pc \in {"socket2", "end"}
    BY <1>1, <1>2 DEF FirstSocket, Goto, GiveUp, End, NewThread, Readers
  <2>2. UNCHANGED fds \/ Open(<<t[1], "a", t[2]>>)
    BY <1>2 DEF FirstSocket, Refused
  <2>3. QED
    BY <2>1, <2>2 DEF HasSocket
<1>3. CASE SecondSocket(t)
  <2>1. CASE Open(Own(t)) /\ rd' = [rd EXCEPT ![t].pc = "connect", ![t].fd = Min(Free)]
    <3>1. rd'[t].fd = Min(Free)
      BY <1>1, <2>1 DEF Readers
    <3>2. QED
      BY <2>1, <3>1
  <2>2. CASE Refused(t[1]) /\ GiveUp(t)
    <3>1. rd'[t].pc = "end"
      BY <1>1, <2>2 DEF GiveUp, End, NewThread
    <3>2. QED
      BY <2>2, <3>1 DEF Refused, HasSocket
  <2>3. QED
    BY <1>3, <2>1, <2>2 DEF SecondSocket, SocketFails
<1>4. ASSUME rd[t].pc \in HasSocket, SameReader(t) \/ rd'[t].pc = "end" \/ rd'[t].fd = rd[t].fd,
             UNCHANGED fds \/ Close(rd[t].fd, Own(t))
      PROVE  /\ rd[t].pc \in HasSocket /\ (rd'[t].pc \in HasSocket => rd'[t].fd = rd[t].fd)
             /\ UNCHANGED fds \/ Close(rd[t].fd, Own(t))
  BY <1>4 DEF SameReader, HasSocket
<1>5. CASE Connect(t) \/ Header(t)
  BY <1>1, <1>4, <1>5 DEF Connect, Header, Goto, GiveUp, End, NewThread, Readers,
     HasSocket
<1>6. CASE Alloc(t) \/ LoopEnds(t) \/ LastClose(t)
  BY <1>1, <1>4, <1>6 DEF Alloc, LoopEnds, LastClose, Goto, End, NewThread, Readers,
     HasSocket
<1>7. CASE Arm(t)
  <2> DEFINE l == IF fds[rd[t].fd] \in Sockets THEN "loop" ELSE "close"
             s == fds[rd[t].fd]
  <2>1. rd' = [rd EXCEPT ![t].pc = l, ![t].watch = s] /\ UNCHANGED fds /\ rd[t].pc = "arm"
    BY <1>7 DEF Arm
  <2> HIDE DEF l, s
  <2>2. QED
    BY <1>1, <1>4, <2>1 DEF Readers, HasSocket
<1>8. CASE CallbackFrees(t) \/ Prepare(t)
  BY <1>4, <1>8 DEF CallbackFrees, Prepare, Fires, SameReader, HasSocket
<1>9. CASE CallbackReads(t)
  BY <1>1, <1>4, <1>9 DEF CallbackReads, Fires, Readers, HasSocket
<1>10. CASE Store(t)
  <2>1. /\ rd' = [rd EXCEPT ![t].pc = "loop", ![t].hand = Junk]
        /\ UNCHANGED fds /\ rd[t].pc = "store"
    BY <1>10 DEF Store
  <2>2. QED
    BY <1>1, <1>4, <2>1 DEF Readers, HasSocket
<1>11. CASE CallbackEnds(t)
  <2> DEFINE e == slot[t[2]].ev
  <2>1. /\ rd[t].pc = "loop" /\ Close(rd[t].fd, Own(t))
        /\ (e \in Threads /\ rd' = [rd EXCEPT ![e].quit = TRUE]) \/ UNCHANGED rd
    BY <1>1, <1>11 DEF CallbackEnds, Fires, Elements, Units
  <2> HIDE DEF e
  <2>2. rd'[t].fd = rd[t].fd
    BY <1>1, <2>1 DEF Readers
  <2>3. QED
    BY <1>4, <2>1, <2>2 DEF HasSocket
<1>12. QED
  BY <1>2, <1>3, <1>5, <1>6, <1>7, <1>8, <1>9, <1>10, <1>11 DEF Reader

\* What the readers of q do to the descriptors of q.
LEMMA ReaderDescriptors ==
  ASSUME Types, NEW q \in Requests, NEW i \in Slots, Start(q), Busy(q), Descriptors(q),
         Reader(<<q, i>>), ~Exit
  PROVE  Descriptors(q)' /\ co[q].pc # "fill"
<1> DEFINE t == <<q, i>>
<1>1. /\ t \in Threads /\ t[1] = q /\ Own(t) \in OwnSockets(q) /\ Own(t) \in Things
      /\ <<t[1], "a", t[2]>> \in OwnSockets(q) /\ <<t[1], "a", t[2]>> \in Things
      /\ Nobody \notin Sockets /\ <<q, "out", 0>> # Nobody
      /\ \A j \in Slots : <<q, j>> \in Threads
  BY ThreadFacts, ThingFacts DEF Things, OwnSockets
<1>2. /\ UNCHANGED co /\ rd[t].pc \notin {"none", "end"}
      /\ \A u \in Threads : u # t => SameReader(u)
  <2> HIDE DEF t
  <2>1. QED
    BY <1>1, ReaderFrame DEF t
<1>3. co[q].pc # "fill"
  BY <1>2 DEF Start, BeforeStart
<1>4. fds[co[q].fd] = <<q, "out", 0>>
  BY <1>3 DEF Descriptors
<1>5. \/ rd'[t].pc \notin HasSocket /\ (UNCHANGED fds \/ Open(<<t[1], "a", t[2]>>))
      \/ /\ rd[t].pc \in HasSocket /\ (rd'[t].pc \in HasSocket => rd'[t].fd = rd[t].fd)
         /\ UNCHANGED fds \/ Close(rd[t].fd, Own(t))
      \/ Open(Own(t)) /\ rd'[t].fd = Min(Free)
  BY <1>1, ReaderTable, Zenon
<1>6. ASSUME NEW f \in Fds
      PROVE  /\ fds[f] # Nobody => fds'[f] = fds[f] \/ (f = rd[t].fd /\ rd[t].pc \in HasSocket)
             /\ fds'[f] \in Sockets => fds'[f] = fds[f] \/ fds'[f] \in OwnSockets(q)
  <2>1. CASE UNCHANGED fds
    BY <2>1
  <2>2. ASSUME NEW s \in OwnSockets(q), Open(s)
        PROVE  fds'[f] = fds[f] \/ (fds[f] = Nobody /\ fds'[f] = s)
    BY <2>2, OpenFacts DEF Types, TableType
  <2>3. CASE Close(rd[t].fd, Own(t)) /\ rd[t].pc \in HasSocket
    BY <1>1, <2>3 DEF Close, Types, TableType
  <2>4. QED
    BY <1>1, <1>5, <2>1, <2>2, <2>3
<1>7. co[q].fd \in Fds /\ (rd[t].pc \in HasSocket => rd[t].fd # co[q].fd)
  BY <1>1, <1>3 DEF Busy, Live, Descriptors, Types, CoType
<1>8. fds'[co[q].fd] = <<q, "out", 0>>
  BY <1>1, <1>4, <1>6, <1>7
<1>9. ASSUME NEW j \in Slots, rd'[<<q, j>>].pc \in HasSocket
      PROVE  /\ rd'[<<q, j>>].fd # co[q].fd
             /\ fds'[rd'[<<q, j>>].fd] \in Sockets => fds'[rd'[<<q, j>>].fd] \in OwnSockets(q)
  <2> DEFINE u == <<q, j>>
  <2>1. u \in Threads
    BY <1>1
  <2>2. CASE rd[u].pc \in HasSocket /\ rd'[u].fd = rd[u].fd
    <3>1. rd[u].fd \in Fds
      BY <2>1, <2>2 DEF HasSocket, Types, RdType
    <3>2. /\ rd[u].fd # co[q].fd
          /\ fds[rd[u].fd] \in Sockets => fds[rd[u].fd] \in OwnSockets(q)
      BY <2>2 DEF Descriptors
    <3>3. QED
      BY <1>6, <2>2, <3>1, <3>2
  <2>3. CASE Open(Own(t)) /\ rd'[u].fd = Min(Free)
    <3>1. /\ Min(Free) \in Fds /\ fds[Min(Free)] = Nobody
          /\ fds' = [fds EXCEPT ![Min(Free)] = Own(t)]
      BY <2>3, OpenFacts DEF Types
    <3>2. QED
      BY <1>1, <1>4, <2>3, <3>1 DEF Types, TableType
  <2>4. QED
    BY <1>2, <1>5, <1>9, <2>1, <2>2, <2>3 DEF SameReader
<1>10. QED
  BY <1>2, <1>3, <1>8, <1>9 DEF Descriptors

\* What is left to show of a step of a reader.
LEMMA LoneByReader ==
  ASSUME Types, NEW q \in Requests, NEW i \in Slots, Start(q), Busy(q), Lone(q),
         Reader(<<q, i>>), ~Exit,
         g'.file_size = g.file_size, g'.file_num = g.file_num,
         g'.xor_size = g.xor_size, g'.xor_flag = g.xor_flag,
         Collecting(q) => /\ \A j \in Files(q) : Element(q, j)'
                          /\ Counts(q)' /\ OnePlace(q)' /\ Once(q)' /\ Asked(q)'
  PROVE  Lone(q)'
<1> DEFINE t == <<q, i>>
<1>1. /\ t \in Threads /\ \A p \in Requests, j \in Slots : <<p, j>> \in Threads
  BY ThreadFacts
<1>2. UNCHANGED co /\ \A u \in Threads : u # t => SameReader(u)
  <2> HIDE DEF t
  <2>1. QED
    BY <1>1, ReaderFrame DEF t
<1>3. /\ Isolated(q) /\ Descriptors(q) /\ Settings(q)
      /\ Collecting(q) \/ Xored(q)
  BY DEF Lone
<1>4. Isolated(q)'
  BY <1>1, <1>2, <1>3 DEF Isolated, SameReader, Slots
<1>5. Descriptors(q)' /\ Settings(q)'
  BY <1>2, <1>3, ReaderDescriptors DEF Settings
<1>6. Collecting(q) => Collecting(q)'
  BY <1>2 DEF Collecting, Files
<1>7. Xored(q) => Xored(q)'
  BY <1>2 DEF Xored, OwnOutput, Files
<1>8. QED
  BY <1>3, <1>4, <1>5, <1>6, <1>7 DEF Lone

\* The element of a reader that does nothing.
LEMMA ElementKept ==
  ASSUME NEW q \in Requests, NEW j \in Slots, Element(q, j), co'[q].pc = co[q].pc,
         slot'[j] = slot[j], SameReader(<<q, j>>),
         heap'[<<q, j>>].st = "none" => heap[<<q, j>>].st = "none"
  PROVE  Element(q, j)'
<1>1. /\ co[q].pc # "fill" => slot[j].path = q
      /\ rd[<<q, j>>].pc \in {"none", "socket", "socket2", "connect", "header", "alloc", "arm"} =>
           \A k \in Bufs : slot[j].flag[k] = 0
      /\ rd[<<q, j>>].pc \in {"arm", "loop", "store", "close"} => slot[j].ptr = <<q, j>>
      /\ rd[<<q, j>>].pc \in {"loop", "store"} =>
           slot[j].ev = <<q, j>> /\ slot[j].fd = rd[<<q, j>>].fd
      /\ slot[j].ptr = <<q, j>> => heap[<<q, j>>].st # "none"
      /\ \A k \in Bufs : slot[j].flag[k] # 0 => slot[j].ptr = <<q, j>>
      /\ \A k \in Bufs : slot[j].size[k] = IF slot[j].flag[k] = 2 THEN 1 ELSE 0
  BY DEF Element
<1>2. Bufs' = Bufs
  BY DEF Bufs
<1>3. QED
  BY <1>1, <1>2 DEF Element, SameReader

\* The counters agree with the array as long as the same buffers are full.
LEMMA CountsKept ==
  ASSUME Types, NEW q \in Requests, Files(q)' = Files(q),
         \A j \in Files(q), k \in Bufs : slot'[j].flag[k] = 2 <=> slot[j].flag[k] = 2
  PROVE  /\ \A k \in Bufs : Full(q, k)' = Full(q, k)
         /\ g'.full = g.full /\ Counts(q) => Counts(q)'
<1>1. \A k \in Bufs : Full(q, k)' = Full(q, k)
  BY DEF Full
<1>2. QED
  BY <1>1 DEF Counts, Bufs

\* The readers that have started are those of the files.
LEMMA FilesFacts ==
  ASSUME Types, Outsiders, NEW q \in Requests
  PROVE  /\ Files(q) \subseteq Slots
         /\ \A i \in Slots : rd[<<q, i>>].pc # "none" => i \in Files(q)
<1>1. co[q].files \in Slots
  BY DEF Types, CoType, Coordinators
<1>2. Files(q) \subseteq Slots
  BY <1>1, Constants DEF Files, Slots
<1>3. \A i \in Slots : rd[<<q, i>>].pc # "none" => i \in Files(q)
  BY ThreadFacts DEF Outsiders
<1>4. QED
  BY <1>2, <1>3

\* A step after which the elements and the data are where they were, and at most
\* some buffers are freed.
LEMMA QuietStep ==
  ASSUME Types, Outsiders, NEW q \in Requests, NEW i \in Slots, Start(q), Busy(q), Lone(q),
         Reader(<<q, i>>), ~Exit,
         UNCHANGED slot,
         g' = g \/ g' = [g EXCEPT !.correct = -1],
         \A s \in Sockets : sock'[s].data = sock[s].data,
         \A u \in Threads : heap'[u] = heap[u] \/ heap'[u].st = "freed",
         \/ rd'[<<q, i>>].pc = "end"
         \/ rd[<<q, i>>].pc \in Early /\ rd'[<<q, i>>].pc \in Early
         \/ /\ rd[<<q, i>>].pc = "loop" /\ rd'[<<q, i>>].pc \in {"loop", "close"}
            /\ rd'[<<q, i>>].fd = rd[<<q, i>>].fd
  PROVE  Lone(q)'
<1> DEFINE t == <<q, i>>
<1>1. /\ \A p \in Requests, j \in Slots : <<p, j>> \in Threads
      /\ Files(q)' = Files(q) /\ Files(q) \subseteq Slots
  <2>1. co'[q].files = co[q].files
    BY ReaderFrame, ThreadFacts
  <2>2. QED
    BY <2>1, ThreadFacts, FilesFacts DEF Files
<1>2. /\ UNCHANGED co
      /\ \A u \in Threads : u # t => SameReader(u)
  <2> HIDE DEF t
  <2>1. QED
    BY <1>1, ReaderFrame DEF t
<1>3. /\ g'.file_size = g.file_size /\ g'.file_num = g.file_num /\ g'.full = g.full
      /\ g'.xor_size = g.xor_size /\ g'.xor_flag = g.xor_flag
  BY DEF Types, GroupType, Groups
<1>4. ASSUME Collecting(q)
      PROVE  /\ \A j \in Files(q) : Element(q, j)'
             /\ Counts(q)' /\ OnePlace(q)' /\ Once(q)' /\ Asked(q)'
  <2>1. ASSUME NEW j \in Files(q)
        PROVE  Element(q, j)'
    <3>1. /\ j \in Slots /\ Element(q, j) /\ slot'[j] = slot[j]
          /\ heap'[<<q, j>>].st = "none" => heap[<<q, j>>].st = "none"
      BY <1>1, <1>4 DEF Collecting
    <3>2. CASE j # i
      <4>1. SameReader(<<q, j>>)
        BY <1>1, <1>2, <3>1, <3>2
      <4>2. QED
        BY <1>2, <3>1, <4>1, ElementKept
    <3>3. CASE j = i
      <4>1. /\ co[q].pc # "fill" => slot[j].path = q
            /\ rd[t].pc \in Early => \A k \in Bufs : slot[j].flag[k] = 0
            /\ rd[t].pc = "loop" => slot[j].ptr = t /\ slot[j].ev = t /\ slot[j].fd = rd[t].fd
            /\ slot[j].ptr = t => heap[t].st # "none"
            /\ \A k \in Bufs : slot[j].flag[k] # 0 => slot[j].ptr = t
            /\ \A k \in Bufs : slot[j].size[k] = IF slot[j].flag[k] = 2 THEN 1 ELSE 0
        BY <3>1, <3>3 DEF Element, Early
      <4>2. Bufs' = Bufs
        BY DEF Bufs
      <4>3. QED
        BY <1>2, <3>1, <3>3, <4>1, <4>2 DEF Element, Early
    <3>4. QED
      BY <3>2, <3>3
  <2>2. Counts(q)'
    BY <1>1, <1>3, <1>4, CountsKept DEF Collecting
  <2>3. \A k \in Bufs : Full(q, k)' = Full(q, k)
    BY <1>1, CountsKept
  <2>4. \A s \in OwnSockets(q) : Waiting(s)' = Waiting(s)
    BY DEF OwnSockets, Waiting
  <2>5. \A j \in Slots : Hand(<<q, j>>)' \subseteq Hand(<<q, j>>)
    BY <1>1, <1>2 DEF Hand, SameReader, Early
  <2>6. \A j \in Slots, k \in Bufs : Kept(q, j, k)' \subseteq Kept(q, j, k)
    BY <1>1, <2>3 DEF Kept
  <2>7. \A u \in Threads : rd[u].pc \notin Early => rd'[u].pc \notin Early
    BY <1>2 DEF SameReader, Early
  <2>8. OnePlace(q)' /\ Asked(q)'
    BY <1>1, <1>4, <2>4, <2>5, <2>6, <2>7, UnitsStay DEF Collecting
  <2>9. Once(q)'
    <3>1. OwnSockets(q)' = OwnSockets(q)
      BY DEF OwnSockets, Sockets, Threads, Slots
    <3>2. QED
      BY <1>4, <3>1 DEF Once, OwnSockets, Collecting
  <2>10. QED
    BY <2>1, <2>2, <2>8, <2>9
<1>5. QED
  BY <1>3, <1>4, LoneByReader

\* A step of a lone request's reader that stores nothing keeps its invariant.
LEMMA LoneByQuiet ==
  ASSUME Types, Outsiders, NEW q \in Requests, NEW i \in Slots, Start(q), Busy(q), Lone(q), ~Exit,
         NEW t, t = <<q, i>>,
         \/ FirstSocket(t) \/ SecondSocket(t) \/ Connect(t)
         \/ CallbackFrees(t) \/ CallbackEnds(t) \/ LoopEnds(t) \/ LastClose(t)
  PROVE  Lone(q)'
<1>1. /\ t \in Threads /\ t[2] \in Slots
      /\ rd \in [Threads -> Readers] /\ slot \in [Slots -> Elements]
      /\ sock \in [Sockets \cup Clients -> Connections]
  BY ThreadFacts DEF Types, RdType, GroupType, TableType
<1>2. Reader(t)
  BY DEF Reader
<1>3. ASSUME GiveUp(t), UNCHANGED <<slot, sock, heap>>
      PROVE  Lone(q)'
  <2>1. rd'[t].pc = "end" /\ g' = [g EXCEPT !.correct = -1]
    BY <1>1, <1>3 DEF GiveUp, End, NewThread
  <2>2. QED
    BY <1>2, <1>3, <2>1, QuietStep
<1>4. ASSUME UNCHANGED <<g, slot, sock, heap>>,
             \/ rd'[t].pc = "end"
             \/ rd[t].pc \in Early /\ rd'[t].pc \in Early
             \/ rd[t].pc = "loop" /\ rd'[t].pc \in {"loop", "close"} /\ rd'[t].fd = rd[t].fd
      PROVE  Lone(q)'
  BY <1>2, <1>4, QuietStep
<1>5. CASE FirstSocket(t)
  <2>1. CASE GiveUp(t)
    BY <1>3, <1>5, <2>1 DEF FirstSocket
  <2>2. CASE Goto(t, "socket2") /\ UNCHANGED g
    <3>1. rd[t].pc = "socket" /\ rd'[t].pc = "socket2"
      BY <1>1, <1>5, <2>2 DEF FirstSocket, Goto, Readers
    <3>2. QED
      BY <1>4, <1>5, <2>2, <3>1 DEF FirstSocket, Early
  <2>3. QED
    BY <1>5, <2>1, <2>2 DEF FirstSocket
<1>6. CASE SecondSocket(t)
  <2>1. CASE GiveUp(t)
    BY <1>3, <1>6, <2>1 DEF SecondSocket
  <2>2. CASE rd' = [rd EXCEPT ![t].pc = "connect", ![t].fd = Min(Free)] /\ UNCHANGED g
    <3>1. rd[t].pc = "socket2" /\ rd'[t].pc = "connect"
      BY <1>1, <1>6, <2>2 DEF SecondSocket, Readers
    <3>2. QED
      BY <1>4, <1>6, <2>2, <3>1 DEF SecondSocket, Early
  <2>3. QED
    BY <1>6, <2>1, <2>2 DEF SecondSocket, SocketFails
<1>7. CASE Connect(t)
  <2>1. CASE GiveUp(t) /\ UNCHANGED sock
    BY <1>3, <1>7, <2>1 DEF Connect
  <2>2. ASSUME NEW s \in Sockets, sock' = [sock EXCEPT ![s].st = "open"], Goto(t, "header"),
               UNCHANGED g
        PROVE  Lone(q)'
    <3>1. \A x \in Sockets : sock'[x].data = sock[x].data
      BY <1>1, <2>2 DEF Connections
    <3>2. rd[t].pc = "connect" /\ rd'[t].pc = "header"
      BY <1>1, <1>7, <2>2 DEF Connect, Goto, Readers
    <3>3. UNCHANGED <<slot, heap>>
      BY <1>7 DEF Connect
    <3>4. QED
      BY <1>2, <2>2, <3>1, <3>2, <3>3, QuietStep DEF Early
  <2>3. QED
    BY <1>7, <2>1, <2>2 DEF Connect
<1>8. CASE CallbackFrees(t)
  <2>1. /\ rd[t].pc = "loop" /\ \E P : heap' = Freed(P)
        /\ UNCHANGED <<g, slot, rd, sock>>
    BY <1>8 DEF CallbackFrees, Fires
  <2>2. \A u \in Threads : heap'[u] = heap[u] \/ heap'[u].st = "freed"
    BY <2>1 DEF Freed
  <2>3. QED
    BY <1>2, <2>1, <2>2, QuietStep
<1>9. CASE CallbackEnds(t)
  <2> DEFINE e == slot[t[2]].ev
  <2>1. /\ rd[t].pc = "loop" /\ UNCHANGED <<slot, heap, sock>>
        /\ g' = g \/ g' = [g EXCEPT !.correct = -1]
        /\ rd' = [rd EXCEPT ![e].quit = TRUE] \/ UNCHANGED rd
    BY <1>9 DEF CallbackEnds, Fires
  <2> HIDE DEF e
  <2>2. rd'[t].pc = "loop" /\ rd'[t].fd = rd[t].fd
    BY <1>1, <2>1 DEF Readers
  <2>3. QED
    BY <1>2, <2>1, <2>2, QuietStep
<1>10. CASE LoopEnds(t)
  <2>1. rd[t].pc = "loop" /\ rd'[t].pc = "close" /\ rd'[t].fd = rd[t].fd
    BY <1>1, <1>10 DEF LoopEnds, Goto, Readers
  <2>2. QED
    BY <1>4, <1>10, <2>1 DEF LoopEnds
<1>11. CASE LastClose(t)
  <2>1. rd'[t].pc = "end"
    BY <1>1, <1>11 DEF LastClose, End, NewThread
  <2>2. QED
    BY <1>4, <1>11, <2>1 DEF LastClose
<1>12. QED
  BY <1>5, <1>6, <1>7, <1>8, <1>9, <1>10, <1>11

\* A step in which reader i changes its element and its buffers, but no unit in
\* a buffer that is full.
LEMMA ElementStep ==
  ASSUME Types, Outsiders, NEW q \in Requests, NEW i \in Slots, Start(q), Busy(q), Lone(q),
         Reader(<<q, i>>), ~Exit, UNCHANGED <<g, sock>>,
         \A j \in Slots : j # i => slot'[j] = slot[j],
         rd[<<q, i>>].pc \notin Early, rd'[<<q, i>>].pc \notin Early,
         rd'[<<q, i>>].pc = "store" =>
           rd[<<q, i>>].pc = "store" /\ rd'[<<q, i>>].hand = rd[<<q, i>>].hand,
         Element(q, i) /\ co[q].pc # "fill" =>
           /\ Element(q, i)'
           /\ \A u \in Threads : u # <<q, i>> => heap'[u] = heap[u]
           /\ \A k \in Bufs :
                /\ slot'[i].flag[k] = 2 <=> slot[i].flag[k] = 2
                /\ slot[i].flag[k] = 2 /\ heap'[<<q, i>>].st = "live" =>
                     /\ heap[<<q, i>>].st = "live"
                     /\ heap'[<<q, i>>].unit[k] = heap[<<q, i>>].unit[k]
  PROVE  Lone(q)'
<1> DEFINE t == <<q, i>>
<1>1. /\ \A p \in Requests, j \in Slots : <<p, j>> \in Threads
      /\ Files(q)' = Files(q) /\ Files(q) \subseteq Slots /\ i \in Files(q)
  <2>1. co'[q].files = co[q].files /\ rd[t].pc # "none"
    BY ReaderFrame, ThreadFacts DEF Early
  <2>2. QED
    BY <2>1, ThreadFacts, FilesFacts DEF Files
<1>2. /\ UNCHANGED co
      /\ \A u \in Threads : u # t => SameReader(u)
  <2> HIDE DEF t
  <2>1. QED
    BY <1>1, ReaderFrame DEF t
<1>3. co[q].pc # "fill"
  BY ReaderDescriptors DEF Lone
<1>4. ASSUME Collecting(q)
      PROVE  /\ \A j \in Files(q) : Element(q, j)'
             /\ Counts(q)' /\ OnePlace(q)' /\ Once(q)' /\ Asked(q)'
  <2>1. ASSUME NEW j \in Files(q), j # i
        PROVE  Element(q, j)'
    <3>1. /\ j \in Slots /\ Element(q, j) /\ slot'[j] = slot[j]
          /\ <<q, j>> \in Threads /\ <<q, j>> # t /\ SameReader(<<q, j>>)
      BY <1>1, <1>2, <1>4, <2>1 DEF Collecting
    <3>2. heap'[<<q, j>>].st = "none" => heap[<<q, j>>].st = "none"
      BY <1>1, <1>3, <1>4, <3>1 DEF Collecting
    <3>3. QED
      BY <1>2, <3>1, <3>2, ElementKept
  <2>2. /\ Element(q, i)'
        /\ \A u \in Threads : u # t => heap'[u] = heap[u]
        /\ \A k \in Bufs :
             /\ slot'[i].flag[k] = 2 <=> slot[i].flag[k] = 2
             /\ slot[i].flag[k] = 2 /\ heap'[<<q, i>>].st = "live" =>
                  /\ heap[<<q, i>>].st = "live"
                  /\ heap'[<<q, i>>].unit[k] = heap[<<q, i>>].unit[k]
    BY <1>1, <1>3, <1>4 DEF Collecting
  <2>3. \A j \in Files(q), k \in Bufs : slot'[j].flag[k] = 2 <=> slot[j].flag[k] = 2
    BY <1>1, <2>2
  <2>4. /\ Counts(q)'
        /\ \A k \in Bufs : Full(q, k)' = Full(q, k)
    BY <1>1, <1>4, <2>3, CountsKept DEF Collecting
  <2>5. \A s \in OwnSockets(q) : Waiting(s)' = Waiting(s)
    BY DEF OwnSockets, Waiting
  <2>6. \A j \in Slots : Hand(<<q, j>>)' \subseteq Hand(<<q, j>>)
    BY <1>1, <1>2 DEF Hand, SameReader
  <2>7. \A j \in Slots, k \in Bufs : Kept(q, j, k)' \subseteq Kept(q, j, k)
    <3>1. ASSUME NEW j \in Slots, NEW k \in Bufs
          PROVE  Kept(q, j, k)' \subseteq Kept(q, j, k)
      <4>1. CASE j # i
        BY <1>1, <2>2, <2>4, <4>1 DEF Kept
      <4>2. CASE j = i
        BY <2>2, <2>4, <4>2 DEF Kept, Full
      <4>3. QED
        BY <4>1, <4>2
    <3>2. QED
      BY <3>1
  <2>8. \A u \in Threads : rd[u].pc \notin Early => rd'[u].pc \notin Early
    BY <1>2 DEF SameReader
  <2>9. OnePlace(q)' /\ Asked(q)'
    BY <1>1, <1>4, <2>5, <2>6, <2>7, <2>8, UnitsStay DEF Collecting
  <2>10. Once(q)'
    <3>1. OwnSockets(q)' = OwnSockets(q)
      BY DEF OwnSockets, Sockets, Threads, Slots
    <3>2. QED
      BY <1>4, <3>1 DEF Once, OwnSockets, Collecting
  <2>11. QED
    BY <2>1, <2>2, <2>4, <2>9, <2>10
<1>5. QED
  BY <1>4, LoneByReader

\* A lone request's reader that prepares its element keeps its invariant.
LEMMA LoneByAllocArm ==
  ASSUME Types, Outsiders, NEW q \in Requests, NEW i \in Slots, Start(q), Busy(q), Lone(q), ~Exit,
         NEW t, t = <<q, i>>, Alloc(t) \/ Arm(t) \/ Prepare(t)
  PROVE  Lone(q)'
<1>1. /\ t \in Threads /\ t[2] = i /\ t[1] = q
      /\ rd \in [Threads -> Readers] /\ slot \in [Slots -> Elements] /\ heap \in [Threads -> Buffers]
  BY ThreadFacts DEF Types, RdType, GroupType, TableType
<1>2. Reader(t) /\ UNCHANGED co
  BY DEF Reader, Alloc, Arm, Prepare
<1>3. Bufs' = Bufs
  BY DEF Bufs
<1>4. slot[i] \in Elements /\ slot[i].flag \in [Bufs -> 0..2] /\ slot[i].size \in [Bufs -> Nat]
  BY <1>1 DEF Elements
<1>5. ASSUME Element(q, i), co[q].pc # "fill"
      PROVE  /\ slot[i].path = q
             /\ rd[t].pc \in {"alloc", "arm"} => \A k \in Bufs : slot[i].flag[k] = 0
             /\ rd[t].pc \in {"arm", "store"} => slot[i].ptr = t
             /\ rd[t].pc = "store" => slot[i].ev = t /\ slot[i].fd = rd[t].fd
             /\ slot[i].ptr = t => heap[t].st # "none"
             /\ \A k \in Bufs : slot[i].size[k] = IF slot[i].flag[k] = 2 THEN 1 ELSE 0
  BY <1>5 DEF Element
<1>6. CASE Alloc(t)
  <2>1. /\ rd[t].pc = "alloc" /\ rd'[t].pc \in {"arm", "end"} /\ UNCHANGED <<g, sock>>
        /\ \A u \in Threads : u # t => heap'[u] = heap[u]
        /\ \A j \in Slots : j # i => slot'[j] = slot[j]
        /\ heap'[t].st = "live" /\ slot'[i] = [slot[i] EXCEPT !.ptr = t]
    BY <1>1, <1>6 DEF Alloc, Goto, End, NewThread, Readers, Buffers
  <2>2. /\ slot'[i].ptr = t /\ slot'[i].flag = slot[i].flag /\ slot'[i].size = slot[i].size
        /\ slot'[i].path = slot[i].path
    BY <1>4, <2>1 DEF Elements
  <2>3. ASSUME Element(q, i), co[q].pc # "fill"
        PROVE  /\ Element(q, i)'
               /\ \A k \in Bufs : slot'[i].flag[k] # 2 /\ slot[i].flag[k] # 2
    BY <1>1, <1>2, <1>3, <1>5, <2>1, <2>2, <2>3 DEF Element
  <2>4. Element(q, i) /\ co[q].pc # "fill" =>
          /\ Element(q, i)'
          /\ \A u \in Threads : u # <<q, i>> => heap'[u] = heap[u]
          /\ \A k \in Bufs :
               /\ slot'[i].flag[k] = 2 <=> slot[i].flag[k] = 2
               /\ slot[i].flag[k] = 2 /\ heap'[<<q, i>>].st = "live" =>
                    /\ heap[<<q, i>>].st = "live"
                    /\ heap'[<<q, i>>].unit[k] = heap[<<q, i>>].unit[k]
    BY <2>1, <2>3
  <2>5. QED
    BY <1>2, <2>1, <2>4, ElementStep DEF Early
<1>7. CASE Arm(t)
  <2> DEFINE l == IF fds[rd[t].fd] \in Sockets THEN "loop" ELSE "close"
             s == fds[rd[t].fd]
             f == [k \in Bufs |-> 1 - k]
  <2>1. /\ rd[t].pc = "arm" /\ UNCHANGED <<g, sock, heap>>
        /\ rd' = [rd EXCEPT ![t].pc = l, ![t].watch = s]
        /\ slot' = [slot EXCEPT ![i] = [slot[i] EXCEPT !.flag = f, !.fd = rd[t].fd, !.ev = t]]
        /\ l \in {"loop", "close"}
    BY <1>1, <1>7 DEF Arm
  <2>2. \A k \in Bufs : f[k] # 2
    BY DEF Bufs
  <2> HIDE DEF l, s, f
  <2>3. /\ slot'[i].ptr = slot[i].ptr /\ slot'[i].flag = f /\ slot'[i].size = slot[i].size
        /\ slot'[i].path = slot[i].path /\ slot'[i].fd = rd[t].fd /\ slot'[i].ev = t
        /\ \A j \in Slots : j # i => slot'[j] = slot[j]
    BY <1>1, <1>4, <2>1 DEF Elements
  <2>4. rd'[t].pc = l /\ rd'[t].fd = rd[t].fd
    BY <1>1, <2>1 DEF Readers
  <2>5. ASSUME Element(q, i), co[q].pc # "fill"
        PROVE  /\ Element(q, i)'
               /\ \A k \in Bufs : slot'[i].flag[k] # 2 /\ slot[i].flag[k] # 2
    BY <1>1, <1>2, <1>3, <1>5, <2>1, <2>2, <2>3, <2>4, <2>5 DEF Element
  <2>6. QED
    BY <1>2, <2>1, <2>3, <2>4, <2>5, ElementStep DEF Early
<1>8. CASE Prepare(t)
  <2> DEFINE k == IF slot[i].flag[0] = 0 THEN 0 ELSE 1
  <2>1. /\ rd[t].pc = "store" /\ UNCHANGED <<g, sock, rd>> /\ slot[i].flag[k] = 0
        /\ slot' = [slot EXCEPT ![i] = [slot[i] EXCEPT !.flag[k] = 1, !.size[k] = 0]]
        /\ heap' = [heap EXCEPT ![slot[i].ptr].unit[k] = Fresh[k]]
        /\ k \in Bufs
    <3>1. k \in Bufs
      BY DEF Bufs
    <3>2. /\ rd[t].pc = "store" /\ UNCHANGED <<g, sock, rd>> /\ slot[i].flag[k] = 0
          /\ slot' = [slot EXCEPT ![i].flag[k] = 1, ![i].size[k] = 0]
          /\ heap' = [heap EXCEPT ![slot[i].ptr].unit[k] = Fresh[k]]
      BY <1>1, <1>8 DEF Prepare
    <3> HIDE DEF k
    <3>3. slot' = [slot EXCEPT ![i] = [slot[i] EXCEPT !.flag[k] = 1, !.size[k] = 0]]
      BY <1>1, <1>4, <3>2 DEF Elements
    <3>4. QED
      BY <3>1, <3>2, <3>3
  <2> HIDE DEF k
  <2>2. /\ slot'[i].ptr = slot[i].ptr /\ slot'[i].path = slot[i].path
        /\ slot'[i].fd = slot[i].fd /\ slot'[i].ev = slot[i].ev
        /\ slot'[i].flag = [slot[i].flag EXCEPT ![k] = 1]
        /\ slot'[i].size = [slot[i].size EXCEPT ![k] = 0]
        /\ \A j \in Slots : j # i => slot'[j] = slot[j]
    BY <1>1, <1>4, <2>1 DEF Elements
  <2>3. /\ slot'[i].flag[k] = 1 /\ slot'[i].size[k] = 0
        /\ \A m \in Bufs : m # k => /\ slot'[i].flag[m] = slot[i].flag[m]
                                    /\ slot'[i].size[m] = slot[i].size[m]
    BY <1>4, <2>1, <2>2
  <2>4. /\ \A u \in Threads : heap'[u].st = heap[u].st
        /\ \A u \in Threads : u # slot[i].ptr => heap'[u] = heap[u]
        /\ \A u \in Threads, m \in Bufs : m # k => heap'[u].unit[m] = heap[u].unit[m]
    BY <1>1, <2>1 DEF Buffers
  <2>5. ASSUME Element(q, i), co[q].pc # "fill"
        PROVE  /\ Element(q, i)'
               /\ \A m \in Bufs : slot'[i].flag[m] = 2 <=> slot[i].flag[m] = 2
               /\ slot[i].ptr = t
    <3>1. \A m \in Bufs : slot'[i].size[m] = IF slot'[i].flag[m] = 2 THEN 1 ELSE 0
      BY <1>5, <2>3, <2>5
    <3>2. QED
      BY <1>1, <1>2, <1>3, <1>5, <2>1, <2>2, <2>3, <2>4, <2>5, <3>1 DEF Element
  <2>6. ASSUME Element(q, i), co[q].pc # "fill"
        PROVE  /\ Element(q, i)'
               /\ \A u \in Threads : u # t => heap'[u] = heap[u]
               /\ \A m \in Bufs :
                    /\ slot'[i].flag[m] = 2 <=> slot[i].flag[m] = 2
                    /\ slot[i].flag[m] = 2 /\ heap'[t].st = "live" =>
                         heap[t].st = "live" /\ heap'[t].unit[m] = heap[t].unit[m]
    <3>1. ASSUME NEW m \in Bufs, slot[i].flag[m] = 2
          PROVE  heap'[t].unit[m] = heap[t].unit[m]
      BY <1>1, <2>1, <2>4, <3>1
    <3>2. QED
      BY <1>1, <2>4, <2>5, <2>6, <3>1
  <2>7. QED
    BY <1>2, <2>1, <2>2, <2>6, ElementStep DEF Early
<1>9. QED
  BY <1>6, <1>7, <1>8

\* What every step of reader i leaves alone.
LEMMA ReaderBasics ==
  ASSUME Types, Outsiders, NEW q \in Requests, NEW i \in Slots, Start(q), Busy(q), Lone(q),
         Reader(<<q, i>>), ~Exit
  PROVE  /\ \A j \in Slots : <<q, j>> \in Threads
         /\ Files(q)' = Files(q) /\ Files(q) \subseteq Slots /\ i \in Files(q)
         /\ Bufs' = Bufs /\ OwnSockets(q)' = OwnSockets(q)
         /\ UNCHANGED co /\ co[q].pc # "fill"
         /\ \A u \in Threads : u # <<q, i>> => SameReader(u)
<1> DEFINE t == <<q, i>>
<1>1. \A p \in Requests, j \in Slots : <<p, j>> \in Threads
  BY ThreadFacts
<1>2. /\ UNCHANGED co /\ rd[t].pc # "none"
      /\ \A u \in Threads : u # t => SameReader(u)
  <2> HIDE DEF t
  <2>1. QED
    BY <1>1, ReaderFrame DEF t
<1>3. co[q].pc # "fill"
  BY ReaderDescriptors DEF Lone
<1>4. Bufs' = Bufs /\ OwnSockets(q)' = OwnSockets(q)
  BY DEF Bufs, OwnSockets, Sockets, Threads, Slots
<1>5. Files(q)' = Files(q) /\ Files(q) \subseteq Slots /\ i \in Files(q)
  BY <1>2, FilesFacts DEF Files
<1>6. QED
  BY <1>1, <1>2, <1>3, <1>4, <1>5

\* Reader i asks for its unit: it comes to a socket of the request.
LEMMA LoneByHeader ==
  ASSUME Types, Outsiders, NEW q \in Requests, NEW i \in Slots, Start(q), Busy(q), Lone(q), ~Exit,
         NEW t, t = <<q, i>>, Header(t)
  PROVE  Lone(q)'
<1>1. /\ t \in Threads /\ t[2] = i /\ t[1] = q /\ q # 0
      /\ rd \in [Threads -> Readers] /\ slot \in [Slots -> Elements]
      /\ sock \in [Sockets \cup Clients -> Connections]
  BY ThreadFacts, Constants DEF Types, RdType, GroupType, TableType
<1>2. Reader(t)
  BY DEF Reader
<1>3. rd[t].pc = "header"
  BY DEF Header
<1>4. CASE GiveUp(t) /\ UNCHANGED sock
  <2>1. rd'[t].pc = "end" /\ g' = [g EXCEPT !.correct = -1]
    BY <1>1, <1>4 DEF GiveUp, End, NewThread
  <2>2. UNCHANGED <<slot, heap>>
    BY DEF Header
  <2>3. QED
    BY <1>2, <1>4, <2>1, <2>2, QuietStep
<1>5. ASSUME NEW s \in Sockets, s = fds[rd[t].fd], Goto(t, "alloc"), UNCHANGED g,
             sock' = [sock EXCEPT ![s] = Served(@, <<slot[t[2]].path, t[2]>>)]
      PROVE  Lone(q)'
  <2>1. /\ \A j \in Slots : <<q, j>> \in Threads
        /\ Files(q)' = Files(q) /\ Files(q) \subseteq Slots /\ i \in Files(q)
        /\ Bufs' = Bufs /\ OwnSockets(q)' = OwnSockets(q)
        /\ UNCHANGED co /\ co[q].pc # "fill"
        /\ \A u \in Threads : u # t => SameReader(u)
    BY <1>2, ReaderBasics
  <2>2. s \in OwnSockets(q)
    BY <1>3, <1>5 DEF Lone, Descriptors, HasSocket
  <2>3. UNCHANGED <<g, slot, heap>> /\ rd'[t].pc = "alloc" /\ rd'[t].fd = rd[t].fd
    BY <1>1, <1>5 DEF Header, Goto, Readers
  <2>4. ASSUME Collecting(q)
        PROVE  /\ \A j \in Files(q) : Element(q, j)'
               /\ Counts(q)' /\ OnePlace(q)' /\ Once(q)' /\ Asked(q)'
    <3>1. ASSUME NEW j \in Files(q)
          PROVE  Element(q, j)'
      <4>1. j \in Slots /\ Element(q, j)
        BY <2>1, <2>4 DEF Collecting
      <4>2. CASE j # i
        <5>1. SameReader(<<q, j>>)
          BY <2>1, <4>1, <4>2
        <5>2. QED
          BY <2>1, <2>3, <4>1, <5>1, ElementKept
      <4>3. CASE j = i
        BY <1>3, <2>1, <2>3, <4>1, <4>3 DEF Element
      <4>4. QED
        BY <4>2, <4>3
    <3>2. /\ Counts(q)'
          /\ \A k \in Bufs : Full(q, k)' = Full(q, k)
      BY <2>1, <2>3, <2>4, CountsKept DEF Collecting
    <3>3. slot[i].path = q
      BY <2>1, <2>4 DEF Collecting, Element
    <3>4. /\ sock'[s].data = Append(sock[s].data, t) /\ sock[s].data \in Seq(Threads)
          /\ \A x \in Sockets : x # s => sock'[x] = sock[x]
      <4>1. s \in Sockets /\ sock[s] \in Connections
        BY <1>1, <1>5
      <4>2. sock'[s] = Served(sock[s], <<q, i>>)
        BY <1>1, <1>5, <3>3, <4>1
      <4>3. QED
        BY <1>1, <1>5, <4>1, <4>2 DEF Served, Connections
    <3>5. \A x \in Places(q) : t \notin In(q, x)
      BY <1>3, <2>4 DEF Collecting, Asked
    <3>6. t \notin Waiting(s)
      BY <2>2, <3>5, PlaceFacts
    <3>7. Waiting(s)' \subseteq Waiting(s) \cup {t}
      BY <3>4 DEF Waiting
    <3>8. Once(q)'
      <4>1. ASSUME NEW x \in OwnSockets(q), NEW m \in 1..Len(sock'[x].data),
                   NEW n \in 1..Len(sock'[x].data), sock'[x].data[m] = sock'[x].data[n]
            PROVE  m = n
        <5>1. CASE x # s
          <6>1. sock'[x] = sock[x]
            BY <3>4, <5>1 DEF OwnSockets
          <6>2. QED
            BY <2>4, <4>1, <6>1 DEF Collecting, Once
        <5>2. CASE x = s
          <6> DEFINE d == sock[s].data
          <6>1. d \in Seq(Threads) /\ sock'[x].data = Append(d, t)
            BY <3>4, <5>2
          <6>2. \A y \in 1..Len(d) : d[y] # t
            BY <3>6 DEF Waiting
          <6>3. \A y, z \in 1..Len(d) : d[y] = d[z] => y = z
            BY <2>2, <2>4 DEF Collecting, Once
          <6> HIDE DEF d
          <6>4. QED
            BY <4>1, <6>1, <6>2, <6>3
        <5>3. QED
          BY <5>1, <5>2
      <4>2. QED
        BY <2>1, <4>1 DEF Once
    <3>9. OnePlace(q)' /\ Asked(q)'
      <4> DEFINE y == <<"socket", s>>
      <4>1. y \in Places(q) /\ In(q, y)' \subseteq In(q, y) \cup {t}
        BY <2>2, <3>7, PlaceFacts
      <4>2. ASSUME NEW x \in Places(q), x # y
            PROVE  In(q, x)' \subseteq In(q, x)
        <5>1. ASSUME NEW z \in OwnSockets(q), x = <<"socket", z>>
              PROVE  In(q, x)' \subseteq In(q, x)
          <6>1. sock'[z] = sock[z]
            BY <3>4, <4>2, <5>1 DEF OwnSockets
          <6>2. QED
            BY <5>1, <6>1, PlaceFacts DEF Waiting
        <5>2. ASSUME NEW j \in Slots, x = <<"hand", <<q, j>>>>
              PROVE  In(q, x)' \subseteq In(q, x)
          <6>1. Hand(<<q, j>>)' \subseteq Hand(<<q, j>>)
            BY <2>1, <2>3 DEF Hand, SameReader
          <6>2. QED
            BY <5>2, <6>1, PlaceFacts
        <5>3. ASSUME NEW j \in Slots, NEW k \in Bufs, x = <<"buffer", <<j, k>>>>
              PROVE  In(q, x)' \subseteq In(q, x)
          <6>1. Kept(q, j, k)' \subseteq Kept(q, j, k)
            BY <2>3, <3>2 DEF Kept
          <6>2. QED
            BY <5>3, <6>1, PlaceFacts
        <5>4. QED
          BY <5>1, <5>2, <5>3, PlaceFacts
      <4>3. \A x \in Places(q) : x # y => In(q, x)' \subseteq In(q, x) \ {t}
        BY <3>5, <4>2
      <4>4. \A u \in {t} : u \in Threads /\ u[1] = q /\ u[2] \in Files(q) /\ rd'[u].pc \notin Early
        BY <1>1, <2>1, <2>3 DEF Early
      <4>5. \A u \in Threads : rd[u].pc \notin Early => rd'[u].pc \notin Early
        BY <1>3, <2>1 DEF SameReader, Early
      <4> HIDE DEF y
      <4>6. QED
        BY <2>1, <2>4, <4>1, <4>3, <4>4, <4>5, UnitsMove DEF Collecting
    <3>10. QED
      BY <3>1, <3>2, <3>8, <3>9
  <2>5. QED
    BY <1>2, <2>3, <2>4, LoneByReader
<1>6. QED
  BY <1>4, <1>5 DEF Header

\* A unit is taken off a sequence in which each occurs once.
LEMMA TakeHead ==
  ASSUME NEW S, NEW d \in Seq(S), d # << >>,
         \A m, n \in 1..Len(d) : d[m] = d[n] => m = n
  PROVE  LET r == Tail(d)
         IN  /\ \A n \in 1..Len(r) : r[n] # Head(d) /\ \E m \in 1..Len(d) : r[n] = d[m]
             /\ \A m, n \in 1..Len(r) : r[m] = r[n] => m = n
             /\ \E m \in 1..Len(d) : Head(d) = d[m]
<1> DEFINE r == Tail(d)
<1>1. Len(d) \in Nat \ {0} /\ Head(d) = d[1] /\ Len(r) = Len(d) - 1
  BY EmptySeq, HeadTailProperties
<1>2. \A n \in 1..Len(r) : r[n] = d[n + 1]
  BY <1>1, HeadTailProperties
<1>3. \A n \in 1..Len(r) : n \in Nat /\ n + 1 \in 1..Len(d) /\ n + 1 # 1
  BY <1>1
<1>4. 1 \in 1..Len(d)
  BY <1>1
<1> HIDE DEF r
<1>5. \A n \in 1..Len(r) : r[n] # Head(d) /\ \E m \in 1..Len(d) : r[n] = d[m]
  BY <1>1, <1>2, <1>3, <1>4
<1>6. ASSUME NEW m \in 1..Len(r), NEW n \in 1..Len(r), r[m] = r[n]
      PROVE  m = n
  <2>1. m + 1 = n + 1 /\ m \in Nat /\ n \in Nat
    BY <1>2, <1>3, <1>6
  <2>2. QED
    BY <2>1
<1>7. QED
  BY <1>1, <1>4, <1>5, <1>6 DEF r

\* Reader i takes a unit from a socket of the request into its hand.
LEMMA LoneByReads ==
  ASSUME Types, Outsiders, NEW q \in Requests, NEW i \in Slots, Start(q), Busy(q), Lone(q), ~Exit,
         NEW t, t = <<q, i>>, CallbackReads(t)
  PROVE  Lone(q)'
<1>1. /\ t \in Threads /\ t[2] = i /\ t[1] = q
      /\ rd \in [Threads -> Readers] /\ sock \in [Sockets \cup Clients -> Connections]
  BY ThreadFacts DEF Types, RdType, GroupType, TableType
<1>2. Reader(t)
  BY DEF Reader
<1>3. /\ \A j \in Slots : <<q, j>> \in Threads
      /\ Files(q)' = Files(q) /\ Files(q) \subseteq Slots /\ i \in Files(q)
      /\ Bufs' = Bufs /\ OwnSockets(q)' = OwnSockets(q)
      /\ UNCHANGED co /\ co[q].pc # "fill"
      /\ \A u \in Threads : u # t => SameReader(u)
  BY <1>2, ReaderBasics
<1>4. PICK s \in Sockets : /\ s = Source(t) /\ sock[s].data # << >>
                           /\ rd' = [rd EXCEPT ![t].pc = "store", ![t].hand = Head(sock[s].data)]
                           /\ sock' = [sock EXCEPT ![s].data = Tail(@)]
  BY DEF CallbackReads
<1>5. UNCHANGED <<g, slot, heap>> /\ rd[t].pc = "loop"
  BY DEF CallbackReads, Fires
<1>6. PICK d \in Seq(Threads) : d = sock[s].data /\ d # << >>
  BY <1>1, <1>4 DEF Connections
<1>7. /\ rd'[t].pc = "store" /\ rd'[t].fd = rd[t].fd /\ rd'[t].hand = Head(d)
      /\ sock'[s].data = Tail(d)
      /\ \A x \in Sockets : x # s => sock'[x] = sock[x]
  BY <1>1, <1>4, <1>6 DEF Readers, Connections
<1>8. ASSUME Collecting(q)
      PROVE  /\ \A j \in Files(q) : Element(q, j)'
             /\ Counts(q)' /\ OnePlace(q)' /\ Once(q)' /\ Asked(q)'
  <2>1. s \in OwnSockets(q)
    <3>1. slot[i].fd = rd[t].fd
      BY <1>3, <1>5, <1>8 DEF Collecting, Element
    <3>2. s = fds[rd[t].fd]
      BY <1>1, <1>4, <3>1, ThingFacts DEF Source, Lookup
    <3>3. QED
      BY <1>5, <3>2 DEF Lone, Descriptors, HasSocket
  <2>2. \A m, n \in 1..Len(d) : d[m] = d[n] => m = n
    BY <1>6, <1>8, <2>1 DEF Collecting, Once
  <2> DEFINE r == Tail(d)
  <2>3. PICK h : h = Head(d)
    OBVIOUS
  <2>4. /\ \A n \in 1..Len(r) : r[n] # h /\ \E m \in 1..Len(d) : r[n] = d[m]
        /\ \A m, n \in 1..Len(r) : r[m] = r[n] => m = n
        /\ \E m \in 1..Len(d) : h = d[m]
    <3>1. LET x == Tail(d)
          IN  /\ \A n \in 1..Len(x) : x[n] # Head(d) /\ \E m \in 1..Len(d) : x[n] = d[m]
              /\ \A m, n \in 1..Len(x) : x[m] = x[n] => m = n
              /\ \E m \in 1..Len(d) : Head(d) = d[m]
      BY <1>6, <2>2, TakeHead
    <3>2. QED
      BY <2>3, <3>1
  <2>5. ASSUME NEW j \in Files(q)
        PROVE  Element(q, j)'
    <3>1. j \in Slots /\ Element(q, j)
      BY <1>3, <1>8 DEF Collecting
    <3>2. CASE j # i
      <4>1. SameReader(<<q, j>>)
        BY <1>3, <3>1, <3>2
      <4>2. QED
        BY <1>3, <1>5, <3>1, <4>1, ElementKept
    <3>3. CASE j = i
      BY <1>3, <1>5, <1>7, <3>1, <3>3 DEF Element
    <3>4. QED
      BY <3>2, <3>3
  <2>6. /\ Counts(q)'
        /\ \A k \in Bufs : Full(q, k)' = Full(q, k)
    BY <1>3, <1>5, <1>8, CountsKept DEF Collecting
  <2>7. sock'[s].data = r
    BY <1>7
  <2> HIDE DEF r
  <2>8. /\ Waiting(s)' \subseteq Waiting(s) \ {h}
        /\ h \in Waiting(s)
    BY <1>6, <2>4, <2>7 DEF Waiting
  <2>9. Once(q)'
    <3>1. ASSUME NEW x \in OwnSockets(q), NEW m \in 1..Len(sock'[x].data),
                 NEW n \in 1..Len(sock'[x].data), sock'[x].data[m] = sock'[x].data[n]
          PROVE  m = n
      <4>1. CASE x # s
        <5>1. sock'[x] = sock[x]
          BY <1>7, <4>1 DEF OwnSockets
        <5>2. QED
          BY <1>8, <3>1, <5>1 DEF Collecting, Once
      <4>2. CASE x = s
        BY <2>4, <2>7, <3>1, <4>2
      <4>3. QED
        BY <4>1, <4>2
    <3>2. QED
      BY <1>3, <3>1 DEF Once
  <2>10. OnePlace(q)' /\ Asked(q)'
    <3> DEFINE y == <<"hand", t>>
               z == <<"socket", s>>
    <3>1. y \in Places(q) /\ z \in Places(q) /\ y # z /\ h \in In(q, z)
      BY <2>1, <2>8, PlaceFacts
    <3>2. In(q, y)' \subseteq In(q, y) \cup {h}
      <4>1. Hand(t)' \subseteq {h}
        BY <1>7, <2>3 DEF Hand
      <4>2. QED
        BY <4>1, PlaceFacts
    <3>3. ASSUME NEW x \in Places(q), x # y
          PROVE  In(q, x)' \subseteq In(q, x) \ {h}
      <4>1. x # z => h \notin In(q, x)
        BY <1>8, <3>1 DEF Collecting, OnePlace
      <4>2. ASSUME NEW w \in OwnSockets(q), x = <<"socket", w>>
            PROVE  In(q, x)' \subseteq In(q, x) \ {h}
        <5>1. CASE w = s
          BY <2>1, <2>8, <4>2, <5>1, PlaceFacts
        <5>2. CASE w # s
          <6>1. sock'[w] = sock[w]
            BY <1>7, <5>2 DEF OwnSockets
          <6>2. Waiting(w)' = Waiting(w)
            BY <6>1 DEF Waiting
          <6>3. x # z
            BY <4>2, <5>2
          <6>4. QED
            BY <4>1, <4>2, <6>2, <6>3, PlaceFacts
        <5>3. QED
          BY <5>1, <5>2
      <4>3. ASSUME NEW j \in Slots, x = <<"hand", <<q, j>>>>
            PROVE  In(q, x)' \subseteq In(q, x) \ {h}
        <5>1. Hand(<<q, j>>)' \subseteq Hand(<<q, j>>)
          BY <1>3, <3>3, <4>3 DEF Hand, SameReader
        <5>2. QED
          BY <4>1, <4>3, <5>1, PlaceFacts
      <4>4. ASSUME NEW j \in Slots, NEW k \in Bufs, x = <<"buffer", <<j, k>>>>
            PROVE  In(q, x)' \subseteq In(q, x) \ {h}
        <5>1. Kept(q, j, k)' \subseteq Kept(q, j, k)
          BY <1>5, <2>6 DEF Kept
        <5>2. QED
          BY <4>1, <4>4, <5>1, PlaceFacts
      <4>5. QED
        BY <4>2, <4>3, <4>4, PlaceFacts
    <3>4. \A u \in {h} : u \in Threads /\ u[1] = q /\ u[2] \in Files(q) /\ rd'[u].pc \notin Early
      <4>1. h \in Threads /\ h[1] = q /\ h[2] \in Files(q) /\ rd[h].pc \notin Early
        BY <1>8, <3>1 DEF Collecting, Asked, Early
      <4>2. QED
        BY <1>3, <1>7, <4>1 DEF SameReader, Early
    <3>5. \A u \in Threads : rd[u].pc \notin Early => rd'[u].pc \notin Early
      BY <1>3, <1>7 DEF SameReader, Early
    <3> HIDE DEF y, z
    <3>6. QED
      BY <1>3, <1>8, <3>1, <3>2, <3>3, <3>4, <3>5, UnitsMove DEF Collecting
  <2>11. QED
    BY <2>5, <2>6, <2>9, <2>10
<1>9. QED
  BY <1>2, <1>5, <1>8, LoneByReader

\* Reader i puts the unit in its hand into its buffer k, and counts it.
LEMMA LoneByStore ==
  ASSUME Types, Outsiders, NEW q \in Requests, NEW i \in Slots, Start(q), Busy(q), Lone(q), ~Exit,
         NEW t, t = <<q, i>>, Store(t)
  PROVE  Lone(q)'
<1>1. /\ t \in Threads /\ t[2] = i /\ t[1] = q
      /\ rd \in [Threads -> Readers] /\ slot \in [Slots -> Elements] /\ heap \in [Threads -> Buffers]
      /\ g \in Groups
  BY ThreadFacts DEF Types, RdType, GroupType, TableType
<1>2. Reader(t)
  BY DEF Reader
<1>3. /\ \A j \in Slots : <<q, j>> \in Threads
      /\ Files(q)' = Files(q) /\ Files(q) \subseteq Slots /\ i \in Files(q)
      /\ Bufs' = Bufs /\ OwnSockets(q)' = OwnSockets(q)
      /\ UNCHANGED co /\ co[q].pc # "fill"
      /\ \A u \in Threads : u # t => SameReader(u)
  BY <1>2, ReaderBasics
<1>4. slot[i] \in Elements /\ slot[i].flag \in [Bufs -> 0..2] /\ slot[i].size \in [Bufs -> Nat]
  BY <1>1 DEF Elements
<1>5. PICK k \in Bufs :
        /\ slot[i].flag[k] = 1 /\ ~Unusable(slot[i].ptr)
        /\ heap' = [heap EXCEPT ![slot[i].ptr].unit[k][slot[i].size[k] + 1] = rd[t].hand]
        /\ slot' = [slot EXCEPT ![i].size[k] = @ + 1, ![i].flag[k] = 2]
        /\ Count(k)
  <2> DEFINE k == IF slot[i].flag[0] = 1 THEN 0 ELSE 1
  <2>1. k \in Bufs
    BY DEF Bufs
  <2>2. /\ slot[i].flag[k] = 1 /\ ~Unusable(slot[i].ptr)
        /\ heap' = [heap EXCEPT ![slot[i].ptr].unit[k][slot[i].size[k] + 1] = rd[t].hand]
        /\ slot' = [slot EXCEPT ![i].size[k] = @ + 1, ![i].flag[k] = 2]
        /\ Count(k)
    BY <1>1 DEF Store
  <2> HIDE DEF k
  <2>3. QED
    BY <2>1, <2>2
<1>6. /\ UNCHANGED <<sock, fds>> /\ rd[t].pc = "store"
      /\ rd' = [rd EXCEPT ![t].pc = "loop", ![t].hand = Junk]
  BY DEF Store
<1>7. rd'[t].pc = "loop" /\ rd'[t].fd = rd[t].fd
  BY <1>1, <1>6 DEF Readers
<1>8. /\ slot'[i].ptr = slot[i].ptr /\ slot'[i].path = slot[i].path
      /\ slot'[i].fd = slot[i].fd /\ slot'[i].ev = slot[i].ev
      /\ slot'[i].flag = [slot[i].flag EXCEPT ![k] = 2]
      /\ slot'[i].size = [slot[i].size EXCEPT ![k] = slot[i].size[k] + 1]
      /\ \A j \in Slots : j # i => slot'[j] = slot[j]
  <2>1. slot' = [slot EXCEPT ![i] = [slot[i] EXCEPT !.size = [slot[i].size EXCEPT ![k] = slot[i].size[k] + 1],
                                                    !.flag = [slot[i].flag EXCEPT ![k] = 2]]]
    BY <1>1, <1>4, <1>5 DEF Elements
  <2>2. QED
    BY <1>1, <1>4, <2>1 DEF Elements
<1>9. /\ slot'[i].flag[k] = 2 /\ slot'[i].size[k] = slot[i].size[k] + 1
      /\ \A m \in Bufs : m # k => /\ slot'[i].flag[m] = slot[i].flag[m]
                                  /\ slot'[i].size[m] = slot[i].size[m]
  <2>1. DOMAIN slot[i].flag = Bufs /\ DOMAIN slot[i].size = Bufs
    BY <1>4
  <2>2. QED
    BY <1>8, <2>1
<1>10. /\ g'.file_size = g.file_size /\ g'.file_num = g.file_num
       /\ g'.xor_size = g.xor_size /\ g'.xor_flag = g.xor_flag
       /\ g'.full = [g.full EXCEPT ![k] = g.full[k] + 1] /\ g.full \in [Bufs -> Nat]
  BY <1>1, <1>5 DEF Count, Groups
<1>11. ASSUME Collecting(q)
       PROVE  /\ \A j \in Files(q) : Element(q, j)'
              /\ Counts(q)' /\ OnePlace(q)' /\ Once(q)' /\ Asked(q)'
  <2>1. Element(q, i)
    BY <1>3, <1>11 DEF Collecting
  <2>2. /\ slot[i].path = q /\ slot[i].ptr = t /\ slot[i].ev = t /\ slot[i].fd = rd[t].fd
        /\ heap[t].st # "none" /\ slot[i].size[k] = 0
        /\ \A m \in Bufs : slot[i].size[m] = IF slot[i].flag[m] = 2 THEN 1 ELSE 0
    BY <1>3, <1>5, <1>6, <2>1 DEF Element
  <2>3. heap' = [heap EXCEPT ![t].unit[k][1] = rd[t].hand]
    BY <1>5, <2>2
  <2>4. /\ \A u \in Threads : u # t => heap'[u] = heap[u]
        /\ heap'[t].st = heap[t].st /\ \A m \in Bufs : m # k => heap'[t].unit[m] = heap[t].unit[m]
        /\ heap'[t].unit[k][1] = rd[t].hand
    <3>1. 1 \in 1..MaxUnits
      BY <1>1, UnitsBound
    <3>2. heap[t] \in Buffers /\ heap[t].unit[k] \in [1..MaxUnits -> Units]
      <4> DEFINE Unit == [1..MaxUnits -> Units]
      <4>1. heap[t] \in [st : {"none", "live", "freed"}, unit : [Bufs -> Unit]]
        BY <1>1 DEF Buffers
      <4> HIDE DEF Unit
      <4>2. heap[t].unit[k] \in Unit
        BY <4>1
      <4>3. QED
        BY <1>1, <4>2 DEF Unit
    <3>3. heap' = [heap EXCEPT ![t] = [heap[t] EXCEPT !.unit[k] = [heap[t].unit[k] EXCEPT ![1] = rd[t].hand]]]
      BY <1>1, <2>3
    <3>4. [heap[t].unit[k] EXCEPT ![1] = rd[t].hand][1] = rd[t].hand
      BY <3>1, <3>2
    <3>5. QED
      BY <1>1, <3>2, <3>3, <3>4 DEF Buffers
  <2>5. ASSUME NEW j \in Files(q)
        PROVE  Element(q, j)'
    <3>1. j \in Slots /\ Element(q, j)
      BY <1>3, <1>11 DEF Collecting
    <3>2. CASE j # i
      <4>1. SameReader(<<q, j>>) /\ slot'[j] = slot[j] /\ heap'[<<q, j>>] = heap[<<q, j>>]
        BY <1>3, <1>8, <2>4, <3>1, <3>2
      <4>2. QED
        BY <1>3, <3>1, <4>1, ElementKept
    <3>3. CASE j = i
      <4>1. \A m \in Bufs : slot'[i].size[m] = IF slot'[i].flag[m] = 2 THEN 1 ELSE 0
        BY <1>9, <2>2
      <4>2. /\ co[q].pc = co'[q].pc /\ slot'[i].path = q /\ slot'[i].ptr = t
            /\ slot'[i].ev = t /\ slot'[i].fd = rd'[t].fd /\ heap'[t].st # "none"
        BY <1>3, <1>7, <1>8, <2>2, <2>4
      <4>3. Element(q, i)'
        BY <1>3, <1>7, <4>1, <4>2 DEF Element
      <4>4. QED
        BY <3>3, <4>3
    <3>4. QED
      BY <3>2, <3>3
  <2>6. /\ Full(q, k)' = Full(q, k) \cup {i} /\ i \notin Full(q, k)
        /\ \A m \in Bufs : m # k => Full(q, m)' = Full(q, m)
    <3>1. \A j \in Files(q), m \in Bufs :
            slot'[j].flag[m] = IF j = i /\ m = k THEN 2 ELSE slot[j].flag[m]
      BY <1>3, <1>8, <1>9
    <3>2. \A m \in Bufs : Full(q, m)' = {j \in Files(q) : slot'[j].flag[m] = 2}
      BY <1>3 DEF Full
    <3>3. Full(q, k)' = Full(q, k) \cup {i}
      BY <1>3, <3>1, <3>2 DEF Full
    <3>4. i \notin Full(q, k)
      BY <1>5 DEF Full
    <3>5. \A m \in Bufs : m # k => Full(q, m)' = Full(q, m)
      BY <3>1, <3>2 DEF Full
    <3>6. QED
      BY <3>3, <3>4, <3>5
  <2>7. Counts(q)'
    <3>1. IsFiniteSet(Full(q, k))
      <4>1. IsFiniteSet(Files(q))
        <5>1. co[q].files \in Int
          BY DEF Types, CoType, Coordinators, Slots
        <5>2. QED
          BY <5>1, FS_Interval DEF Files
      <4>2. QED
        BY <4>1, FS_Subset DEF Full
    <3>2. Cardinality(Full(q, k)') = Cardinality(Full(q, k)) + 1 /\ Cardinality(Full(q, k)) \in Nat
      BY <2>6, <3>1, FS_AddElement, FS_CardinalityType
    <3>3. \A m \in Bufs : g.full[m] <= Cardinality(Full(q, m))
      BY <1>11 DEF Collecting, Counts
    <3>4. \A m \in Bufs : g'.full[m] <= Cardinality(Full(q, m)')
      <4>1. g.full[k] + 1 <= Cardinality(Full(q, k)) + 1
        BY <1>10, <3>2, <3>3
      <4>2. QED
        BY <1>10, <2>6, <3>2, <3>3, <4>1
    <3>5. QED
      BY <1>3, <3>4 DEF Counts
  <2>8. PICK h : h = rd[t].hand
    OBVIOUS
  <2>9. OnePlace(q)' /\ Asked(q)'
    <3> DEFINE y == <<"buffer", <<i, k>>>>
               z == <<"hand", t>>
    <3>1. y \in Places(q) /\ z \in Places(q) /\ y # z
      BY PlaceFacts
    <3>2. h \in In(q, z) /\ In(q, z)' = {}
      <4>1. Hand(t) = {h} /\ Hand(t)' = {}
        BY <1>6, <1>7, <2>8 DEF Hand
      <4>2. QED
        BY <4>1, PlaceFacts
    <3>3. In(q, y)' \subseteq In(q, y) \cup {h}
      <4>1. Kept(q, i, k)' \subseteq {h}
        BY <2>4, <2>8 DEF Kept
      <4>2. QED
        BY <4>1, PlaceFacts
    <3>4. ASSUME NEW x \in Places(q), x # y
          PROVE  In(q, x)' \subseteq In(q, x) \ {h}
      <4>1. x # z => h \notin In(q, x)
        BY <1>11, <3>1, <3>2 DEF Collecting, OnePlace
      <4>2. CASE x = z
        BY <3>2, <4>2
      <4>3. ASSUME x # z
            PROVE  In(q, x)' \subseteq In(q, x)
        <5>1. ASSUME NEW w \in OwnSockets(q), x = <<"socket", w>>
              PROVE  In(q, x)' \subseteq In(q, x)
          <6>1. Waiting(w)' = Waiting(w)
            BY <1>6 DEF Waiting
          <6>2. QED
            BY <5>1, <6>1, PlaceFacts
        <5>2. ASSUME NEW j \in Slots, x = <<"hand", <<q, j>>>>
              PROVE  In(q, x)' \subseteq In(q, x)
          <6>1. Hand(<<q, j>>)' \subseteq Hand(<<q, j>>)
            BY <1>3, <4>3, <5>2 DEF Hand, SameReader
          <6>2. QED
            BY <5>2, <6>1, PlaceFacts
        <5>3. ASSUME NEW j \in Slots, NEW m \in Bufs, x = <<"buffer", <<j, m>>>>
              PROVE  In(q, x)' \subseteq In(q, x)
          <6>1. CASE j # i
            <7>1. j \in Full(q, m)' <=> j \in Full(q, m)
              BY <2>6, <6>1
            <7>2. heap'[<<q, j>>] = heap[<<q, j>>]
              BY <1>3, <2>4, <6>1
            <7>3. Kept(q, j, m)' = Kept(q, j, m)
              BY <7>1, <7>2 DEF Kept
            <7>4. QED
              BY <5>3, <7>3, PlaceFacts
          <6>2. CASE j = i /\ m # k
            <7>1. Kept(q, j, m)' = Kept(q, j, m)
              BY <2>4, <2>6, <6>2 DEF Kept
            <7>2. QED
              BY <5>3, <7>1, PlaceFacts
          <6>3. QED
            BY <3>4, <5>3, <6>1, <6>2
        <5>4. QED
          BY <5>1, <5>2, <5>3, PlaceFacts
      <4>4. QED
        BY <4>1, <4>2, <4>3
    <3>5. \A u \in {h} : u \in Threads /\ u[1] = q /\ u[2] \in Files(q) /\ rd'[u].pc \notin Early
      <4>1. h \in Threads /\ h[1] = q /\ h[2] \in Files(q) /\ rd[h].pc \notin Early
        BY <1>11, <3>1, <3>2 DEF Collecting, Asked, Early
      <4>2. QED
        BY <1>3, <1>7, <4>1 DEF SameReader, Early
    <3>6. \A u \in Threads : rd[u].pc \notin Early => rd'[u].pc \notin Early
      BY <1>3, <1>7 DEF SameReader, Early
    <3> HIDE DEF y, z
    <3>7. QED
      BY <1>3, <1>11, <3>1, <3>3, <3>4, <3>5, <3>6, UnitsMove DEF Collecting
  <2>10. Once(q)'
    BY <1>3, <1>6, <1>11 DEF Once, Collecting
  <2>11. QED
    BY <2>5, <2>7, <2>9, <2>10
<1>12. QED
  BY <1>2, <1>10, <1>11, LoneByReader

\* Any step of a lone request's own reader keeps its invariant.
LEMMA LoneByOwnReader ==
  ASSUME Types, Outsiders, NEW q \in Requests, NEW i \in Slots, Start(q), Busy(q), Lone(q), ~Exit,
         Reader(<<q, i>>)
  PROVE  Lone(q)'
<1> DEFINE t == <<q, i>>
<1>1. t = <<q, i>> /\ Reader(t)
  OBVIOUS
<1> HIDE DEF t
<1>2. QED
  BY <1>1, LoneByQuiet, LoneByHeader, LoneByAllocArm, LoneByReads, LoneByStore DEF Reader

-----------------------------------------------------------------------------
(* The steps of a request that is alone.                                   *)

\* Nothing of an earlier request is left that could disturb it.
LEMMA LoneByClear ==
  ASSUME Types, Outsiders, NEW q \in Requests, Start(q), Clear(q), Busy(q)'
  PROVE  Lone(q)'
<1>1. /\ co[q].pc = "idle" /\ co'[q].pc = "fill" /\ co'[q].out = co[q].out
      /\ co'[q].files = co[q].files
      /\ \A p \in Requests : p # q => ~Active(p) /\ co'[p].pc = co[p].pc
      /\ UNCHANGED <<rd, heap, fds, sock>>
  BY ClearFrame DEF Busy
<1>2. g' = ZeroGroup /\ slot' = [i \in Slots |-> ZeroSlot]
  BY DEF Clear, Clears
<1>3. /\ co[q].out = << >>
      /\ \A i \in Slots : rd[<<q, i>>].pc = "none"
      /\ \A s \in OwnSockets(q) : sock[s].data = << >>
  BY <1>1 DEF Start, BeforeStart
<1>4. Files(q)' = Files(q) /\ Files(q) \subseteq Slots /\ Bufs' = Bufs
      /\ OwnSockets(q)' = OwnSockets(q) /\ Slots' = Slots
  BY <1>1, FilesFacts DEF Files, Bufs, OwnSockets, Sockets, Threads, Slots
<1>5. Isolated(q)'
  <2>1. ASSUME NEW p \in Requests, p # q, NEW i \in Slots
        PROVE  co[p].pc \notin Live /\ rd[<<p, i>>].pc \in {"none", "end"}
    <3>1. /\ co[p].pc \in {"idle", "done", "dead"}
          /\ \A j \in Files(p) : rd[<<p, j>>].pc \in {"none", "end"}
      BY <1>1, <2>1 DEF Active
    <3>2. QED
      BY <2>1, <3>1, ThreadFacts DEF Live, Outsiders
  <2>2. 1 \in Slots
    BY Constants DEF Slots
  <2>3. QED
    BY <1>1, <1>4, <2>1, <2>2 DEF Isolated
<1>6. Descriptors(q)' /\ Settings(q)'
  BY <1>1, <1>3, <1>4 DEF Descriptors, Settings, HasSocket
<1>7. Collecting(q)'
  <2>1. /\ co'[q].out = << >> /\ g'.xor_size = 0 /\ g'.xor_flag = 0
        /\ \A k \in Bufs : g'.full[k] = 0
        /\ \A i \in Slots, k \in Bufs : slot'[i].flag[k] = 0 /\ slot'[i].size[k] = 0
        /\ \A i \in Slots : slot'[i].ptr = NULL
    BY <1>1, <1>2, <1>3 DEF ZeroGroup, ZeroSlot
  <2>2. \A i \in Files(q) : Element(q, i)'
    BY <1>1, <1>3, <1>4, <2>1, ThreadFacts DEF Element
  <2>3. \A k \in Bufs : Full(q, k)' = {}
    BY <1>4, <2>1 DEF Full
  <2>4. Counts(q)'
    <3>1. Cardinality({}) = 0
      BY FS_EmptySet
    <3>2. ASSUME NEW k \in Bufs
          PROVE  g'.full[k] <= Cardinality(Full(q, k))'
      <4>1. Full(q, k)' = {} /\ g'.full[k] = 0
        BY <2>1, <2>3
      <4>2. Cardinality(Full(q, k))' = 0
        BY <3>1, <4>1, Zenon
      <4>3. QED
        BY <4>1, <4>2
    <3>3. QED
      BY <1>4, <3>2 DEF Counts
  <2>5. \A x \in Places(q) : In(q, x)' = {}
    <3>1. /\ \A s \in OwnSockets(q) : Waiting(s)' = {}
          /\ \A i \in Slots : Hand(<<q, i>>)' = {}
          /\ \A i \in Slots, k \in Bufs : Kept(q, i, k)' = {}
      BY <1>1, <1>3, <2>3 DEF Waiting, Hand, Kept
    <3>2. ASSUME NEW x \in Places(q)
          PROVE  In(q, x)' = {}
      BY <3>1, PlaceFacts
    <3>3. QED
      BY <3>2
  <2>6. OnePlace(q)' /\ Asked(q)'
    BY <2>5, PlaceFacts DEF OnePlace, Asked
  <2>7. Once(q)'
    BY <1>1, <1>3, <1>4 DEF Once
  <2>8. QED
    BY <1>4, <2>1, <2>2, <2>4, <2>6, <2>7 DEF Collecting
<1>8. QED
  BY <1>5, <1>6, <1>7 DEF Lone

\* Clients take and give back descriptors that are not those of the request.
LEMMA LoneByClient ==
  ASSUME Types, NEW q \in Requests, Busy(q), Lone(q), NEW c \in Clients, Accept(c) \/ Leave(c)
  PROVE  Lone(q)'
<1>1. /\ UNCHANGED <<g, slot, co, rd, heap>>
      /\ Open(c) \/ \E f \in Fds : fds[f] = c /\ Close(f, c)
      /\ sock' = [sock EXCEPT ![c] = sock'[c]]
  BY DEF Accept, Leave, Types, TableType
<1>2. c \notin Sockets /\ c # Nobody /\ Nobody \notin Sockets /\ c \in Things
      /\ <<q, "out", 0>> # Nobody /\ <<q, "out", 0>> # c
  BY ThingFacts DEF Things
<1>3. \A f \in Fds : /\ fds'[f] = fds[f] \/ fds'[f] \notin Sockets
                     /\ fds[f] = <<q, "out", 0>> => fds'[f] = fds[f]
  <2>1. CASE Open(c)
    BY <1>2, <2>1, OpenFacts DEF Types, TableType
  <2>2. ASSUME NEW d \in Fds, fds[d] = c, Close(d, c)
        PROVE  \A f \in Fds : /\ fds'[f] = fds[f] \/ fds'[f] \notin Sockets
                              /\ fds[f] = <<q, "out", 0>> => fds'[f] = fds[f]
    BY <1>2, <2>2 DEF Close, Types, TableType
  <2>3. QED
    BY <1>1, <2>1, <2>2
<1>4. \A s \in Sockets : sock'[s] = sock[s]
  BY <1>1, <1>2 DEF Types, TableType
<1>5. /\ Isolated(q) /\ Descriptors(q) /\ Settings(q)
      /\ Collecting(q) \/ Xored(q)
  BY DEF Lone
<1>6. Isolated(q)' /\ Settings(q)' /\ (Xored(q) => Xored(q)')
  BY <1>1, <1>5 DEF Isolated, Settings, Xored, OwnOutput, Files, Slots
<1>7. Descriptors(q)'
  <2>1. co[q].pc # "fill" => co[q].fd \in Fds
    BY DEF Busy, Live, Types, CoType
  <2>2. \A i \in Slots : rd[<<q, i>>].pc \in HasSocket => rd[<<q, i>>].fd \in Fds
    BY ThreadFacts DEF HasSocket, Types, RdType
  <2>3. Slots' = Slots /\ OwnSockets(q)' = OwnSockets(q)
    BY DEF OwnSockets, Sockets, Threads, Slots
  <2>4. Sockets' = Sockets
    BY DEF Sockets, Threads, Slots
  <2>5. QED
    BY <1>1, <1>3, <1>5, <2>1, <2>2, <2>3, <2>4 DEF Descriptors
<1>8. ASSUME Collecting(q)
      PROVE  Collecting(q)'
  <2>1. Files(q)' = Files(q) /\ Files(q) \subseteq Slots /\ Bufs' = Bufs
        /\ OwnSockets(q)' = OwnSockets(q)
    <3>1. co[q].files \in Slots
      BY DEF Types, CoType, Coordinators
    <3>2. QED
      BY <1>1, <3>1, Constants DEF Files, Bufs, OwnSockets, Sockets, Threads, Slots
  <2>2. \A j \in Files(q) : Element(q, j)'
    BY <1>1, <1>8, <2>1, ElementKept DEF Collecting, SameReader
  <2>3. Counts(q)' /\ \A k \in Bufs : Full(q, k)' = Full(q, k)
    BY <1>1, <1>8, <2>1, CountsKept DEF Collecting
  <2>4. \A s \in OwnSockets(q) : Waiting(s)' \subseteq Waiting(s)
    BY <1>4 DEF Waiting, OwnSockets
  <2>5. \A i \in Slots : Hand(<<q, i>>)' \subseteq Hand(<<q, i>>)
    BY <1>1 DEF Hand
  <2>6. \A i \in Slots, k \in Bufs : Kept(q, i, k)' \subseteq Kept(q, i, k)
    BY <1>1, <2>3 DEF Kept
  <2>7. \A u \in Threads : rd[u].pc \notin Early => rd'[u].pc \notin Early
    BY <1>1
  <2>8. OnePlace(q)' /\ Asked(q)'
    BY <1>8, <2>1, <2>4, <2>5, <2>6, <2>7, UnitsStay DEF Collecting
  <2>9. Once(q)'
    BY <1>4, <1>8, <2>1 DEF Once, OwnSockets, Collecting
  <2>10. QED
    BY <1>1, <1>8, <2>1, <2>2, <2>3, <2>8, <2>9 DEF Collecting
<1>9. QED
  BY <1>5, <1>6, <1>7, <1>8 DEF Lone

\* The paths are filled in, the output file is opened, the readers start.
LEMMA LoneByFill ==
  ASSUME Types, Outsiders, NEW q \in Requests, Start(q), Busy(q), Lone(q), Fill(q)
  PROVE  Lone(q)'
<1>1. /\ g \in Groups /\ slot \in [Slots -> Elements] /\ rd \in [Threads -> Readers]
      /\ \A p \in Requests, i \in Slots : <<p, i>> \in Threads
      /\ co \in [Requests -> Coordinators({co[p].out : p \in Requests})]
  BY ThreadFacts DEF Types, GroupType, RdType, CoType
<1>2. /\ co[q].pc = "fill" /\ co'[q].pc = "enter" /\ co'[q].fd = Min(Free)
      /\ co'[q].out = co[q].out /\ co'[q].files = co[q].files /\ co'[q].num = co[q].num
      /\ \A p \in Requests : p # q => co'[p] = co[p]
  BY <1>1 DEF Fill, Coordinators
<1>3. /\ g' = [g EXCEPT !.file_size = 1, !.file_num = co[q].files]
      /\ slot' = [i \in Slots |-> IF i \in Files(q) THEN [slot[i] EXCEPT !.path = q] ELSE slot[i]]
      /\ rd' = [t \in Threads |-> IF t[1] = q /\ t[2] \in Files(q)
                                  THEN [rd[t] EXCEPT !.pc = "socket"] ELSE rd[t]]
      /\ UNCHANGED <<heap, sock>> /\ Open(<<q, "out", 0>>)
  BY DEF Fill, Filled
<1>4. /\ g'.file_size = 1 /\ g'.file_num = co[q].files /\ g'.full = g.full
      /\ g'.xor_size = g.xor_size /\ g'.xor_flag = g.xor_flag
  BY <1>1, <1>3 DEF Groups
<1>5. \A i \in Slots : rd[<<q, i>>].pc = "none"
  BY <1>2 DEF Start, BeforeStart
<1>6. /\ Isolated(q) /\ Collecting(q)
  BY <1>2 DEF Lone, Xored
<1>7. /\ Files(q)' = Files(q) /\ Files(q) \subseteq Slots /\ Bufs' = Bufs
      /\ OwnSockets(q)' = OwnSockets(q) /\ Slots' = Slots
  BY <1>2, FilesFacts DEF Files, Bufs, OwnSockets, Sockets, Threads, Slots
<1>8. /\ \A i \in Slots : rd'[<<q, i>>].pc \in {"none", "socket"}
      /\ \A p \in Requests, i \in Slots : p # q => rd'[<<p, i>>] = rd[<<p, i>>]
  BY <1>1, <1>3, <1>5 DEF Readers
<1>9. Isolated(q)'
  BY <1>2, <1>6, <1>7, <1>8 DEF Isolated
<1>10. Settings(q)'
  BY <1>2, <1>4 DEF Settings
<1>11. Descriptors(q)'
  <2>1. Min(Free) \in Fds /\ fds' = [fds EXCEPT ![Min(Free)] = <<q, "out", 0>>]
    BY <1>3, OpenFacts DEF Types
  <2>2. fds'[Min(Free)] = <<q, "out", 0>>
    BY <2>1 DEF Types, TableType
  <2>3. QED
    BY <1>2, <1>7, <1>8, <2>2 DEF Descriptors, HasSocket
<1>12. Collecting(q)'
  <2>1. \A i \in Files(q) : /\ slot'[i].path = q /\ slot'[i].flag = slot[i].flag
                            /\ slot'[i].size = slot[i].size /\ slot'[i].ptr = slot[i].ptr
    BY <1>1, <1>3, <1>7 DEF Elements
  <2>2. ASSUME NEW i \in Files(q)
        PROVE  Element(q, i)'
    <3>1. Element(q, i) /\ i \in Slots /\ rd[<<q, i>>].pc = "none"
      BY <1>5, <1>6, <1>7 DEF Collecting
    <3>2. /\ \A k \in Bufs : slot[i].flag[k] = 0 /\ slot[i].size[k] = 0
          /\ slot[i].ptr = <<q, i>> => heap[<<q, i>>].st # "none"
      BY <3>1 DEF Element
    <3>3. rd'[<<q, i>>].pc \in {"none", "socket"}
      BY <1>8, <3>1
    <3>4. /\ slot'[i].path = q /\ (slot'[i].ptr = <<q, i>> => heap'[<<q, i>>].st # "none")
          /\ \A k \in Bufs : slot'[i].flag[k] = 0 /\ slot'[i].size[k] = 0
      BY <1>3, <2>1, <3>2
    <3>5. QED
      BY <1>7, <3>3, <3>4 DEF Element
  <2>3. Counts(q)' /\ \A k \in Bufs : Full(q, k)' = Full(q, k)
    BY <1>4, <1>6, <1>7, <2>1, CountsKept DEF Collecting
  <2>4. \A s \in OwnSockets(q) : Waiting(s)' \subseteq Waiting(s)
    BY <1>3 DEF Waiting
  <2>5. \A i \in Slots : Hand(<<q, i>>)' \subseteq Hand(<<q, i>>)
    BY <1>8 DEF Hand
  <2>6. \A i \in Slots, k \in Bufs : Kept(q, i, k)' \subseteq Kept(q, i, k)
    BY <1>3, <2>3 DEF Kept
  <2>7. \A u \in Threads : rd[u].pc \notin Early => rd'[u].pc \notin Early
    BY <1>1, <1>3, <1>5, <1>7, ThreadFacts DEF Early, Readers
  <2>8. OnePlace(q)' /\ Asked(q)'
    BY <1>6, <1>7, <2>4, <2>5, <2>6, <2>7, UnitsStay DEF Collecting
  <2>9. Once(q)'
    BY <1>3, <1>6, <1>7 DEF Once, Collecting
  <2>10. QED
    BY <1>2, <1>4, <1>6, <1>7, <2>2, <2>3, <2>8, <2>9 DEF Collecting
<1>13. QED
  BY <1>9, <1>10, <1>11, <1>12 DEF Lone

\* A map of a finite set into itself without collisions reaches everything.
LEMMA NoCollisions ==
  ASSUME NEW S, IsFiniteSet(S), NEW f \in [S -> S], \A x, y \in S : f[x] = f[y] => x = y
  PROVE  \A y \in S : \E x \in S : f[x] = y
<1>1. f \in Injection(S, S)
  BY DEF Injection, IsInjective
<1>2. f \in Surjection(S, S)
  BY <1>1, FS_Injection
<1>3. QED
  BY <1>2 DEF Surjection

\* A step of the request that changes its program counter only.
LEMMA LoneByPc ==
  ASSUME Types, NEW q \in Requests, Busy(q), Lone(q),
         UNCHANGED <<g, slot, rd, heap, fds, sock>>,
         \A p \in Requests : p # q => co'[p] = co[p],
         co'[q].out = co[q].out, co'[q].files = co[q].files, co'[q].fd = co[q].fd,
         co[q].pc # "fill", co'[q].pc # "fill",
         co'[q].pc \in {"judge", "test", "verdict"} => co'[q].num = co'[q].files,
         Xored(q) => co'[q].pc \in {"test", "verdict"}
  PROVE  Lone(q)'
<1>1. /\ Isolated(q) /\ Descriptors(q) /\ Settings(q)
      /\ Collecting(q) \/ Xored(q)
  BY DEF Lone
<1>2. /\ Files(q)' = Files(q) /\ Files(q) \subseteq Slots /\ Bufs' = Bufs
      /\ OwnSockets(q)' = OwnSockets(q) /\ Slots' = Slots /\ Sockets' = Sockets
  <2>1. co[q].files \in Slots
    BY DEF Types, CoType, Coordinators
  <2>2. QED
    BY <2>1, Constants DEF Files, Bufs, OwnSockets, Sockets, Threads, Slots
<1>3. Isolated(q)' /\ Settings(q)'
  BY <1>1, <1>2 DEF Isolated, Settings
<1>4. Descriptors(q)'
  BY <1>1, <1>2 DEF Descriptors
<1>5. ASSUME Collecting(q)
      PROVE  Collecting(q)'
  <2>1. ASSUME NEW i \in Files(q)
        PROVE  Element(q, i)'
    BY <1>2, <1>5 DEF Collecting, Element
  <2>2. Counts(q)' /\ \A k \in Bufs : Full(q, k)' = Full(q, k)
    BY <1>2, <1>5, CountsKept DEF Collecting
  <2>3. /\ \A s \in OwnSockets(q) : Waiting(s)' \subseteq Waiting(s)
        /\ \A i \in Slots : Hand(<<q, i>>)' \subseteq Hand(<<q, i>>)
        /\ \A i \in Slots, k \in Bufs : Kept(q, i, k)' \subseteq Kept(q, i, k)
        /\ \A u \in Threads : rd[u].pc \notin Early => rd'[u].pc \notin Early
    BY <2>2 DEF Waiting, Hand, Kept
  <2>4. OnePlace(q)' /\ Asked(q)'
    BY <1>2, <1>5, <2>3, UnitsStay DEF Collecting
  <2>5. Once(q)'
    BY <1>2, <1>5 DEF Once, Collecting
  <2>6. QED
    BY <1>2, <1>5, <2>1, <2>2, <2>4, <2>5 DEF Collecting
<1>6. Xored(q) => Xored(q)'
  BY <1>2 DEF Xored, OwnOutput
<1>7. QED
  BY <1>1, <1>3, <1>4, <1>5, <1>6 DEF Lone

\* A lone request's tests keep its invariant.
LEMMA LoneByTest ==
  ASSUME Types, NEW q \in Requests, Busy(q), Lone(q), EnterJudge(q) \/ LoopTest(q)
  PROVE  Lone(q)'
<1>1. co \in [Requests -> Coordinators({co[p].out : p \in Requests})]
  BY DEF Types, CoType
<1>2. UNCHANGED <<g, slot, rd, heap, fds, sock>>
  BY DEF EnterJudge, LoopTest
<1>3. CASE EnterJudge(q)
  <2>1. /\ co[q].pc = "enter" /\ co'[q].pc = "judge" /\ co'[q].num = g.file_num
        /\ co'[q].out = co[q].out /\ co'[q].files = co[q].files /\ co'[q].fd = co[q].fd
        /\ \A p \in Requests : p # q => co'[p] = co[p]
    BY <1>1, <1>3 DEF EnterJudge, Coordinators
  <2>2. g.file_num = co[q].files
    BY <2>1 DEF Lone, Settings
  <2>3. QED
    BY <1>2, <2>1, <2>2, LoneByPc DEF Xored
<1>4. CASE LoopTest(q)
  <2> DEFINE l == IF g.xor_flag = 0 /\ g.correct = 0 THEN "judge" ELSE "verdict"
  <2>1. co' = [co EXCEPT ![q].pc = l] /\ l \in {"judge", "verdict"}
        /\ co[q].pc \in {"test", "judge"}
        /\ (Xored(q) => l = "verdict")
    BY <1>4 DEF LoopTest, Xored
  <2> HIDE DEF l
  <2>2. /\ co'[q].pc = l /\ co'[q].num = co[q].num
        /\ co'[q].out = co[q].out /\ co'[q].files = co[q].files /\ co'[q].fd = co[q].fd
        /\ \A p \in Requests : p # q => co'[p] = co[p]
    BY <1>1, <2>1 DEF Coordinators
  <2>3. co[q].num = co[q].files
    BY <2>1 DEF Lone, Settings
  <2>4. QED
    BY <1>2, <2>1, <2>2, <2>3, LoneByPc
<1>5. QED
  BY <1>3, <1>4

\* When the counter says that a buffer of every file is full, it is.
LEMMA FullBuffers ==
  ASSUME Types, NEW q \in Requests, NEW k \in Bufs, Collecting(q), g.full[k] = co[q].files
  PROVE  /\ co[q].files \in Nat \ {0} /\ Files(q) = 1..co[q].files /\ Files(q) \subseteq Slots
         /\ IsFiniteSet(Files(q)) /\ Full(q, k) = Files(q)
         /\ \A i \in Files(q) : slot[i].flag[k] = 2 /\ slot[i].ptr = <<q, i>> /\ slot[i].size[k] = 1
<1>1. co[q].files \in Nat \ {0} /\ Files(q) = 1..co[q].files /\ Files(q) \subseteq Slots
  <2>1. co[q].files \in Slots
    BY DEF Types, CoType, Coordinators
  <2>2. QED
    BY <2>1, Constants DEF Files, Slots
<1>2. IsFiniteSet(Files(q)) /\ Cardinality(Files(q)) = co[q].files
  <2> DEFINE n == co[q].files
  <2>1. n \in Nat \ {0} /\ n \in Int /\ 1 \in Int /\ ~(1 > n) /\ n - 1 + 1 = n
    BY <1>1
  <2> HIDE DEF n
  <2>2. IsFiniteSet(1..n) /\ Cardinality(1..n) = n
    BY <2>1, FS_Interval
  <2>3. QED
    BY <1>1, <2>2 DEF n
<1>3. Full(q, k) = Files(q)
  <2>1. Full(q, k) \in SUBSET Files(q)
    BY DEF Full
  <2>2. /\ Cardinality(Full(q, k)) <= co[q].files
        /\ co[q].files = Cardinality(Full(q, k)) => Files(q) = Full(q, k)
        /\ Cardinality(Full(q, k)) \in Nat
    BY <1>2, <2>1, FS_Subset, FS_CardinalityType
  <2>3. co[q].files <= Cardinality(Full(q, k))
    BY DEF Collecting, Counts
  <2>4. QED
    BY <1>1, <2>2, <2>3
<1>4. \A i \in Files(q) : Element(q, i)
  BY DEF Collecting
<1>5. \A i \in Files(q) : slot[i].flag[k] = 2 /\ slot[i].ptr = <<q, i>> /\ slot[i].size[k] = 1
  <2>1. ASSUME NEW i \in Files(q)
        PROVE  slot[i].flag[k] = 2 /\ slot[i].ptr = <<q, i>> /\ slot[i].size[k] = 1
    <3>1. slot[i].flag[k] = 2
      BY <1>3 DEF Full
    <3>2. /\ slot[i].flag[k] # 0 => slot[i].ptr = <<q, i>>
          /\ slot[i].size[k] = IF slot[i].flag[k] = 2 THEN 1 ELSE 0
      BY <1>4 DEF Element
    <3>3. QED
      BY <3>1, <3>2
  <2>2. QED
    BY <2>1
<1>6. QED
  BY <1>1, <1>2, <1>3, <1>5

\* Then the buffers hold the units of the request, each once.
LEMMA AllUnits ==
  ASSUME Types, NEW q \in Requests, NEW k \in Bufs, Collecting(q),
         g.full[k] = co[q].files,
         \A i \in Files(q) : ~Unusable(slot[i].ptr)
  PROVE  {heap[slot[i].ptr].unit[k][1] : i \in Files(q)} = {<<q, i>> : i \in Files(q)}
<1>1. co[q].files \in Nat \ {0} /\ Files(q) = 1..co[q].files /\ Files(q) \subseteq Slots
  BY FullBuffers
<1>2. IsFiniteSet(Files(q))
  BY FullBuffers
<1>3. Full(q, k) = Files(q)
  BY FullBuffers
<1>4. \A i \in Files(q) : Element(q, i)
  BY DEF Collecting
<1>5. \A i \in Files(q) : slot[i].flag[k] = 2 /\ slot[i].ptr = <<q, i>> /\ slot[i].size[k] = 1
  BY FullBuffers
<1> DEFINE U(i) == heap[<<q, i>>].unit[k][1]
<1>6. \A i \in Files(q) : heap[<<q, i>>].st = "live"
  <2>1. ASSUME NEW i \in Files(q)
        PROVE  heap[<<q, i>>].st = "live"
    <3>1. heap[<<q, i>>].st # "none"
      BY <1>4, <1>5 DEF Element
    <3>2. heap[<<q, i>>] \in Buffers
      BY <1>1, ThreadFacts DEF Types, TableType
    <3>3. heap[<<q, i>>].st # "freed"
      BY <1>5 DEF Unusable
    <3>4. QED
      BY <3>1, <3>2, <3>3 DEF Buffers
  <2>2. QED
    BY <2>1
<1>7. ASSUME NEW i \in Files(q)
      PROVE  /\ <<"buffer", <<i, k>>>> \in Places(q)
             /\ In(q, <<"buffer", <<i, k>>>>) = {U(i)}
  <2>1. Kept(q, i, k) = {U(i)}
    BY <1>3, <1>6 DEF Kept
  <2>2. QED
    BY <1>1, <2>1, PlaceFacts
<1>8. ASSUME NEW i \in Files(q)
      PROVE  U(i) \in Threads /\ U(i)[1] = q /\ U(i)[2] \in Files(q)
  <2> HIDE DEF U
  <2>1. QED
    BY <1>7 DEF Collecting, Asked
<1>9. ASSUME NEW i \in Files(q), NEW j \in Files(q), U(i) = U(j)
      PROVE  i = j
  <2> HIDE DEF U
  <2>1. <<"buffer", <<i, k>>>> = <<"buffer", <<j, k>>>>
    BY <1>7, <1>9 DEF Collecting, OnePlace
  <2>2. QED
    BY <2>1
<1> DEFINE f == [i \in Files(q) |-> U(i)[2]]
<1> HIDE DEF U
<1>10. \A i \in Files(q) : U(i) = <<q, f[i]>>
  BY <1>8, ThreadFacts
<1>11. f \in [Files(q) -> Files(q)]
  BY <1>8
<1>12. \A i, j \in Files(q) : f[i] = f[j] => i = j
  BY <1>9, <1>10
<1> HIDE DEF f
<1>13. \A j \in Files(q) : \E i \in Files(q) : f[i] = j
  BY <1>2, <1>11, <1>12, NoCollisions
<1>14. {U(i) : i \in Files(q)} = {<<q, i>> : i \in Files(q)}
  <2>1. \A i \in Files(q) : \E j \in Files(q) : U(i) = <<q, j>>
    BY <1>10, <1>11
  <2>2. \A j \in Files(q) : \E i \in Files(q) : U(i) = <<q, j>>
    BY <1>10, <1>13
  <2>3. QED
    BY <2>1, <2>2
<1>15. {heap[slot[i].ptr].unit[k][1] : i \in Files(q)} = {U(i) : i \in Files(q)}
  BY <1>5 DEF U
<1>16. QED
  BY <1>14, <1>15

\* The round that a request which is alone runs XORs its own files, all of them.
LEMMA LoneByRound ==
  ASSUME Types, NEW q \in Requests, Busy(q), Lone(q), Round(q) \/ RoundEmpty(q), ~Exit
  PROVE  Lone(q)'
<1>1. co[q].pc = "judge"
  BY DEF Round, RoundEmpty
<1>2. /\ Isolated(q) /\ Descriptors(q) /\ Settings(q) /\ Collecting(q)
      /\ co[q].num = co[q].files /\ g.file_size = 1 /\ g.file_num = co[q].files
      /\ g.xor_size = 0 /\ g.xor_flag = 0 /\ co[q].out = << >>
  BY <1>1 DEF Lone, Xored, Settings, Collecting
<1>3. /\ co \in [Requests -> Coordinators({co[p].out : p \in Requests})]
      /\ g \in Groups /\ co[q].files \in Nat \ {0} /\ Files(q) = 1..co[q].files
  <2>1. co[q].files \in Slots
    BY DEF Types, CoType, Coordinators
  <2>2. QED
    BY <2>1, Constants DEF Types, CoType, GroupType, Slots, Files
<1>4. Round(q)
  BY <1>2, <1>3 DEF RoundEmpty
<1>5. PICK k \in Turn(q) :
        LET used == 1..co[q].num
            ptrs == {slot[i].ptr : i \in used}
            size == slot[1].size[k]
            over == g.xor_size + size = g.file_size
            unit(p) == {heap[slot[i].ptr].unit[k][p] : i \in used}
        IN  IF Uneven(q, k)
            THEN RoundOver(q, k, [g EXCEPT !.correct = -1], co[q].out) /\ UNCHANGED heap
            ELSE IF (size > 0 /\ \E p \in ptrs : Unusable(p)) \/ (over /\ DoubleFree(ptrs))
            THEN Exit
            ELSE /\ RoundOver(q, k, [g EXCEPT !.xor_size = @ + size,
                                              !.xor_flag = IF over THEN 1 ELSE @],
                              co[q].out \o [p \in 1..size |-> unit(p)])
                 /\ heap' = IF over THEN Freed(ptrs) ELSE heap
  BY <1>4 DEF Round
<1>6. k \in Bufs /\ g.full[k] = co[q].files
  BY <1>2 DEF Turn, Bufs
<1>7. \A i \in Files(q) : slot[i].ptr = <<q, i>> /\ slot[i].size[k] = 1
  BY <1>2, <1>6, FullBuffers
<1>8. slot[1].size[k] = 1 /\ 1 \in Files(q)
  BY <1>3, <1>7
<1>9. ~Uneven(q, k)
  BY <1>2, <1>3, <1>7, <1>8 DEF Uneven
<1> DEFINE unit(p) == {heap[slot[i].ptr].unit[k][p] : i \in 1..co[q].num}
<1>10. /\ \A i \in Files(q) : ~Unusable(slot[i].ptr)
       /\ RoundOver(q, k, [g EXCEPT !.xor_size = 1, !.xor_flag = 1],
                    << >> \o [p \in 1..1 |-> unit(p)])
  <2>1. 0 + 1 = 1 /\ 1 > 0
    OBVIOUS
  <2>2. QED
    BY <1>2, <1>3, <1>5, <1>8, <1>9, <2>1
<1>11. << >> \o [p \in 1..1 |-> unit(p)] = OwnOutput(q)
  <2>1. unit(1) = {<<q, i>> : i \in Files(q)}
    BY <1>2, <1>3, <1>6, <1>10, AllUnits
  <2> HIDE DEF unit
  <2>2. << >> \o [p \in 1..1 |-> unit(p)] = << unit(1) >>
    OBVIOUS
  <2>3. QED
    BY <2>1, <2>2 DEF OwnOutput
<1>12. /\ g'.xor_size = 1 /\ g'.xor_flag = 1 /\ g'.file_size = g.file_size /\ g'.file_num = g.file_num
       /\ co'[q].pc = "test" /\ co'[q].out = OwnOutput(q) /\ co'[q].fd = co[q].fd
       /\ co'[q].files = co[q].files /\ co'[q].num = co[q].num
       /\ \A p \in Requests : p # q => co'[p] = co[p]
       /\ UNCHANGED <<rd, fds>>
  <2>1. RoundOver(q, k, [g EXCEPT !.xor_size = 1, !.xor_flag = 1], OwnOutput(q))
    BY <1>10, <1>11
  <2> HIDE DEF unit
  <2>2. QED
    BY <1>3, <2>1 DEF RoundOver, Groups, Coordinators
<1>13. Isolated(q)' /\ Descriptors(q)' /\ Settings(q)'
  <2>1. Slots' = Slots /\ Sockets' = Sockets /\ OwnSockets(q)' = OwnSockets(q)
    BY DEF OwnSockets, Sockets, Threads, Slots
  <2>2. QED
    BY <1>1, <1>2, <1>12, <2>1 DEF Isolated, Descriptors, Settings
<1>14. Xored(q)'
  BY <1>12 DEF Xored, OwnOutput, Files
<1>15. QED
  BY <1>13, <1>14 DEF Lone

-----------------------------------------------------------------------------
(* The invariant is inductive.                                             *)

\* Every step keeps the invariant of a lone request.
LEMMA LoneNext ==
  ASSUME IInv, Next, NEW q \in Requests
  PROVE  Lone(q)'
<1>1. Types /\ Outsiders /\ Start(q) /\ Lone(q)
  BY DEF IInv
<1>2. SUFFICES ASSUME Busy(q)'
               PROVE  Lone(q)'
  BY DEF Lone
<1>3. co'[q].alone /\ co'[q].pc \in Live
  BY <1>2 DEF Busy, Live
<1>4. ~Exit
  BY <1>1, <1>3, ExitFrame DEF Live
<1>5. ASSUME NEW p \in Requests, Clear(p)
      PROVE  Lone(q)'
  <2>1. p = q
    BY <1>1, <1>3, <1>5, ClearFrame DEF Live
  <2>2. QED
    BY <1>1, <1>2, <1>5, <2>1, LoneByClear
<1>6. ASSUME NEW p \in Requests, Coordinator(p)
      PROVE  Lone(q)'
  <2>1. co[p].pc \in Live
    BY <1>1, <1>4, <1>6, CoordinatorFrame
  <2>2. Busy(q)
    BY <1>1, <1>3, <1>4, <1>6, <2>1, CoordinatorFrame DEF Busy
  <2>3. p = q
    BY <1>1, <2>1, <2>2 DEF Lone, Isolated
  <2>4. ~FillFails(q) /\ ~Verdict(q)
    <3>1. co \in [Requests -> Coordinators({co[p_1].out : p_1 \in Requests})]
      BY <1>1 DEF Types, CoType
    <3>2. FillFails(q) \/ Verdict(q) => co'[q].pc = "done"
      BY <3>1 DEF FillFails, Verdict, Coordinators
    <3>3. QED
      BY <1>3, <3>2 DEF Live
  <2>5. QED
    BY <1>1, <1>4, <1>6, <2>2, <2>3, <2>4, LoneByFill, LoneByTest, LoneByRound DEF
       Coordinator
<1>7. ASSUME NEW t \in Threads, Reader(t)
      PROVE  Lone(q)'
  <2>1. UNCHANGED co /\ rd[t].pc \notin {"none", "end"}
    BY <1>1, <1>4, <1>7, ReaderFrame
  <2>2. Busy(q)
    BY <1>3, <2>1 DEF Busy
  <2>3. t = <<t[1], t[2]>> /\ t[1] \in Requests /\ t[2] \in Slots
    BY ThreadFacts
  <2>4. t[1] = q
    BY <1>1, <2>1, <2>2, <2>3 DEF Lone, Isolated
  <2>5. Reader(<<q, t[2]>>)
    BY <1>7, <2>3, <2>4
  <2>6. QED
    BY <1>1, <1>4, <2>2, <2>3, <2>5, LoneByOwnReader
<1>8. ASSUME NEW s \in Clients, Accept(s) \/ Leave(s)
      PROVE  Lone(q)'
  <2>1. UNCHANGED co
    BY <1>8 DEF Accept, Leave
  <2>2. Busy(q)
    BY <1>3, <2>1 DEF Busy
  <2>3. QED
    BY <1>1, <1>8, <2>2, LoneByClient
<1>9. QED
  BY <1>5, <1>6, <1>7, <1>8 DEF Next

\* The invariant holds at the start.
LEMMA InvInit ==
  ASSUME Init
  PROVE  IInv
<1>1. Types
  BY TypesInit
<1>2. /\ \A q \in Requests : /\ co[q].pc = "idle" /\ co[q].ret = "none"
                             /\ co[q].out = << >>
      /\ \A t \in Threads : rd[t].pc = "none"
      /\ \A f \in Fds : fds[f] = Nobody
  <2>1. PICK sc \in Scenarios :
          /\ co = [q \in Requests |-> [pc |-> "idle", num |-> 0, fd |-> 0, out |-> << >>,
                                      ret |-> "none", alone |-> TRUE,
                                      files |-> sc.files[q], waits |-> sc.waits]]
          /\ fds = [f \in 3..(sc.limit + 2) |-> Nobody]
    BY DEF Init
  <2>2. rd = [t \in Threads |-> NewThread]
    BY DEF Init
  <2>3. QED
    BY <2>1, <2>2 DEF NewThread, Fds
<1>3. \A s \in Sockets : sock[s].data = << >>
  <2>1. PICK sc \in Scenarios :
          sock = [s \in Sockets \cup Clients |->
                    IF s \in Clients /\ s[3] \notin sc.visitors THEN GoneSock ELSE NewSock]
    BY DEF Init
  <2>2. QED
    BY <2>1 DEF GoneSock, NewSock
<1>4. ASSUME NEW q \in Requests
      PROVE  Start(q) /\ Lone(q)
  <2>1. \A s \in OwnSockets(q) : s \in Sockets /\ ~IsOpen(s)
    BY <1>2, ThingFacts DEF OwnSockets, IsOpen
  <2>2. \A i \in Slots : rd[<<q, i>>].pc = "none"
    BY <1>2, ThreadFacts
  <2>3. QED
    BY <1>2, <1>3, <2>1, <2>2 DEF Start, Unfinished, BeforeStart, Lone, Busy, Live
<1>5. QED
  BY <1>1, <1>2, <1>4 DEF IInv, Outsiders, LoneRightMeansOwnFiles

\* The invariant is inductive.
LEMMA InvNext ==
  ASSUME IInv, [Next]_vars
  PROVE  IInv'
<1>1. CASE Next
  <2>1. Types /\ Outsiders
    BY DEF IInv
  <2>2. Types' /\ Outsiders'
    BY <1>1, <2>1, TypesNext, OutsidersNext
  <2>3. \A q \in Requests : Start(q)' /\ Lone(q)'
    BY <1>1, <2>1, StartNext, LoneNext DEF IInv
  <2>4. LoneRightMeansOwnFiles'
    BY <1>1, LoneRightNext
  <2>5. QED
    BY <2>2, <2>3, <2>4 DEF IInv
<1>2. CASE UNCHANGED vars
  <2>1. \A q \in Requests : Start(q)' = Start(q) /\ Lone(q)' = Lone(q)
    BY <1>2 DEF vars, Start, Unfinished, BeforeStart, IsOpen, Lone, Busy, Isolated,
       Descriptors, Settings, Collecting, Xored, Element, Counts, Full, OnePlace, Once,
       Asked, In, Waiting, Hand, Kept, OwnOutput, Files, Fds, Places, OwnSockets
  <2>2. Types' = Types /\ Outsiders' = Outsiders
    BY <1>2, FilesKept, TypesNext, OutsidersNext DEF IInv, vars
  <2>3. LoneRightMeansOwnFiles' = LoneRightMeansOwnFiles
    BY <1>2 DEF vars, LoneRightMeansOwnFiles, OwnOutput, Files
  <2>4. QED
    BY <2>1, <2>2, <2>3 DEF IInv
<1>3. QED
  BY <1>1, <1>2

-----------------------------------------------------------------------------
(* Counting units: each is owed by a reader, queued in a socket or in its  *)
(* buffer, so that no counter and no size can pass the number of readers.  *)

\* The readers that may still ask for a unit or hold one, and the units queued.
Owing  == {t \in Threads : rd[t].pc \in Early \cup {"store"}}
Queued == UNION {{<<s, n>> : n \in 1..Len(sock[s].data)} : s \in Sockets}
Load   == Cardinality(Owing) + Cardinality(Queued)

Room(n) == Load + n <= MaxUnits
Counted ==
  /\ IsFiniteSet(Queued)
  /\ \A k \in Bufs : Room(g.full[k]) /\ \A i \in Slots : Room(slot[i].size[k])
OutputsType == \A q \in Requests : co[q].out \in Seq(SUBSET Units)

\* There are finitely many threads.
LEMMA FiniteThreads == IsFiniteSet(Threads)
<1>1. IsFiniteSet(Slots)
  BY Constants, FS_Interval DEF Slots
<1>2. QED
  BY <1>1, Constants, FS_Product DEF Threads

\* A set that keeps, loses or gains a member.
LEMMA CardinalityMoves ==
  ASSUME NEW S, IsFiniteSet(S), NEW T
  PROVE  /\ Cardinality(S) \in Nat
         /\ T \subseteq S => IsFiniteSet(T) /\ Cardinality(T) \in Nat /\ Cardinality(T) <= Cardinality(S)
         /\ \A x \in S : T \subseteq S \ {x} =>
              IsFiniteSet(T) /\ Cardinality(T) \in Nat /\ Cardinality(T) + 1 <= Cardinality(S)
         /\ \A x : T \subseteq S \cup {x} =>
              IsFiniteSet(T) /\ Cardinality(T) \in Nat /\ Cardinality(T) <= Cardinality(S) + 1
<1>1. Cardinality(S) \in Nat
  BY FS_CardinalityType
<1>2. ASSUME NEW U, IsFiniteSet(U), T \subseteq U
      PROVE  IsFiniteSet(T) /\ Cardinality(T) \in Nat /\ Cardinality(T) <= Cardinality(U)
  BY <1>2, FS_Subset, FS_CardinalityType
<1>3. ASSUME NEW x \in S
      PROVE  IsFiniteSet(S \ {x}) /\ Cardinality(S \ {x}) = Cardinality(S) - 1
  BY <1>3, FS_RemoveElement
<1>4. ASSUME NEW x
      PROVE  /\ IsFiniteSet(S \cup {x}) /\ Cardinality(S \cup {x}) \in Nat
             /\ Cardinality(S \cup {x}) <= Cardinality(S) + 1
  BY <1>1, FS_AddElement, FS_CardinalityType
<1>5. ASSUME NEW x \in S, T \subseteq S \ {x}
      PROVE  IsFiniteSet(T) /\ Cardinality(T) \in Nat /\ Cardinality(T) + 1 <= Cardinality(S)
  <2>1. /\ IsFiniteSet(T) /\ Cardinality(T) \in Nat
        /\ Cardinality(T) <= Cardinality(S \ {x})
    BY <1>2, <1>3, <1>5
  <2>2. QED
    BY <1>1, <1>3, <2>1
<1>6. ASSUME NEW x, T \subseteq S \cup {x}
      PROVE  IsFiniteSet(T) /\ Cardinality(T) \in Nat /\ Cardinality(T) <= Cardinality(S) + 1
  <2> DEFINE U == S \cup {x}
  <2>1. IsFiniteSet(U) /\ Cardinality(U) \in Nat /\ Cardinality(U) <= Cardinality(S) + 1
    BY <1>4
  <2> HIDE DEF U
  <2>2. IsFiniteSet(T) /\ Cardinality(T) \in Nat /\ Cardinality(T) <= Cardinality(U)
    BY <1>2, <1>6, <2>1 DEF U
  <2>3. QED
    BY <1>1, <2>1, <2>2
<1>7. QED
  BY <1>1, <1>2, <1>5, <1>6

\* A unit that is asked for, taken or stored is not owed or queued twice.
LEMMA LoadMoves ==
  ASSUME IsFiniteSet(Queued)
  PROVE  /\ Load \in Nat
         /\ Owing' \subseteq Owing /\ Queued' \subseteq Queued
              => IsFiniteSet(Queued)' /\ Load' \in Nat /\ Load' <= Load
         /\ \A t \in Owing : Owing' \subseteq Owing \ {t} /\ Queued' \subseteq Queued
              => IsFiniteSet(Queued)' /\ Load' \in Nat /\ Load' + 1 <= Load
         /\ \A t \in Owing : \A x : Owing' \subseteq Owing \ {t} /\ Queued' \subseteq Queued \cup {x}
              => IsFiniteSet(Queued)' /\ Load' \in Nat /\ Load' <= Load
         /\ \A x \in Queued : \A t : Owing' \subseteq Owing \cup {t} /\ Queued' \subseteq Queued \ {x}
              => IsFiniteSet(Queued)' /\ Load' \in Nat /\ Load' <= Load
<1>1. IsFiniteSet(Owing)
  BY FiniteThreads, FS_Subset DEF Owing
<1> DEFINE P == Owing'
           Q == Queued'
<1>2. Cardinality(Owing) \in Nat /\ Cardinality(Queued) \in Nat
  BY <1>1, CardinalityMoves
<1>3. Load = Cardinality(Owing) + Cardinality(Queued) /\ Load' = Cardinality(P) + Cardinality(Q)
  BY DEF Load
<1>4. ASSUME P \subseteq Owing, Q \subseteq Queued
      PROVE  IsFiniteSet(Q) /\ Load' \in Nat /\ Load' <= Load
  <2> HIDE DEF P, Q
  <2>1. /\ IsFiniteSet(Q) /\ Cardinality(P) \in Nat /\ Cardinality(Q) \in Nat
        /\ Cardinality(P) <= Cardinality(Owing) /\ Cardinality(Q) <= Cardinality(Queued)
    BY <1>1, <1>4, CardinalityMoves
  <2>2. QED
    BY <1>2, <1>3, <2>1
<1>5. ASSUME NEW t \in Owing, P \subseteq Owing \ {t}, Q \subseteq Queued
      PROVE  IsFiniteSet(Q) /\ Load' \in Nat /\ Load' + 1 <= Load
  <2> HIDE DEF P, Q
  <2>1. /\ IsFiniteSet(Q) /\ Cardinality(P) \in Nat /\ Cardinality(Q) \in Nat
        /\ Cardinality(P) + 1 <= Cardinality(Owing) /\ Cardinality(Q) <= Cardinality(Queued)
    BY <1>1, <1>5, CardinalityMoves
  <2>2. QED
    BY <1>2, <1>3, <2>1
<1>6. ASSUME NEW t \in Owing, NEW x, P \subseteq Owing \ {t}, Q \subseteq Queued \cup {x}
      PROVE  IsFiniteSet(Q) /\ Load' \in Nat /\ Load' <= Load
  <2> HIDE DEF P, Q
  <2>1. /\ IsFiniteSet(Q) /\ Cardinality(P) \in Nat /\ Cardinality(Q) \in Nat
        /\ Cardinality(P) + 1 <= Cardinality(Owing) /\ Cardinality(Q) <= Cardinality(Queued) + 1
    BY <1>1, <1>6, CardinalityMoves
  <2>2. QED
    BY <1>2, <1>3, <2>1
<1>7. ASSUME NEW t, NEW x \in Queued, P \subseteq Owing \cup {t}, Q \subseteq Queued \ {x}
      PROVE  IsFiniteSet(Q) /\ Load' \in Nat /\ Load' <= Load
  <2> HIDE DEF P, Q
  <2>1. /\ IsFiniteSet(Q) /\ Cardinality(P) \in Nat /\ Cardinality(Q) \in Nat
        /\ Cardinality(P) <= Cardinality(Owing) + 1 /\ Cardinality(Q) + 1 <= Cardinality(Queued)
    BY <1>1, <1>7, CardinalityMoves
  <2>2. QED
    BY <1>2, <1>3, <2>1
<1>8. Load \in Nat
  BY <1>2, <1>3
<1> HIDE DEF P, Q
<1>9. QED
  BY <1>4, <1>5, <1>6, <1>7, <1>8 DEF P, Q

\* The arithmetic of CountedLater.
LEMMA Sums ==
  ASSUME NEW a \in Nat, NEW b \in Nat, NEW l \in Nat, NEW m \in Nat, NEW n \in Nat,
         NEW d \in {0, 1}, l + a <= n, m + d <= l, b <= a + d
  PROVE  m + b <= n
OBVIOUS

\* A step that counts and stores d units, and takes as many from the load.
LEMMA CountedLater ==
  ASSUME Counted, Types, Types', IsFiniteSet(Queued)', NEW d \in {0, 1},
         Load' \in Nat, Load' + d <= Load,
         \A k \in Bufs : /\ g'.full[k] <= g.full[k] + d
                         /\ \A i \in Slots : slot'[i].size[k] <= slot[i].size[k] + d
  PROVE  Counted'
<1>1. /\ \A k \in Bufs : g.full[k] \in Nat /\ g'.full[k] \in Nat
      /\ \A k \in Bufs, i \in Slots : slot[i].size[k] \in Nat /\ slot'[i].size[k] \in Nat
  BY DEF Types, GroupType, Groups, Elements
<1>2. Load \in Nat /\ MaxUnits \in Nat
  BY LoadMoves, UnitsBound DEF Counted
<1>3. ASSUME NEW k \in Bufs
      PROVE  Room(g.full[k])' /\ \A i \in Slots : Room(slot[i].size[k])'
  <2>1. Load' + g'.full[k] <= MaxUnits
    <3>1. Load + g.full[k] <= MaxUnits
      BY DEF Counted, Room
    <3>2. QED
      BY <1>1, <1>2, <3>1, Sums
  <2>2. ASSUME NEW i \in Slots
        PROVE  Load' + slot'[i].size[k] <= MaxUnits
    <3>1. Load + slot[i].size[k] <= MaxUnits
      BY DEF Counted, Room
    <3>2. slot'[i].size[k] <= slot[i].size[k] + d
      OBVIOUS
    <3> DEFINE a == slot[i].size[k]
               b == slot'[i].size[k]
    <3>3. a \in Nat /\ b \in Nat /\ Load + a <= MaxUnits /\ b <= a + d
      BY <1>1, <3>1, <3>2
    <3> HIDE DEF a, b
    <3>4. Load' + b <= MaxUnits
      BY <1>2, <3>3, Sums
    <3>5. QED
      BY <3>4 DEF b
  <2>3. QED
    BY <2>1, <2>2 DEF Room
<1>4. QED
  BY <1>3 DEF Counted

\* No step but Store counts or stores a unit.
NoUnits == \A k \in Bufs : /\ g'.full[k] <= g.full[k]
                          /\ \A i \in Slots : slot'[i].size[k] <= slot[i].size[k]

\* A step other than Store counts no units.
LEMMA NoUnitsCounted ==
  ASSUME Types, Types', [Next]_vars, ~Exit, \A t \in Threads : ~Store(t)
  PROVE  NoUnits
<1>1. /\ g \in Groups /\ slot \in [Slots -> Elements]
      /\ \A k \in Bufs : g.full[k] \in Nat /\ \A i \in Slots : slot[i].size[k] \in Nat
  BY DEF Types, GroupType, Groups, Elements
<1>2. ASSUME UNCHANGED <<g, slot>>
      PROVE  NoUnits
  BY <1>1, <1>2 DEF NoUnits
<1>3. ASSUME NEW q \in Requests, Clear(q)
      PROVE  NoUnits
  <2>1. g' = ZeroGroup /\ slot' = [i \in Slots |-> ZeroSlot]
    BY <1>3 DEF Clear, Clears
  <2>2. ASSUME NEW k \in Bufs
        PROVE  g'.full[k] = 0 /\ \A i \in Slots : slot'[i].size[k] = 0
    BY <2>1 DEF ZeroGroup, ZeroSlot
  <2>3. QED
    BY <1>1, <2>2 DEF NoUnits
<1>4. ASSUME NEW q \in Requests, Fill(q) \/ FillFails(q)
      PROVE  NoUnits
  <2>1. Filled(q)
    BY <1>4 DEF Fill, FillFails
  <2>2. g'.full = g.full
    BY <1>1, <2>1 DEF Filled, Groups
  <2>3. ASSUME NEW i \in Slots
        PROVE  slot'[i].size = slot[i].size
    BY <1>1, <2>1 DEF Filled, Elements
  <2>4. QED
    BY <1>1, <2>2, <2>3 DEF NoUnits
<1>5. ASSUME NEW q \in Requests, Round(q) \/ RoundEmpty(q)
      PROVE  NoUnits
  <2>1. ASSUME NEW k \in Bufs, NEW group, NEW o, RoundOver(q, k, group, o),
               group.full = g.full, DOMAIN group = DOMAIN g
        PROVE  NoUnits
    <3>1. g'.full = [g.full EXCEPT ![k] = 0]
      BY <1>1, <2>1 DEF RoundOver, Groups
    <3>2. \A j \in Bufs : g'.full[j] = g.full[j] \/ g'.full[j] = 0
      BY <1>1, <3>1 DEF Groups
    <3>3. ASSUME NEW i \in Slots
          PROVE  slot'[i].size = slot[i].size
      BY <1>1, <2>1 DEF RoundOver, Elements
    <3>4. QED
      BY <1>1, <3>2, <3>3 DEF NoUnits
  <2>2. CASE Round(q)
    <3> DEFINE flag(k) == IF g.xor_size + slot[1].size[k] = g.file_size THEN 1 ELSE g.xor_flag
    <3>1. PICK k \in Turn(q) :
            \/ RoundOver(q, k, [g EXCEPT !.correct = -1], co[q].out)
            \/ \E o : RoundOver(q, k, [g EXCEPT !.xor_size = @ + slot[1].size[k],
                                                 !.xor_flag = flag(k)], o)
      BY <2>2 DEF Round
    <3> DEFINE failed == [g EXCEPT !.correct = -1]
               more   == [g EXCEPT !.xor_size = @ + slot[1].size[k], !.xor_flag = flag(k)]
    <3>2. k \in Bufs
      BY DEF Turn, Bufs
    <3>3. /\ failed.full = g.full /\ DOMAIN failed = DOMAIN g
          /\ more.full = g.full /\ DOMAIN more = DOMAIN g
      BY <1>1 DEF Groups
    <3>4. RoundOver(q, k, failed, co[q].out) \/ \E o : RoundOver(q, k, more, o)
      BY <3>1
    <3> HIDE DEF failed, more
    <3>5. QED
      BY <2>1, <3>2, <3>3, <3>4
  <2>3. CASE RoundEmpty(q)
    <3>1. PICK k \in Turn(q) :
            RoundOver(q, k, [g EXCEPT !.xor_flag = IF g.xor_size = g.file_size THEN 1 ELSE @],
                      co[q].out)
      BY <2>3 DEF RoundEmpty
    <3> DEFINE group == [g EXCEPT !.xor_flag = IF g.xor_size = g.file_size THEN 1 ELSE @]
    <3>2. k \in Bufs
      BY DEF Turn, Bufs
    <3>3. group.full = g.full /\ DOMAIN group = DOMAIN g /\ RoundOver(q, k, group, co[q].out)
      BY <1>1, <3>1 DEF Groups
    <3> HIDE DEF group
    <3>4. QED
      BY <2>1, <3>2, <3>3
  <2>4. QED
    BY <1>5, <2>2, <2>3
<1>6. ASSUME NEW q \in Requests, Coordinator(q)
      PROVE  NoUnits
  <2>1. Fill(q) \/ FillFails(q) \/ Round(q) \/ RoundEmpty(q) \/ UNCHANGED <<g, slot>>
    BY <1>6 DEF Coordinator, EnterJudge, LoopTest, Verdict
  <2>2. QED
    BY <1>2, <1>4, <1>5, <2>1
<1>7. ASSUME NEW t \in Threads, g' = [g EXCEPT !.correct = -1], UNCHANGED slot
      PROVE  NoUnits
  BY <1>1, <1>7 DEF NoUnits, Groups
<1>8. ASSUME NEW t \in Threads, Alloc(t) \/ Arm(t) \/ Prepare(t)
      PROVE  NoUnits
  <2>1. t[2] \in Slots /\ UNCHANGED g
    BY <1>8, ThreadFacts DEF Alloc, Arm, Prepare
  <2>2. CASE Alloc(t) \/ Arm(t)
    <3>1. \E p, f, d, v : slot' = [slot EXCEPT ![t[2]] =
                                     [slot[t[2]] EXCEPT !.ptr = p, !.flag = f, !.fd = d, !.ev = v]]
      <4> DEFINE e == slot[t[2]]
      <4>1. CASE Alloc(t)
        <5>1. slot' = [slot EXCEPT ![t[2]] =
                         [e EXCEPT !.ptr = t, !.flag = e.flag, !.fd = e.fd, !.ev = e.ev]]
          BY <1>1, <2>1, <4>1 DEF Alloc, Elements
        <5>2. QED
          BY <5>1
      <4>2. CASE Arm(t)
        <5>1. slot' = [slot EXCEPT ![t[2]] =
                         [e EXCEPT !.ptr = e.ptr, !.flag = [k \in Bufs |-> 1 - k],
                                   !.fd = rd[t].fd, !.ev = t]]
          BY <1>1, <2>1, <4>2 DEF Arm, Elements
        <5>2. QED
          BY <5>1
      <4>3. QED
        BY <2>2, <4>1, <4>2
    <3>2. \A i \in Slots : slot'[i].size = slot[i].size
      BY <1>1, <2>1, <3>1 DEF Elements
    <3>3. QED
      BY <1>1, <2>1, <3>2 DEF NoUnits
  <2>3. CASE Prepare(t)
    <3> DEFINE m == IF slot[t[2]].flag[0] = 0 THEN 0 ELSE 1
    <3>1. m \in Bufs /\ slot' = [slot EXCEPT ![t[2]].flag[m] = 1, ![t[2]].size[m] = 0]
      BY <2>3 DEF Prepare, Bufs
    <3> HIDE DEF m
    <3>2. \A i \in Slots, k \in Bufs : slot'[i].size[k] = slot[i].size[k] \/ slot'[i].size[k] = 0
      BY <1>1, <2>1, <3>1 DEF Elements
    <3>3. QED
      BY <1>1, <2>1, <3>2 DEF NoUnits
  <2>4. QED
    BY <1>8, <2>2, <2>3
<1>9. ASSUME NEW t \in Threads, Reader(t)
      PROVE  NoUnits
  <2>1. \/ Alloc(t) \/ Arm(t) \/ Prepare(t)
        \/ UNCHANGED slot /\ (UNCHANGED g \/ g' = [g EXCEPT !.correct = -1])
    BY <1>9 DEF Reader, FirstSocket, SecondSocket, SocketFails, Connect, Header,
       CallbackFrees, CallbackReads, CallbackEnds, LoopEnds, LastClose, GiveUp
  <2>2. QED
    BY <1>2, <1>7, <1>8, <2>1
<1>10. QED
  BY <1>2, <1>3, <1>6, <1>9 DEF Next, vars, Accept, Leave

\* Store counts and stores one unit.
LEMMA StoreCounts ==
  ASSUME Types, NEW t \in Threads, Store(t), ~Exit
  PROVE  \A k \in Bufs : /\ g'.full[k] <= g.full[k] + 1
                         /\ \A i \in Slots : slot'[i].size[k] <= slot[i].size[k] + 1
<1>1. /\ g \in Groups /\ slot \in [Slots -> Elements] /\ t[2] \in Slots
      /\ \A k \in Bufs : g.full[k] \in Nat /\ \A i \in Slots : slot[i].size[k] \in Nat
  BY ThreadFacts DEF Types, GroupType, Groups, Elements
<1> DEFINE m == IF slot[t[2]].flag[0] = 1 THEN 0 ELSE 1
<1>2. /\ m \in Bufs /\ g' = [g EXCEPT !.full[m] = @ + 1]
      /\ slot' = [slot EXCEPT ![t[2]].size[m] = @ + 1, ![t[2]].flag[m] = 2]
  BY DEF Store, Count, Bufs
<1> HIDE DEF m
<1>3. ASSUME NEW k \in Bufs
      PROVE  g'.full[k] \in {g.full[k], g.full[k] + 1}
  BY <1>1, <1>2 DEF Groups
<1>4. ASSUME NEW k \in Bufs, NEW i \in Slots
      PROVE  slot'[i].size[k] \in {slot[i].size[k], slot[i].size[k] + 1}
  BY <1>1, <1>2 DEF Elements
<1>5. QED
  BY <1>1, <1>3, <1>4

\* What is queued depends on the data in the sockets only.
LEMMA QueuedFacts ==
  /\ \A s, n : <<s, n>> \in Queued <=> s \in Sockets /\ n \in 1..Len(sock[s].data)
  /\ \A x \in Queued : x = <<x[1], x[2]>>
  /\ \A s, n : <<s, n>> \in Queued' <=> s \in Sockets /\ n \in 1..Len(sock'[s].data)
  /\ \A x \in Queued' : x = <<x[1], x[2]>>
  /\ (\A s \in Sockets : sock'[s].data = sock[s].data) => Queued' = Queued
BY DEF Queued

\* The load does not grow, and a unit that is stored is owed no more.
LEMMA LoadByReader ==
  ASSUME Types, NEW t \in Threads, Reader(t), ~Exit, IsFiniteSet(Queued)
  PROVE  /\ IsFiniteSet(Queued)' /\ Load' \in Nat /\ Load' <= Load
         /\ Store(t) => Load' + 1 <= Load
<1>1. /\ \A u \in Threads : u # t => SameReader(u)
      /\ rd \in [Threads -> Readers] /\ sock \in [Sockets \cup Clients -> Connections]
  BY ReaderFrame DEF Types, RdType, TableType
<1>2. /\ rd'[t].pc \notin Early \cup {"store"} => Owing' \subseteq Owing \ {t}
      /\ t \in Owing \/ rd'[t].pc \notin Early \cup {"store"} => Owing' \subseteq Owing
      /\ Owing' \subseteq Owing \cup {t}
  BY <1>1 DEF Owing, SameReader
<1>3. Load \in Nat
  BY LoadMoves
<1>4. CASE FirstSocket(t) \/ SecondSocket(t) \/ Connect(t)
  <2>1. t \in Owing
    BY <1>4 DEF FirstSocket, SecondSocket, Connect, Owing, Early
  <2>2. ASSUME NEW s \in Sockets
        PROVE  sock'[s].data = sock[s].data
    BY <1>1, <1>4 DEF FirstSocket, SecondSocket, Connect, Connections
  <2>3. ~Store(t)
    BY <1>4 DEF FirstSocket, SecondSocket, Connect, Store
  <2>4. QED
    BY <1>2, <2>1, <2>2, <2>3, QueuedFacts, LoadMoves
<1>5. CASE Header(t)
  <2> DEFINE s == fds[rd[t].fd]
             tag == <<slot[t[2]].path, t[2]>>
  <2>1. t \in Owing /\ ~Store(t)
    BY <1>5 DEF Header, Owing, Early, Store
  <2>2. rd'[t].pc \in {"alloc", "end"}
    BY <1>1, <1>5 DEF Header, Goto, GiveUp, End, NewThread, Readers
  <2>3. \/ UNCHANGED sock
        \/ s \in Sockets /\ sock' = [sock EXCEPT ![s] = Served(sock[s], tag)]
    BY <1>5 DEF Header
  <2>4. ASSUME s \in Sockets
        PROVE  Served(sock[s], tag).data = sock[s].data \/ Served(sock[s], tag).data = Append(sock[s].data, tag)
    BY DEF Served
  <2> HIDE DEF s, tag
  <2>5. Queued' \subseteq Queued \cup {<<s, Len(sock[s].data) + 1>>}
    <3>1. CASE UNCHANGED sock
      BY <3>1, QueuedFacts
    <3>2. CASE s \in Sockets /\ sock' = [sock EXCEPT ![s] = Served(sock[s], tag)]
      <4>1. /\ sock[s].data \in Seq(Threads) /\ s \in Sockets \cup Clients
            /\ sock'[s] = Served(sock[s], tag)
            /\ \A r \in Sockets : r # s => sock'[r] = sock[r]
        BY <1>1, <3>2 DEF Connections
      <4>2. Len(sock'[s].data) \in {Len(sock[s].data), Len(sock[s].data) + 1} /\ Len(sock[s].data) \in Nat
        BY <2>4, <3>2, <4>1
      <4>3. ASSUME NEW r, NEW n, <<r, n>> \in Queued'
            PROVE  <<r, n>> \in Queued \cup {<<s, Len(sock[s].data) + 1>>}
        <5>1. r \in Sockets /\ n \in 1..Len(sock'[r].data)
          BY <4>3, QueuedFacts
        <5>2. CASE r # s
          BY <4>1, <5>1, <5>2, QueuedFacts
        <5>3. CASE r = s
          <6>1. n \in 1..Len(sock[s].data) \/ n = Len(sock[s].data) + 1
            BY <4>2, <5>1, <5>3
          <6>2. QED
            BY <5>1, <5>3, <6>1, QueuedFacts
        <5>4. QED
          BY <5>2, <5>3
      <4>4. QED
        BY <4>3, QueuedFacts
    <3>3. QED
      BY <2>3, <3>1, <3>2
  <2>6. Owing' \subseteq Owing \ {t}
    BY <1>2, <2>2 DEF Early
  <2>7. QED
    BY <2>1, <2>5, <2>6, LoadMoves
<1>6. CASE CallbackReads(t)
  <2> DEFINE s == Source(t)
  <2>1. /\ s \in Sockets /\ sock[s].data # << >> /\ ~Store(t)
        /\ sock' = [sock EXCEPT ![s].data = Tail(@)]
    BY <1>6 DEF CallbackReads, Fires, Store
  <2> HIDE DEF s
  <2> DEFINE d == sock[s].data
  <2>2. d \in Seq(Threads) /\ sock'[s].data = Tail(d) /\ \A r \in Sockets : r # s => sock'[r] = sock[r]
    BY <1>1, <2>1 DEF Connections
  <2>3. Len(d) \in 1..Len(d) /\ Len(Tail(d)) = Len(d) - 1
    BY <2>1, <2>2
  <2>4. <<s, Len(d)>> \in Queued
    BY <2>1, <2>3, QueuedFacts
  <2>5. Queued' \subseteq Queued \ {<<s, Len(d)>>}
    <3>1. ASSUME NEW r, NEW n, <<r, n>> \in Queued'
          PROVE  <<r, n>> \in Queued \ {<<s, Len(d)>>}
      <4>1. r \in Sockets /\ n \in 1..Len(sock'[r].data)
        BY <3>1, QueuedFacts
      <4>2. CASE r # s
        BY <2>2, <4>1, <4>2, QueuedFacts
      <4>3. CASE r = s
        <5>1. n \in 1..(Len(d) - 1)
          BY <2>2, <2>3, <4>1, <4>3
        <5>2. n \in 1..Len(d) /\ n # Len(d)
          BY <2>2, <5>1
        <5>3. QED
          BY <4>1, <4>3, <5>2, QueuedFacts
      <4>4. QED
        BY <4>2, <4>3
    <3>2. QED
      BY <3>1, QueuedFacts
  <2>6. QED
    BY <1>2, <2>1, <2>4, <2>5, LoadMoves
<1>7. CASE Store(t)
  <2>1. t \in Owing /\ UNCHANGED sock
    BY <1>7 DEF Store, Owing
  <2>2. rd'[t].pc = "loop"
    <3>1. rd' = [rd EXCEPT ![t].pc = "loop", ![t].hand = Junk]
      BY <1>7 DEF Store
    <3>2. QED
      BY <1>1, <3>1 DEF Readers
  <2>3. Load' \in Nat /\ Load' + 1 <= Load /\ IsFiniteSet(Queued)'
    BY <1>2, <2>1, <2>2, QueuedFacts, LoadMoves DEF Early
  <2>4. Load' <= Load
    BY <1>2, <2>1, <2>2, QueuedFacts, LoadMoves DEF Early
  <2>5. QED
    BY <2>3, <2>4
<1>8. ASSUME ~Store(t), UNCHANGED sock,
             rd'[t].pc \notin Early \cup {"store"} \/ SameReader(t)
      PROVE  /\ IsFiniteSet(Queued)' /\ Load' \in Nat /\ Load' <= Load
             /\ Store(t) => Load' + 1 <= Load
  <2>1. Owing' \subseteq Owing
    BY <1>1, <1>8 DEF Owing, SameReader
  <2>2. QED
    BY <1>8, <2>1, QueuedFacts, LoadMoves
<1>9. CASE Alloc(t) \/ LoopEnds(t) \/ LastClose(t)
  <2>1. UNCHANGED sock /\ ~Store(t) /\ (Goto(t, "arm") \/ Goto(t, "close") \/ End(t))
    BY <1>9 DEF Alloc, LoopEnds, LastClose, Store
  <2>2. rd'[t].pc \in {"arm", "end", "close"}
    BY <1>1, <2>1 DEF Goto, End, NewThread, Readers
  <2>3. QED
    BY <1>8, <2>1, <2>2 DEF Early
<1>10. CASE Arm(t)
  <2> DEFINE l == IF fds[rd[t].fd] \in Sockets THEN "loop" ELSE "close"
             w == fds[rd[t].fd]
  <2>1. rd' = [rd EXCEPT ![t].pc = l, ![t].watch = w] /\ UNCHANGED sock /\ ~Store(t) /\ l \in {"loop", "close"}
    BY <1>10 DEF Arm, Store
  <2> HIDE DEF l, w
  <2>2. rd'[t].pc = l
    BY <1>1, <2>1 DEF Readers
  <2>3. QED
    BY <1>8, <2>1, <2>2 DEF Early
<1>11. CASE CallbackFrees(t) \/ CallbackEnds(t)
  <2>1. rd[t].pc = "loop" /\ ~Store(t) /\ UNCHANGED sock
    BY <1>11 DEF CallbackFrees, CallbackEnds, Fires, Store
  <2>2. UNCHANGED rd \/ \E e : rd' = [rd EXCEPT ![e].quit = TRUE]
    BY <1>11 DEF CallbackFrees, CallbackEnds
  <2>3. rd'[t].pc = "loop"
    BY <1>1, <2>1, <2>2 DEF Readers
  <2>4. QED
    BY <1>8, <2>1, <2>3 DEF Early
<1>12. CASE Prepare(t) /\ ~Store(t)
  BY <1>8, <1>12 DEF Prepare, SameReader
<1>13. QED
  BY <1>4, <1>5, <1>6, <1>7, <1>9, <1>10, <1>11, <1>12 DEF Reader

\* A step of no reader adds nothing to the load.
LEMMA LoadByOthers ==
  ASSUME Types, \A q \in Requests : Start(q), [Next]_vars, ~Exit, \A t \in Threads : ~Reader(t),
         IsFiniteSet(Queued)
  PROVE  IsFiniteSet(Queued)' /\ Load' \in Nat /\ Load' <= Load
<1>1. rd \in [Threads -> Readers] /\ sock \in [Sockets \cup Clients -> Connections]
  BY DEF Types, RdType, TableType
<1>2. ASSUME Owing' \subseteq Owing, UNCHANGED sock
      PROVE  IsFiniteSet(Queued)' /\ Load' \in Nat /\ Load' <= Load
  BY <1>2, QueuedFacts, LoadMoves
<1>3. ASSUME NEW q \in Requests, Clear(q) \/ Coordinator(q)
      PROVE  IsFiniteSet(Queued)' /\ Load' \in Nat /\ Load' <= Load
  <2>1. UNCHANGED sock /\ (UNCHANGED rd \/ Fill(q))
    BY <1>3, CoordinatorFrame DEF Clear
  <2>2. CASE UNCHANGED rd
    BY <1>2, <2>1, <2>2 DEF Owing
  <2>3. CASE Fill(q)
    <3>1. \A i \in Slots : rd[<<q, i>>].pc = "none"
      BY <2>3 DEF Fill, Start, BeforeStart
    <3>2. ASSUME NEW t \in Threads
          PROVE  rd'[t] = rd[t] \/ rd[t].pc = "none"
      BY <2>3, <3>1, ThreadFacts DEF Fill
    <3>3. Owing' \subseteq Owing
      BY <3>2 DEF Owing, Early
    <3>4. QED
      BY <1>2, <2>1, <3>3
  <2>4. QED
    BY <2>1, <2>2, <2>3
<1>4. ASSUME NEW s \in Clients, Accept(s) \/ Leave(s)
      PROVE  IsFiniteSet(Queued)' /\ Load' \in Nat /\ Load' <= Load
  <2>1. Owing' = Owing
    BY <1>4 DEF Accept, Leave, Owing
  <2>2. \A r \in Sockets : sock'[r].data = sock[r].data
    BY <1>1, <1>4 DEF Accept, Leave, Connections
  <2>3. QED
    BY <2>1, <2>2, QueuedFacts, LoadMoves
<1>5. CASE UNCHANGED vars
  BY <1>2, <1>5 DEF vars, Owing
<1>6. QED
  BY <1>3, <1>4, <1>5 DEF Next

\* The load of a process that has just started, or has ended.
LEMMA FreshLoad ==
  ASSUME \A s \in Sockets : sock[s].data = << >>
  PROVE  IsFiniteSet(Queued) /\ Load \in Nat /\ Load <= MaxUnits
<1>1. Queued = {}
  BY DEF Queued
<1>2. Owing \subseteq Threads
  BY DEF Owing
<1>3. IsFiniteSet(Queued) /\ Cardinality(Queued) = 0
  BY <1>1, FS_EmptySet
<1>4. Cardinality(Owing) \in Nat /\ Cardinality(Owing) <= Cardinality(Threads)
  BY <1>2, FiniteThreads, CardinalityMoves
<1>5. QED
  BY <1>3, <1>4 DEF Load, MaxUnits

\* With everything cleared and nothing received the counts fit.
LEMMA FreshCounted ==
  ASSUME g = ZeroGroup, slot = [i \in Slots |-> ZeroSlot],
         \A s \in Sockets : sock[s].data = << >>
  PROVE  Counted
<1>1. IsFiniteSet(Queued) /\ Load \in Nat /\ Load <= MaxUnits
  BY FreshLoad
<1>2. \A k \in Bufs : g.full[k] = 0 /\ \A i \in Slots : slot[i].size[k] = 0
  BY DEF ZeroGroup, ZeroSlot
<1>3. Load + 0 <= MaxUnits
  BY <1>1, UnitsBound
<1>4. QED
  BY <1>1, <1>2, <1>3 DEF Counted, Room

\* The counts fit after every step.
LEMMA CountedNext ==
  ASSUME IInv, Counted, [Next]_vars
  PROVE  Counted'
<1>1. Types /\ Types' /\ (\A q \in Requests : Start(q)) /\ IsFiniteSet(Queued)
  BY InvNext DEF IInv, Counted
<1>2. CASE Exit
  <2>1. /\ (g = ZeroGroup)' /\ (slot = [i \in Slots |-> ZeroSlot])'
        /\ (\A s \in Sockets : sock[s].data = << >>)'
    BY <1>2 DEF Exit, GoneSock
  <2>2. QED
    BY <2>1, FreshCounted, PTL
<1>3. ASSUME ~Exit, NEW t \in Threads, Store(t)
      PROVE  Counted'
  <2>1. Reader(t)
    BY <1>3 DEF Reader
  <2>2. IsFiniteSet(Queued)' /\ Load' \in Nat /\ Load' + 1 <= Load
    BY <1>1, <1>3, <2>1, LoadByReader
  <2>3. \A k \in Bufs : /\ g'.full[k] <= g.full[k] + 1
                        /\ \A i \in Slots : slot'[i].size[k] <= slot[i].size[k] + 1
    BY <1>1, <1>3, StoreCounts
  <2>4. QED
    BY <1>1, <2>2, <2>3, CountedLater
<1>4. ASSUME ~Exit, \A t \in Threads : ~Store(t)
      PROVE  Counted'
  <2>1. IsFiniteSet(Queued)' /\ Load' \in Nat /\ Load' <= Load
    BY <1>1, <1>4, LoadByReader, LoadByOthers
  <2>2. NoUnits
    BY <1>1, <1>4, NoUnitsCounted
  <2>3. /\ \A k \in Bufs : g.full[k] \in Nat /\ g'.full[k] \in Nat
        /\ \A k \in Bufs, i \in Slots : slot[i].size[k] \in Nat /\ slot'[i].size[k] \in Nat
    BY <1>1 DEF Types, GroupType, Groups, Elements
  <2>4. \A k \in Bufs : /\ g'.full[k] <= g.full[k] + 0
                        /\ \A i \in Slots : slot'[i].size[k] <= slot[i].size[k] + 0
    BY <2>2, <2>3 DEF NoUnits
  <2>5. Load \in Nat /\ Load' + 0 <= Load
    BY <1>1, <2>1, LoadMoves
  <2>6. QED
    BY <1>1, <2>1, <2>4, <2>5, CountedLater
<1>5. QED
  BY <1>2, <1>3, <1>4

\* A round over equally full buffers XORs units.
LEMMA OutputsRound ==
  ASSUME Types, Counted, OutputsType, NEW q \in Requests, Round(q), ~Exit
  PROVE  co'[q].out \in Seq(SUBSET Units)
<1>1. /\ co[q].num \in 0..MaxFiles /\ co[q].num > 0 /\ co[q].out \in Seq(SUBSET Units)
      /\ co \in [Requests -> Coordinators({co[p].out : p \in Requests})]
      /\ slot \in [Slots -> Elements] /\ heap \in [Threads -> Buffers] /\ MaxFiles \in Nat
  <2>1. /\ co \in [Requests -> Coordinators({co[p].out : p \in Requests})]
        /\ slot \in [Slots -> Elements] /\ heap \in [Threads -> Buffers]
    BY DEF Types, CoType, GroupType, TableType
  <2>2. co[q].num \in 0..MaxFiles
    BY <2>1 DEF Coordinators
  <2>3. co[q].num > 0 /\ co[q].out \in Seq(SUBSET Units)
    BY DEF Round, OutputsType
  <2>4. MaxFiles \in Nat
    BY Constants
  <2>5. QED
    BY <2>1, <2>2, <2>3, <2>4
<1> DEFINE used == 1..co[q].num
           size(k) == slot[1].size[k]
           unit(k, p) == {heap[slot[i].ptr].unit[k][p] : i \in used}
           more(k) == [p \in 1..size(k) |-> unit(k, p)]
<1>2. used \subseteq Slots /\ 1 \in Slots
  BY <1>1 DEF Slots
<1>3. PICK k \in Turn(q) :
        \/ \E group : RoundOver(q, k, group, co[q].out)
        \/ /\ \E group : RoundOver(q, k, group, co[q].out \o more(k))
           /\ size(k) > 0 => \A i \in used : ~Unusable(slot[i].ptr)
  BY DEF Round
<1>4. k \in Bufs
  BY DEF Turn, Bufs
<1>5. size(k) \in Nat /\ size(k) <= MaxUnits /\ MaxUnits \in Nat
  <2>1. Load \in Nat /\ Load + size(k) <= MaxUnits
    BY <1>2, <1>4, LoadMoves DEF Counted, Room
  <2>2. size(k) \in Nat
    BY <1>1, <1>2, <1>4 DEF Elements
  <2> HIDE DEF size
  <2>3. QED
    BY <2>1, <2>2, UnitsBound
<1>6. CASE \E group : RoundOver(q, k, group, co[q].out)
  BY <1>1, <1>6 DEF RoundOver, Coordinators
<1>7. ASSUME NEW group, RoundOver(q, k, group, co[q].out \o more(k)),
             size(k) > 0 => \A i \in used : ~Unusable(slot[i].ptr)
      PROVE  co'[q].out \in Seq(SUBSET Units)
  <2>1. ASSUME NEW p \in 1..size(k)
        PROVE  unit(k, p) \in SUBSET Units
    <3>1. size(k) > 0 /\ p \in 1..MaxUnits
      BY <1>5
    <3>2. ASSUME NEW i \in used
          PROVE  heap[slot[i].ptr].unit[k][p] \in Units
      <4>1. slot[i].ptr \in Threads
        BY <1>1, <1>2, <1>7, <3>1 DEF Unusable, Elements, Units
      <4>2. heap[slot[i].ptr] \in Buffers
        BY <1>1, <4>1
      <4>3. heap[slot[i].ptr].unit[k] \in [1..MaxUnits -> Units]
        BY <1>4, <4>2 DEF Buffers
      <4>4. QED
        BY <3>1, <4>3
    <3>3. QED
      BY <3>2
  <2> HIDE DEF unit
  <2>2. more(k) \in Seq(SUBSET Units)
    <3> HIDE DEF size
    <3>1. more(k) \in [1..size(k) -> SUBSET Units]
      BY <2>1
    <3>2. QED
      BY <1>5, <3>1
  <2> HIDE DEF more
  <2>3. co[q].out \o more(k) \in Seq(SUBSET Units)
    BY <1>1, <2>2
  <2>4. co'[q].out = co[q].out \o more(k)
    BY <1>1, <1>7 DEF RoundOver, Coordinators
  <2>5. QED
    BY <2>3, <2>4
<1>8. QED
  BY <1>3, <1>6, <1>7

\* The type of the outputs is kept.
LEMMA OutputsNext ==
  ASSUME Types, Counted, OutputsType, [Next]_vars
  PROVE  OutputsType'
<1>1. SUFFICES ASSUME NEW q \in Requests
               PROVE  co'[q].out \in Seq(SUBSET Units)
  BY DEF OutputsType, Units, Threads
<1>2. /\ co[q].out \in Seq(SUBSET Units) /\ << >> \in Seq(SUBSET Units)
      /\ co[q] \in Coordinators({co[p].out : p \in Requests})
      /\ co \in [Requests -> Coordinators({co[p].out : p \in Requests})]
  BY DEF OutputsType, Types, CoType
<1>3. CASE Exit
  BY <1>2, <1>3, ExitFrame
<1>4. ASSUME ~Exit, NEW p \in Requests, Clear(p)
      PROVE  co'[q].out = co[q].out
  BY <1>4, ClearFrame
<1>5. ASSUME ~Exit, NEW p \in Requests, Coordinator(p)
      PROVE  co'[q].out \in Seq(SUBSET Units)
  <2>1. CASE p # q
    BY <1>2, <1>5, <2>1, CoordinatorFrame
  <2>2. CASE Fill(q) \/ FillFails(q) \/ EnterJudge(q) \/ LoopTest(q)
    <3>1. CASE Fill(q) \/ FillFails(q) \/ EnterJudge(q)
      <4>1. \/ \E l, f : co' = [co EXCEPT ![q].pc = l, ![q].fd = f]
            \/ \E l, r : co' = [co EXCEPT ![q].pc = l, ![q].ret = r]
            \/ \E l, n : co' = [co EXCEPT ![q].pc = l, ![q].num = n]
        BY <3>1 DEF Fill, FillFails, EnterJudge
      <4>2. QED
        BY <1>2, <4>1 DEF Coordinators
    <3>2. CASE LoopTest(q)
      <4>1. \E l : co' = [co EXCEPT ![q].pc = l]
        BY <3>2 DEF LoopTest
      <4>2. QED
        BY <1>2, <4>1 DEF Coordinators
    <3>3. QED
      BY <2>2, <3>1, <3>2
  <2>3. CASE Round(q)
    BY <1>5, <2>3, OutputsRound
  <2>4. CASE RoundEmpty(q)
    <3>1. \E k, group : RoundOver(q, k, group, co[q].out)
      BY <1>5, <2>4 DEF RoundEmpty
    <3>2. QED
      BY <1>2, <3>1 DEF RoundOver, Coordinators
  <2>5. CASE Verdict(q)
    <3>1. co'[q].out \in {co[q].out, << >>}
      BY <1>2, <2>5 DEF Verdict, Coordinators
    <3>2. QED
      BY <1>2, <3>1
  <2>6. QED
    BY <1>5, <2>1, <2>2, <2>3, <2>4, <2>5 DEF Coordinator
<1>6. ASSUME ~Exit, NEW t \in Threads, Reader(t)
      PROVE  co' = co
  BY <1>6, ReaderFrame
<1>7. CASE UNCHANGED co
  BY <1>2, <1>7
<1>8. QED
  BY <1>2, <1>3, <1>4, <1>5, <1>6, <1>7 DEF Next, vars, Accept, Leave

\* The types, what the requests have and the count together.
UnitsInv == IInv /\ Counted /\ OutputsType

\* The invariant holds at the start.
LEMMA UnitsInvInit ==
  ASSUME Init
  PROVE  UnitsInv
<1>1. IInv
  BY InvInit
<1>2. Counted
  <2>1. \A s \in Sockets : sock[s].data = << >>
    BY DEF Init, NewSock, GoneSock
  <2>2. QED
    BY <2>1, FreshCounted DEF Init
<1>3. OutputsType
  <2>1. \A q \in Requests : co[q].out = << >>
    BY DEF Init
  <2>2. << >> \in Seq(SUBSET Units)
    OBVIOUS
  <2>3. QED
    BY <2>1, <2>2 DEF OutputsType
<1>4. QED
  BY <1>1, <1>2, <1>3 DEF UnitsInv

\* The invariant is inductive.
LEMMA UnitsInvNext ==
  ASSUME UnitsInv, [Next]_vars
  PROVE  UnitsInv'
<1>1. IInv /\ Types /\ Counted /\ OutputsType
  BY DEF UnitsInv, IInv
<1>2. IInv' /\ Counted' /\ OutputsType'
  BY <1>1, InvNext, CountedNext, OutputsNext
<1>3. QED
  BY <1>2 DEF UnitsInv

\* The invariant implies the types.
LEMMA UnitsInvFits ==
  ASSUME UnitsInv
  PROVE  TypeOK
<1>1. Types /\ OutputsType /\ Counted /\ Load \in Nat /\ MaxUnits \in Nat
  BY LoadMoves, UnitsBound DEF UnitsInv, IInv, Counted
<1>2. ASSUME NEW k \in Bufs
      PROVE  g.full[k] <= MaxUnits /\ \A i \in Slots : slot[i].size[k] <= MaxUnits
  <2>1. /\ g.full[k] \in Nat /\ Load + g.full[k] <= MaxUnits
        /\ \A i \in Slots : slot[i].size[k] \in Nat /\ Load + slot[i].size[k] <= MaxUnits
    BY <1>1 DEF Counted, Room, Types, GroupType, Groups, Elements
  <2>2. ASSUME NEW n \in Nat, Load + n <= MaxUnits
        PROVE  n <= MaxUnits
    BY <1>1, <2>2
  <2>3. QED
    BY <2>1, <2>2
<1>3. UnitsFit
  BY <1>1, <1>2 DEF UnitsFit, OutputsType
<1>4. QED
  BY <1>1, <1>3 DEF TypeOK

-----------------------------------------------------------------------------
(* The theorems.                                                           *)

\* Whatever the requests do to g_tgroupFile, the heap and the descriptor table
\* under each other, the values stay those that Types lists; in particular a
\* request thread past fopen() and a reader past socket() hold a descriptor of
\* the table, never a -1 (get_data_client_file_data.h:409).
THEOREM TypesCorrect == Spec => []Types
<1>1. Init => Types
  BY TypesInit
<1>2. Types /\ [Next]_vars => Types'
  BY TypesNext
<1>3. QED
  BY <1>1, <1>2, PTL DEF Spec

\* Whatever the requests and their threads do to the counters and elements under
\* each other, memset and restarts between the steps of write_buf included, no
\* buf_full_num and no buffer ever counts more units than there are readers, and
\* every entry XORed is one a buffer holds.
THEOREM CountsAndTypesCorrect == Spec => []TypeOK
<1>1. Init => UnitsInv
  BY UnitsInvInit
<1>2. UnitsInv /\ [Next]_vars => UnitsInv'
  BY UnitsInvNext
<1>3. UnitsInv => TypeOK
  BY UnitsInvFits
<1>4. QED
  BY <1>1, <1>2, <1>3, PTL DEF Spec

\* The inductive invariant: a request that is alone runs on its own elements,
\* buffers and sockets, and each unit asked for is in one place.
THEOREM LoneInductive == Spec => []IInv
<1>1. Init => IInv
  BY InvInit
<1>2. IInv /\ [Next]_vars => IInv'
  BY InvNext
<1>3. QED
  BY <1>1, <1>2, PTL DEF Spec

\* A request during which no thread of another request was active, and which
\* get_data_client_connect answers with RIGHT, has written the XOR of one block
\* of each of its own files, whatever earlier requests have left behind.
THEOREM LoneRequestsGetTheirFiles == Spec => []LoneRightMeansOwnFiles
<1>1. IInv => LoneRightMeansOwnFiles
  BY DEF IInv
<1>2. QED
  BY <1>1, LoneInductive, PTL
=============================================================================
