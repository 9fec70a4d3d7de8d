----------------------- MODULE RequestHandlingProofs -----------------------
(***************************************************************************)
(* Proofs about RequestHandling, for any number of connections, any set of *)
(* requests and any faults.  The shared g_tDataDerverInfo is written field *)
(* by field under server_mutex and read without it.  The invariant says    *)
(* what a connection may still rely on while other connections write: the  *)
(* fields it has assigned itself, until a request for another server       *)
(* crosses it.                                                             *)
(***************************************************************************)
EXTENDS RequestHandling, SequenceTheorems, TLAPS

Waiting == {"closed", "leaked", "idle"}

\* The locals of a connection agree with the place where it is.
Place(c) ==
  /\ pc[c] = "copy" => n[c] <= 3
  /\ pc[c] \in Waiting => n[c] = 1
  /\ pc[c] \in {"url", "connect"} => Len(seen[c]) = n[c] - 1
  /\ pc[c] \in Waiting \cup {"parse", "copy", "route", "local"} => seen[c] = << >>
  /\ pc[c] \in Waiting \cup {"parse", "copy", "route", "local", "url"} => codes[c] = << >>

\* The posts that have failed, and the one that was answered.
Posted(c) ==
  /\ pc[c] = "post" => Len(codes[c]) <= 3 /\ \A m \in 1..Len(codes[c]) : codes[c][m] # "200"
  /\ pc[c] \in {"answer", "connect"} => codes[c] # << >> /\ codes[c][Len(codes[c])] = "200"
  /\ ret[c] = "ERROR_SEND_FILE_NAME_CLIENT" =>
       /\ pc[c] = "reply" /\ Len(codes[c]) = 4
       /\ \A m \in 1..3 : codes[c][m] # "200"

\* The fields of the global that hold the server of the request of c.
Own(c, m) == info[Fields[m]] = req[c].server

\* A request finds the fields it has assigned as it left them; if it has got
\* past the parsing, it has assigned them all.  What it has read is its own.
Holds(c) ==
  /\ pc[c] \in {"parse", "copy"} /\ ret[c] = "RIGHT" =>
       \A m \in 1..3 : m < n[c] => Own(c, m)
  /\ pc[c] = "route" /\ ret[c] = "RIGHT" => \A m \in 1..3 : Own(c, m)
  /\ pc[c] \in {"url", "post", "answer", "connect"} => \A m \in 1..3 : Own(c, m)
  /\ pc[c] \in {"url", "post", "connect"} =>
       \A m \in 1..Len(seen[c]) : seen[c][m] = req[c].server
  /\ pc[c] = "local" => req[c].server = Here
  /\ pc[c] \in {"url", "post", "answer", "connect"} => req[c].server # Here

Places == \A c \in Conns : Place(c)
Posts  == \A c \in Conns : Posted(c)

\* That is so for every request that no request for another server has crossed.
Uncrossed == \A c \in Conns : ~crossed[c] => Holds(c)

IInv == TypeOK /\ Places /\ Posts /\ Uncrossed

-----------------------------------------------------------------------------
\* The three fields have three names.
LEMMA FieldFacts ==
  /\ \A m \in 1..3 : Fields[m] \in FieldNames
  /\ \A x \in FieldNames : \E m \in 1..3 : x = Fields[m]
  /\ \A l, m \in 1..3 : Fields[l] = Fields[m] => l = m
  /\ Fields[1] = "ip"
<1>1. Fields[1] = "ip" /\ Fields[2] = "port" /\ Fields[3] = "method"
  BY DEF Fields
<1>2. \A m \in 1..3 : m = 1 \/ m = 2 \/ m = 3
  OBVIOUS
<1>3. QED
  BY <1>1, <1>2 DEF FieldNames

\* What the constants are assumed to be.
LEMMA ConstantFacts ==
  /\ "free" \notin Conns /\ MaxRequests \in Nat /\ ReplyLen \in Nat
  /\ \A r \in Requests : r.server \in Values /\ r.server # "" /\ r.server # "mixed"
  /\ "" \in Values /\ "mixed" \in Values /\ NoRequest.server \in Values
BY RequestsAssumption DEF Values, NoRequest

\* The bounds are numbers.
LEMMA BoundFacts == MaxRequests \in Nat /\ ReplyLen \in Nat
BY RequestsAssumption

\* The places and results are what they are.
LEMMA LabelFacts ==
  /\ "closed" \in Pcs /\ "leaked" \in Pcs /\ "idle" \in Pcs /\ "parse" \in Pcs
  /\ "copy" \in Pcs /\ "route" \in Pcs /\ "url" \in Pcs /\ "post" \in Pcs
  /\ "answer" \in Pcs /\ "connect" \in Pcs /\ "local" \in Pcs /\ "reply" \in Pcs
  /\ "RIGHT" \in Results /\ "ERROR_CJSON_PARSE" \in Results
  /\ "ERROR_CJSON_FORMAT" \in Results /\ "ERROR_FILE_NAME" \in Results
  /\ "ERROR_FILE_SIZE" \in Results /\ "ERROR_WORK" \in Results
  /\ "ERROR_SEND_FILE_NAME_CLIENT" \in Results
BY DEF Pcs, Results

-----------------------------------------------------------------------------
(* What one step of a connection changes.                                  *)

Step(c) ==
  Serve(c) \/ WriteFails(c) \/ Accept(c) \/ Ignore(c) \/ Close(c)
    \/ \E r \in Requests : Receive(c, r)

\* A table stays one when an entry is replaced.
LEMMA Update ==
  ASSUME NEW T, NEW t \in [Conns -> T], NEW c \in Conns, NEW v \in T
  PROVE  [t EXCEPT ![c] = v] \in [Conns -> T]
OBVIOUS

\* u is the table t, or t with a new entry for c.
Moved(t, u, c, T) == u = t \/ \E v \in T : u = [t EXCEPT ![c] = v]

\* A step changes the numbers of its own connection only, within their bounds.
LEMMA NumberMoves ==
  ASSUME TypeOK, Places, NEW c \in Conns, Step(c)
  PROVE  /\ Moved(n, n', c, 1..4)
         /\ Moved(left, left', c, 0..ReplyLen)
         /\ Moved(served, served', c, 0..MaxRequests)
<1>0. /\ n[c] \in 1..4 /\ served[c] \in 0..MaxRequests /\ left[c] \in 0..ReplyLen
      /\ pc[c] = "copy" => n[c] <= 3
  BY DEF TypeOK, NumberType, Places, Place
<1>1. Moved(n, n', c, 1..4)
  BY <1>0 DEF Step, Serve, Moved, ToField, Return, CopyBegins, CopyEnds, SkipField,
     ParseEnds, Route, ReadField, UrlBuilt, Post, Answer, Work, Write, WriteEnds,
     WriteFails, Accept, Ignore, Close, Receive
<1>2. Moved(left, left', c, 0..ReplyLen)
  <2>1. CASE Write(c)
    <3>1. PICK k \in 1..left[c] : left' = [left EXCEPT ![c] = left[c] - k]
      BY <2>1 DEF Write, Wrote
    <3>2. left[c] - k \in 0..ReplyLen
      BY <1>0, BoundFacts
    <3>3. QED
      BY <3>1, <3>2 DEF Moved
  <2>2. 0 \in 0..ReplyLen /\ ReplyLen \in 0..ReplyLen
    BY BoundFacts
  <2>3. \/ Write(c) \/ left' = left
        \/ left' = [left EXCEPT ![c] = 0] \/ left' = [left EXCEPT ![c] = ReplyLen]
    BY DEF Step, Serve, Return, CopyBegins, CopyEnds, SkipField, ParseEnds, Route,
       ReadField, UrlBuilt, Post, Answer, Work, WriteEnds, WriteFails, Accept, Ignore,
       Close, Receive
  <2>4. QED
    BY <2>1, <2>2, <2>3 DEF Moved
<1>3. Moved(served, served', c, 0..MaxRequests)
  <2>1. MaxRequests \in 0..MaxRequests /\ (served[c] < MaxRequests => served[c] + 1 \in 0..MaxRequests)
    BY <1>0, BoundFacts
  <2>2. \/ served' = served \/ served' = [served EXCEPT ![c] = MaxRequests]
        \/ served[c] < MaxRequests /\ served' = [served EXCEPT ![c] = served[c] + 1]
    BY DEF Step, Serve, Return, CopyBegins, CopyEnds, SkipField, ParseEnds, Route,
       ReadField, UrlBuilt, Post, Answer, Work, Write, WriteEnds, WriteFails, Accept,
       Ignore, Close, Receive
  <2>3. QED
    BY <2>1, <2>2 DEF Moved
<1>4. QED
  BY <1>1, <1>2, <1>3

\* The same for its place, its request and the variable ret.
LEMMA LabelMoves ==
  ASSUME TypeOK, NEW c \in Conns, Step(c)
  PROVE  /\ Moved(pc, pc', c, Pcs)
         /\ Moved(ret, ret', c, Results)
         /\ Moved(req, req', c, Requests \cup {NoRequest})
<1>1. Moved(pc, pc', c, Pcs)
  BY LabelFacts DEF Step, Serve, Moved, Goto, Return, CopyBegins, CopyEnds, SkipField,
     ParseEnds, Route, ReadField, UrlBuilt, Post, Answer, Work, Write, WriteEnds,
     WriteFails, Accept, Ignore, Close, Receive
<1>2. Moved(ret, ret', c, Results)
  BY LabelFacts DEF Step, Serve, Moved, Set, Missing, Return, CopyBegins, CopyEnds,
     SkipField, ParseEnds, Route, ReadField, UrlBuilt, Post, Answer, Work, Write,
     WriteEnds, WriteFails, Accept, Ignore, Close, Receive
<1>3. Moved(req, req', c, Requests \cup {NoRequest})
  BY DEF Step, Serve, Moved, Return, CopyBegins, CopyEnds, SkipField, ParseEnds, Route,
     ReadField, UrlBuilt, Post, Answer, Work, Write, WriteEnds, WriteFails, Accept,
     Ignore, Close, Receive
<1>4. QED
  BY <1>1, <1>2, <1>3

\* The same for what it has read of the global and the answers to its posts:
\* three fields at most, and four posts.
LEMMA LogMoves ==
  ASSUME TypeOK, Places, Posts, NEW c \in Conns, Step(c)
  PROVE  /\ Moved(seen, seen', c, {s \in Seq(Values) : Len(s) <= 3})
         /\ Moved(codes, codes', c, {s \in Seq({"200", "other"}) : Len(s) <= 4})
<1>0. /\ n[c] \in 1..4 /\ seen[c] \in Seq(Values) /\ codes[c] \in Seq({"200", "other"})
      /\ pc[c] \in {"url", "connect"} => Len(seen[c]) = n[c] - 1
      /\ pc[c] = "post" => Len(codes[c]) <= 3
      /\ \A m \in 1..3 : info[Fields[m]] \in Values
  BY FieldFacts DEF TypeOK, NumberType, LogType, SharedType, Places, Place, Posts, Posted
<1>e. /\ << >> \in {s \in Seq(Values) : Len(s) <= 3}
      /\ << >> \in {s \in Seq({"200", "other"}) : Len(s) <= 4}
  BY EmptySeq
<1>1. Moved(seen, seen', c, {s \in Seq(Values) : Len(s) <= 3})
  <2>1. CASE ReadField(c)
    <3> DEFINE s == Append(seen[c], info[Fields[n[c]]])
    <3>1. s \in Seq(Values) /\ Len(s) <= 3
      BY <1>0, <2>1, AppendProperties DEF ReadField
    <3>2. seen' = [seen EXCEPT ![c] = s]
      BY <2>1 DEF ReadField
    <3> HIDE DEF s
    <3>3. QED
      BY <3>1, <3>2 DEF Moved
  <2>2. ReadField(c) \/ seen' = seen \/ seen' = [seen EXCEPT ![c] = << >>]
    BY DEF Step, Serve, Return, CopyBegins, CopyEnds, SkipField, ParseEnds, Route,
       UrlBuilt, Post, Answer, Work, Write, WriteEnds, WriteFails, Accept, Ignore, Close,
       Receive
  <2>3. QED
    BY <1>e, <2>1, <2>2 DEF Moved
<1>2. Moved(codes, codes', c, {s \in Seq({"200", "other"}) : Len(s) <= 4})
  <2>1. CASE Post(c)
    <3>1. PICK v \in {"200", "other"} : codes' = [codes EXCEPT ![c] = Append(codes[c], v)]
      BY <2>1 DEF Post
    <3>2. Append(codes[c], v) \in Seq({"200", "other"}) /\ Len(Append(codes[c], v)) <= 4
      BY <1>0, <2>1, <3>1, AppendProperties DEF Post
    <3>3. QED
      BY <3>1, <3>2 DEF Moved
  <2>2. Post(c) \/ codes' = codes \/ codes' = [codes EXCEPT ![c] = << >>]
    BY DEF Step, Serve, Return, CopyBegins, CopyEnds, SkipField, ParseEnds, Route,
       ReadField, UrlBuilt, Answer, Work, Write, WriteEnds, WriteFails, Accept, Ignore,
       Close, Receive
  <2>3. QED
    BY <1>e, <2>1, <2>2 DEF Moved
<1>3. QED
  BY <1>1, <1>2

\* The locals of the other connections do not change.
LEMMA Others ==
  ASSUME TypeOK, Places, Posts, NEW c \in Conns, Step(c), NEW d \in Conns, d # c
  PROVE  /\ pc'[d] = pc[d] /\ req'[d] = req[d] /\ n'[d] = n[d] /\ ret'[d] = ret[d]
         /\ seen'[d] = seen[d] /\ codes'[d] = codes[d]
<1>1. /\ DOMAIN pc = Conns /\ DOMAIN req = Conns /\ DOMAIN n = Conns /\ DOMAIN ret = Conns
      /\ DOMAIN seen = Conns /\ DOMAIN codes = Conns
  BY DEF TypeOK, LabelType, NumberType, LogType
<1>2. n'[d] = n[d]
  BY <1>1, NumberMoves DEF Moved
<1>3. pc'[d] = pc[d] /\ req'[d] = req[d] /\ ret'[d] = ret[d]
  BY <1>1, LabelMoves DEF Moved
<1>4. seen'[d] = seen[d] /\ codes'[d] = codes[d]
  BY <1>1, LogMoves DEF Moved
<1>5. QED
  BY <1>2, <1>3, <1>4

\* A step leaves the locals of its connection as its new place wants them.
LEMMA PlacesStep ==
  ASSUME TypeOK, Places, Posts, NEW c \in Conns, Step(c)
  PROVE  Places'
<1> SUFFICES ASSUME NEW d \in Conns PROVE Place(d)'
  BY DEF Places
<1>0. Place(d)
  BY DEF Places
<1>1. CASE d # c
  BY <1>0, <1>1, Others DEF Place
<1>2. CASE d = c
  <2>0. /\ Place(c) /\ pc \in [Conns -> Pcs] /\ n \in [Conns -> 1..4]
        /\ seen \in [Conns -> Seq(Values)] /\ DOMAIN codes = Conns
    BY <1>0, <1>2 DEF TypeOK, LabelType, NumberType, LogType
  <2> SUFFICES Place(c)'
    BY <1>2
  <2>1. CASE CopyBegins(c)
    BY <2>0, <2>1 DEF Place, Waiting, CopyBegins, Goto
  <2>2. CASE CopyEnds(c)
    BY <2>0, <2>2 DEF Place, Waiting, CopyEnds, Goto, ToField
  <2>3. CASE SkipField(c)
    BY <2>0, <2>3 DEF Place, Waiting, SkipField, ToField
  <2>4. CASE ParseEnds(c)
    BY <2>0, <2>4 DEF Place, Waiting, ParseEnds, Goto
  <2>5. CASE Route(c)
    BY <2>0, <2>5 DEF Place, Waiting, Route, Goto, ToField
  <2>6. CASE ReadField(c)
    <3>1. info[Fields[n[c]]] \in Values
      <4>1. n[c] \in 1..3
        BY <2>0, <2>6 DEF ReadField
      <4>2. Fields[n[c]] \in FieldNames
        BY <4>1, FieldFacts
      <4>3. QED
        BY <4>2 DEF TypeOK, SharedType
    <3>2. Len(Append(seen[c], info[Fields[n[c]]])) = Len(seen[c]) + 1
      BY <2>0, <3>1, AppendProperties
    <3>3. /\ pc'[c] = pc[c] /\ pc[c] \in {"url", "connect"}
          /\ n'[c] = n[c] + 1 /\ Len(seen'[c]) = Len(seen[c]) + 1 /\ codes' = codes
      BY <2>0, <2>6, <3>2 DEF ReadField, ToField
    <3>4. QED
      BY <2>0, <3>3 DEF Place, Waiting
  <2>7. CASE UrlBuilt(c)
    BY <2>0, <2>7 DEF Place, Waiting, UrlBuilt, Goto
  <2>8. CASE Post(c)
    BY <2>0, <2>8 DEF Place, Waiting, Post, Goto
  <2>9. CASE Answer(c)
    BY <2>0, <2>9 DEF Place, Waiting, Answer, Goto, ToField
  <2>10. CASE Work(c)
    BY <2>0, <2>10 DEF Place, Waiting, Work, Goto
  <2>11. CASE Write(c)
    BY <2>0, <2>11 DEF Place, Waiting, Write
  <2>12. CASE WriteEnds(c)
    BY <2>0, <2>12 DEF Place, Waiting, WriteEnds, Return, Goto, ToField
  <2>13. CASE WriteFails(c)
    BY <2>0, <2>13 DEF Place, Waiting, WriteFails, Return, Goto, ToField
  <2>14. CASE Accept(c)
    BY <2>0, <2>14 DEF Place, Waiting, Accept, Goto
  <2>15. CASE Ignore(c)
    BY <2>0, <2>15 DEF Place, Waiting, Ignore
  <2>16. CASE Close(c)
    BY <2>0, <2>16 DEF Place, Waiting, Close, Goto
  <2>17. ASSUME NEW r \in Requests, Receive(c, r) PROVE Place(c)'
    BY <2>0, <2>17 DEF Place, Waiting, Receive, Goto
  <2>18. QED
    BY <1>2, <2>1, <2>2, <2>3, <2>4, <2>5, <2>6, <2>7, <2>8, <2>9, <2>10, <2>11, <2>12,
       <2>13, <2>14, <2>15, <2>16, <2>17 DEF Step, Serve
<1>3. QED
  BY <1>1, <1>2

\* The post loop of send_file_name_main: three failures lead to a fourth post
\* and the error, and only an answered post leads on.
LEMMA PostsStep ==
  ASSUME TypeOK, Places, Posts, NEW c \in Conns, Step(c)
  PROVE  Posts'
<1> SUFFICES ASSUME NEW d \in Conns PROVE Posted(d)'
  BY DEF Posts
<1>0. Place(d) /\ Posted(d)
  BY DEF Places, Posts
<1>1. CASE d # c
  BY <1>0, <1>1, Others DEF Posted
<1>2. CASE d = c
  <2>0. /\ Posted(c) /\ pc \in [Conns -> Pcs] /\ ret \in [Conns -> Results]
        /\ codes \in [Conns -> Seq({"200", "other"})]
    BY <1>0, <1>2 DEF TypeOK, LabelType, LogType
  <2>00. pc[c] \in Waiting \cup {"parse", "copy", "route", "local", "url"} => codes[c] = << >>
    BY <1>0, <1>2 DEF Place
  <2> SUFFICES Posted(c)'
    BY <1>2
  <2>1. CASE CopyBegins(c)
    BY <2>0, <2>00, <2>1 DEF Posted, Waiting, CopyBegins, Goto
  <2>2. CASE CopyEnds(c)
    BY <2>0, <2>00, <2>2 DEF Posted, Waiting, CopyEnds, Goto
  <2>3. CASE SkipField(c)
    BY <2>0, <2>00, <2>3 DEF Posted, Waiting, SkipField, Set, Missing
  <2>4. CASE ParseEnds(c)
    BY <2>0, <2>00, <2>4 DEF Posted, Waiting, ParseEnds, Goto, Set
  <2>5. CASE Route(c)
    BY <2>0, <2>00, <2>5 DEF Posted, Waiting, Route, Goto
  <2>6. CASE ReadField(c)
    BY <2>0, <2>00, <2>6 DEF Posted, Waiting, ReadField
  <2>7. CASE UrlBuilt(c)
    BY <2>0, <2>00, <2>7 DEF Posted, Waiting, UrlBuilt, Goto
  <2>8. CASE Post(c)
    <3>1. PICK v \in {"200", "other"} :
            /\ codes' = [codes EXCEPT ![c] = Append(codes[c], v)]
            /\ \/ Len(codes[c]) = 3 /\ Goto(c, "reply") /\ Set(c, "ERROR_SEND_FILE_NAME_CLIENT")
               \/ Len(codes[c]) # 3 /\ v = "200" /\ Goto(c, "answer") /\ UNCHANGED ret
               \/ Len(codes[c]) # 3 /\ v # "200" /\ UNCHANGED <<pc, ret>>
      BY <2>8 DEF Post, RetriesUsedUp
    <3> DEFINE s == Append(codes[c], v)
    <3>2. /\ s \in Seq({"200", "other"}) /\ Len(s) = Len(codes[c]) + 1 /\ s[Len(codes[c]) + 1] = v
          /\ \A m \in 1..Len(codes[c]) : s[m] = codes[c][m]
      BY <2>0, AppendProperties
    <3>3. /\ pc[c] = "post" /\ Len(codes[c]) \in Nat /\ Len(codes[c]) <= 3
          /\ \A m \in 1..Len(codes[c]) : codes[c][m] # "200"
          /\ ret[c] # "ERROR_SEND_FILE_NAME_CLIENT"
      BY <2>0, <2>8, LenProperties DEF Posted, Post
    <3>4. codes'[c] = s
      BY <2>0, <3>1
    <3> HIDE DEF s
    <3>5. s # << >>
      BY <3>2, <3>3, EmptySeq
    <3>6. CASE Len(codes[c]) = 3
      <4>1. pc'[c] = "reply" /\ Len(s) = 4
        BY <2>0, <3>1, <3>2, <3>6 DEF Goto
      <4>2. \A m \in 1..3 : s[m] # "200"
        BY <3>2, <3>3, <3>6
      <4>3. QED
        BY <3>4, <4>1, <4>2 DEF Posted
    <3>7. CASE Len(codes[c]) # 3 /\ v = "200"
      BY <2>0, <3>1, <3>2, <3>3, <3>4, <3>5, <3>7 DEF Posted, Goto
    <3>8. CASE Len(codes[c]) # 3 /\ v # "200"
      <4>1. pc'[c] = "post" /\ ret'[c] = ret[c] /\ Len(s) <= 3
        <5>1. pc' = pc /\ ret' = ret
          BY <3>1, <3>8
        <5>2. Len(s) = Len(codes[c]) + 1 /\ Len(codes[c]) \in Nat /\ Len(codes[c]) <= 3
          BY <3>2, <3>3
        <5>3. Len(s) <= 3
          <6>1. \A a, b \in Nat : a <= 3 /\ a # 3 /\ b = a + 1 => b <= 3
            OBVIOUS
          <6>2. QED
            BY <3>2, <3>8, <5>2, <6>1, LenProperties
        <5>4. QED
          BY <3>3, <5>1, <5>3
      <4>2. \A m \in 1..Len(s) : s[m] # "200"
        <5> TAKE m \in 1..Len(s)
        <5>1. m \in 1..Len(codes[c]) \/ m = Len(codes[c]) + 1
          BY <3>2, <3>3
        <5>2. QED
          BY <3>2, <3>3, <3>8, <5>1
      <4>3. QED
        BY <3>3, <3>4, <4>1, <4>2 DEF Posted
    <3>9. QED
      BY <3>6, <3>7, <3>8
  <2>9. CASE Answer(c)
    BY <2>0, <2>00, <2>9 DEF Posted, Waiting, Answer, Goto, Set
  <2>10. CASE Work(c)
    BY <2>0, <2>00, <2>10 DEF Posted, Waiting, Work, Goto, Set
  <2>11. CASE Write(c)
    BY <2>0, <2>00, <2>11 DEF Posted, Waiting, Write
  <2>12. CASE WriteEnds(c)
    BY <2>0, <2>00, <2>12 DEF Posted, Waiting, WriteEnds, Return, Goto, Set
  <2>13. CASE WriteFails(c)
    BY <2>0, <2>00, <2>13 DEF Posted, Waiting, WriteFails, Return, Goto, Set
  <2>14. CASE Accept(c)
    BY <2>0, <2>00, <2>14 DEF Posted, Waiting, Accept, Goto
  <2>15. CASE Ignore(c)
    BY <2>0, <2>00, <2>15 DEF Posted, Waiting, Ignore
  <2>16. CASE Close(c)
    BY <2>0, <2>00, <2>16 DEF Posted, Waiting, Close, Goto
  <2>17. ASSUME NEW r \in Requests, Receive(c, r) PROVE Posted(c)'
    BY <2>0, <2>00, <2>17 DEF Posted, Waiting, Receive, Goto, Set
  <2>18. QED
    BY <2>1, <2>2, <2>3, <2>4, <2>5, <2>6, <2>7, <2>8, <2>9, <2>10, <2>11, <2>12, <2>13,
       <2>14, <2>15, <2>16, <2>17 DEF Step, Serve
<1>3. QED
  BY <1>1, <1>2

\* Only strcpy changes the global, and crosses requests.
LEMMA QuietSteps ==
  ASSUME TypeOK, NEW c \in Conns, Step(c), ~CopyBegins(c), ~CopyEnds(c)
  PROVE  /\ info' = info /\ server_mutex' = server_mutex
         /\ crossed' = crossed \/ (crossed' = [crossed EXCEPT ![c] = FALSE] /\ pc'[c] = "idle")
<1>1. info' = info /\ server_mutex' = server_mutex
  BY DEF Step, Serve, Return, SkipField, ParseEnds, Route, ReadField, UrlBuilt, Post,
     Answer, Work, Write, WriteEnds, WriteFails, Accept, Ignore, Close, Receive
<1>2. crossed' = crossed \/ Return(c)
  BY DEF Step, Serve, SkipField, ParseEnds, Route, ReadField, UrlBuilt, Post, Answer,
     Work, Write, WriteEnds, WriteFails, Accept, Ignore, Close, Receive
<1>3. Return(c) => crossed' = [crossed EXCEPT ![c] = FALSE] /\ pc'[c] = "idle"
  BY DEF TypeOK, LabelType, Return, Goto
<1>4. QED
  BY <1>1, <1>2, <1>3

\* What strcpy writes: the field the connection is at, with its server or a
\* mixture, and not visibly if the field already holds that server.
LEMMA CopySteps ==
  ASSUME TypeOK, Places, NEW c \in Conns, CopyBegins(c) \/ CopyEnds(c)
  PROVE  /\ n[c] \in 1..3 /\ Step(c)
         /\ \A m \in 1..3 : m # n[c] => info'[Fields[m]] = info[Fields[m]]
         /\ info[Fields[n[c]]] = req[c].server => info'[Fields[n[c]]] = req[c].server
         /\ \A d \in Conns : /\ d = c => crossed'[d] = crossed[d]
                             /\ d # c /\ ~crossed'[d] =>
                                  /\ ~crossed[d]
                                  /\ \/ req[d].server = req[c].server
                                     \/ pc[d] \in {"closed", "leaked", "idle", "reply"}
<1>1. n[c] \in 1..3 /\ Step(c)
  BY DEF TypeOK, NumberType, Places, Place, CopyBegins, CopyEnds, Step, Serve
<1>2. PICK v : /\ info' = [info EXCEPT ![Fields[n[c]]] = v]
               /\ info[Fields[n[c]]] = req[c].server => v = req[c].server
  BY DEF CopyBegins, CopyEnds, Overwrite
<1>3. DOMAIN info = FieldNames
  BY DEF TypeOK, SharedType
<1>4. Fields[n[c]] \in FieldNames /\ \A m \in 1..3 : m # n[c] => Fields[m] # Fields[n[c]]
  BY <1>1, FieldFacts
<1>5. Crosses(c) /\ DOMAIN crossed = Conns /\ crossed \in [Conns -> BOOLEAN]
  BY DEF TypeOK, SharedType, CopyBegins, CopyEnds
<1>6. \A d \in Conns : crossed'[d] = (crossed[d] \/ (d # c /\ req[d].server # req[c].server
                                /\ pc[d] \notin {"closed", "leaked", "idle", "reply"}))
  BY <1>5 DEF Crosses
<1>7. /\ \A m \in 1..3 : m # n[c] => info'[Fields[m]] = info[Fields[m]]
      /\ info[Fields[n[c]]] = req[c].server => info'[Fields[n[c]]] = req[c].server
  BY <1>2, <1>3, <1>4, FieldFacts
<1>8. QED
  BY <1>1, <1>5, <1>6, <1>7, Zenon

\* A step of another connection.
LEMMA OthersHold ==
  ASSUME TypeOK, Places, Posts, Uncrossed, NEW c \in Conns, Step(c),
         NEW d \in Conns, d # c, ~crossed'[d]
  PROVE  Holds(d)'
<1>0. /\ pc'[d] = pc[d] /\ req'[d] = req[d] /\ n'[d] = n[d] /\ ret'[d] = ret[d]
      /\ seen'[d] = seen[d]
  BY Others
<1>1. CASE CopyBegins(c) \/ CopyEnds(c)
  <2>1. CASE pc[d] \in {"closed", "leaked", "idle", "reply"}
    BY <1>0, <2>1 DEF Holds
  <2>2. CASE pc[d] \notin {"closed", "leaked", "idle", "reply"}
    <3>1. req[d].server = req[c].server /\ Holds(d)
      BY <1>1, <2>2, CopySteps DEF Uncrossed
    <3>2. \A m \in 1..3 : info[Fields[m]] = req[d].server => info'[Fields[m]] = req[d].server
      BY <1>1, <3>1, CopySteps
    <3>3. QED
      BY <1>0, <3>1, <3>2 DEF Holds, Own
  <2>3. QED
    BY <2>1, <2>2
<1>2. CASE ~CopyBegins(c) /\ ~CopyEnds(c)
  <2>1. info' = info /\ crossed'[d] = crossed[d]
    BY <1>2, QuietSteps DEF TypeOK, SharedType
  <2>2. QED
    BY <1>0, <2>1 DEF Uncrossed, Holds, Own
<1>3. QED
  BY <1>1, <1>2

\* A step of the connection itself.
LEMMA OwnHolds ==
  ASSUME TypeOK, Places, Posts, Uncrossed, NEW c \in Conns, Step(c), ~crossed'[c]
  PROVE  Holds(c)'
<1>0. /\ pc \in [Conns -> Pcs] /\ n \in [Conns -> 1..4] /\ ret \in [Conns -> Results]
      /\ DOMAIN req = Conns /\ DOMAIN seen = Conns /\ DOMAIN codes = Conns
      /\ Place(c)
  BY DEF TypeOK, LabelType, NumberType, LogType, Places
<1>00. CASE pc'[c] = "idle"
  BY <1>00 DEF Holds
<1>01. ASSUME ~CopyBegins(c), ~CopyEnds(c), pc'[c] # "idle"
       PROVE  info' = info /\ Holds(c)
  BY <1>01, QuietSteps DEF Uncrossed
<1>02. ASSUME CopyBegins(c) \/ CopyEnds(c) PROVE Holds(c)
  BY <1>02, CopySteps DEF Uncrossed
<1>03. \A m \in 1..3 : Own(c, m)' = (info'[Fields[m]] = req'[c].server)
  BY DEF Own
<1>1. CASE CopyBegins(c)
  <2>1. pc[c] = "parse" /\ pc'[c] = "copy" /\ n' = n /\ req' = req /\ ret' = ret
    BY <1>0, <1>1 DEF CopyBegins, Goto
  <2>2. \A m \in 1..3 : m < n[c] => info'[Fields[m]] = info[Fields[m]]
    BY <1>0, <1>1, CopySteps
  <2>3. QED
    BY <1>1, <1>02, <2>1, <2>2 DEF Holds, Own
<1>2. CASE CopyEnds(c)
  <2>1. /\ pc[c] = "copy" /\ pc'[c] = "parse" /\ n'[c] = n[c] + 1 /\ req' = req /\ ret' = ret
    BY <1>0, <1>2 DEF CopyEnds, Goto, ToField
  <2>2. n[c] \in 1..3 /\ \A m \in 1..3 : m < n[c] => info'[Fields[m]] = info[Fields[m]]
    BY <1>0, <1>2, CopySteps
  <2>3. info'[Fields[n[c]]] = req[c].server
    BY <1>2, <2>2, FieldFacts DEF TypeOK, SharedType, CopyEnds
  <2>4. \A m \in 1..3 : m < n[c] + 1 => m < n[c] \/ m = n[c]
    BY <2>2
  <2>5. ret[c] = "RIGHT" => \A m \in 1..3 : m < n[c] + 1 => info'[Fields[m]] = req[c].server
    BY <1>2, <1>02, <2>1, <2>2, <2>3, <2>4 DEF Holds, Own
  <2>6. QED
    BY <2>1, <2>5 DEF Holds, Own
<1>3. CASE SkipField(c)
  BY <1>0, <1>00, <1>01, <1>3, FieldFacts DEF Holds, Own, Place, Waiting, CopyBegins,
     CopyEnds, SkipField, Set, Missing, ToField
<1>4. CASE ParseEnds(c)
  BY <1>0, <1>00, <1>01, <1>4, FieldFacts DEF Holds, Own, Place, Waiting, CopyBegins,
     CopyEnds, ParseEnds, Goto, Set
<1>5. CASE Route(c)
  BY <1>0, <1>00, <1>01, <1>5, FieldFacts DEF Holds, Own, Place, Waiting, CopyBegins,
     CopyEnds, Route, Goto, Proceeds
<1>6. CASE ReadField(c)
  <2>1. /\ pc' = pc /\ req' = req /\ pc[c] \in {"url", "connect"} /\ n[c] \in 1..3
        /\ seen' = [seen EXCEPT ![c] = Append(seen[c], info[Fields[n[c]]])]
    BY <1>0, <1>6 DEF ReadField
  <2>2. info' = info /\ Holds(c)
    BY <1>6, <1>01, <2>1 DEF ReadField, CopyBegins, CopyEnds
  <2>3. info[Fields[n[c]]] = req[c].server /\ info[Fields[n[c]]] \in Values
    BY <2>1, <2>2, FieldFacts DEF Holds, Own, TypeOK, SharedType
  <2> DEFINE s == Append(seen[c], info[Fields[n[c]]])
  <2>4. /\ Len(seen[c]) \in Nat /\ Len(s) = Len(seen[c]) + 1 /\ s[Len(seen[c]) + 1] = req[c].server
        /\ \A m \in 1..Len(seen[c]) : s[m] = seen[c][m]
    BY <2>3, AppendProperties, LenProperties DEF TypeOK, LogType
  <2>5. seen'[c] = s
    BY <1>0, <2>1
  <2> HIDE DEF s
  <2>6. \A m \in 1..Len(s) : s[m] = req[c].server
    <3> TAKE m \in 1..Len(s)
    <3>1. m \in 1..Len(seen[c]) \/ m = Len(seen[c]) + 1
      BY <2>4
    <3>2. QED
      BY <2>1, <2>2, <2>4, <3>1 DEF Holds
  <2>7. QED
    BY <2>1, <2>2, <2>5, <2>6 DEF Holds, Own
<1>7. CASE UrlBuilt(c)
  BY <1>0, <1>00, <1>01, <1>7, FieldFacts DEF Holds, Own, Place, Waiting, CopyBegins,
     CopyEnds, UrlBuilt, Goto
<1>8. CASE Post(c)
  BY <1>0, <1>00, <1>01, <1>8, FieldFacts DEF Holds, Own, Place, Waiting, CopyBegins,
     CopyEnds, Post, Goto, Set
<1>9. CASE Answer(c)
  BY <1>0, <1>00, <1>01, <1>9, FieldFacts DEF Holds, Own, Place, Waiting, CopyBegins,
     CopyEnds, Answer, Goto, Set
<1>10. CASE Work(c)
  BY <1>0, <1>00, <1>01, <1>10, FieldFacts DEF Holds, Own, Place, Waiting, CopyBegins,
     CopyEnds, Work, Goto, Set
<1>11. CASE Write(c)
  BY <1>0, <1>00, <1>01, <1>11, FieldFacts DEF Holds, Own, Place, Waiting, CopyBegins,
     CopyEnds, Write
<1>12. CASE WriteEnds(c)
  BY <1>0, <1>00, <1>01, <1>12, FieldFacts DEF Holds, Own, Place, Waiting, CopyBegins,
     CopyEnds, WriteEnds, Return, Goto, Set
<1>13. CASE WriteFails(c)
  BY <1>0, <1>00, <1>01, <1>13, FieldFacts DEF Holds, Own, Place, Waiting, CopyBegins,
     CopyEnds, WriteFails, Return, Goto, Set
<1>14. CASE Accept(c)
  BY <1>0, <1>00, <1>01, <1>14, FieldFacts DEF Holds, Own, Place, Waiting, CopyBegins,
     CopyEnds, Accept, Goto
<1>15. CASE Ignore(c)
  BY <1>0, <1>00, <1>01, <1>15, FieldFacts DEF Holds, Own, Place, Waiting, CopyBegins,
     CopyEnds, Ignore
<1>16. CASE Close(c)
  BY <1>0, <1>00, <1>01, <1>16, FieldFacts DEF Holds, Own, Place, Waiting, CopyBegins,
     CopyEnds, Close, Goto
<1>17. ASSUME NEW r \in Requests, Receive(c, r) PROVE Holds(c)'
  BY <1>0, <1>00, <1>01, <1>17, FieldFacts DEF Holds, Own, Place, Waiting, CopyBegins,
     CopyEnds, Receive, Goto, Set
<1>18. QED
  BY <1>1, <1>2, <1>3, <1>4, <1>5, <1>6, <1>7, <1>8, <1>9, <1>10, <1>11, <1>12, <1>13,
     <1>14, <1>15, <1>16, <1>17 DEF Step, Serve

\* So an uncrossed request keeps what it relies on, whoever takes the step.
LEMMA UncrossedStep ==
  ASSUME TypeOK, Places, Posts, Uncrossed, NEW c \in Conns, Step(c)
  PROVE  Uncrossed'
<1> SUFFICES ASSUME NEW d \in Conns, ~crossed'[d] PROVE Holds(d)'
  BY DEF Uncrossed
<1>1. CASE d = c
  BY <1>1, OwnHolds
<1>2. CASE d # c
  BY <1>2, OthersHold
<1>3. QED
  BY <1>1, <1>2

-----------------------------------------------------------------------------
(* The types, and the holder of server_mutex.                              *)

\* The variables that the connections share.
LEMMA SharedStep ==
  ASSUME TypeOK, Places, NEW c \in Conns, Step(c)
  PROVE  SharedType'
<1>0. SharedType /\ req[c].server \in Values
  BY ConstantFacts DEF TypeOK, LabelType
<1>1. CASE CopyBegins(c)
  BY <1>0, <1>1, ConstantFacts DEF SharedType, CopyBegins, Overwrite, Crosses
<1>2. CASE CopyEnds(c)
  BY <1>0, <1>2 DEF SharedType, CopyEnds, Crosses
<1>3. CASE ~CopyBegins(c) /\ ~CopyEnds(c)
  BY <1>0, <1>3, QuietSteps DEF SharedType
<1>4. QED
  BY <1>1, <1>2, <1>3

\* server_mutex is held exactly inside strcpy: nobody enters while another
\* thread is there.
LEMMA HolderStep ==
  ASSUME TypeOK, Places, Posts, NEW c \in Conns, Step(c), NEW d \in Conns
  PROVE  server_mutex' = d <=> pc'[d] = "copy"
<1>0. /\ pc \in [Conns -> Pcs] /\ "free" \notin Conns
      /\ server_mutex = c <=> pc[c] = "copy"
      /\ server_mutex = d <=> pc[d] = "copy"
      /\ d # c => pc'[d] = pc[d]
  BY ConstantFacts, Others DEF TypeOK, LabelType
<1>1. CASE CopyBegins(c)
  BY <1>0, <1>1 DEF CopyBegins, Goto
<1>2. CASE CopyEnds(c)
  BY <1>0, <1>2 DEF CopyEnds, Goto
<1>3. CASE ~CopyBegins(c) /\ ~CopyEnds(c)
  <2>1. server_mutex' = server_mutex
    BY <1>3, QuietSteps
  <2>2. pc'[c] # "copy" /\ pc[c] # "copy"
    BY <1>0, <1>3 DEF Step, Serve, Goto, Return, SkipField, ParseEnds, Route, ReadField,
       UrlBuilt, Post, Answer, Work, Write, WriteEnds, WriteFails, Accept, Ignore, Close,
       Receive
  <2>3. QED
    BY <1>0, <2>1, <2>2
<1>4. QED
  BY <1>1, <1>2, <1>3

\* All the types together.
LEMMA TypeStep ==
  ASSUME TypeOK, Places, Posts, NEW c \in Conns, Step(c)
  PROVE  TypeOK'
<1>1. SharedType' /\ \A d \in Conns : server_mutex' = d <=> pc'[d] = "copy"
  BY SharedStep, HolderStep
<1>2. LabelType'
  BY LabelMoves, Update DEF TypeOK, LabelType, Moved
<1>3. NumberType'
  BY NumberMoves, Update DEF TypeOK, NumberType, Moved
<1>4. LogType'
  <2>1. LogType
    BY DEF TypeOK
  <2>2. /\ seen' \in [Conns -> {s \in Seq(Values) : Len(s) <= 3}]
        /\ codes' \in [Conns -> {s \in Seq({"200", "other"}) : Len(s) <= 4}]
    BY <2>1, LogMoves DEF LogType, Moved
  <2>3. QED
    BY <2>2 DEF LogType
<1>5. QED
  BY <1>1, <1>2, <1>3, <1>4 DEF TypeOK

-----------------------------------------------------------------------------
(* The theorems.                                                           *)

\* The invariant holds when the server starts.
LEMMA InitIInv == Init => IInv
<1> SUFFICES ASSUME Init PROVE IInv
  OBVIOUS
<1>1. SharedType /\ LabelType /\ LogType
  <2>1. SharedType
    BY ConstantFacts DEF Init, SharedType
  <2>2. LabelType
    BY LabelFacts, Zenon DEF Init, LabelType
  <2>3. \A T : << >> \in Seq(T)
    BY EmptySeq
  <2>4. LogType
    <3>1. \A T : [c \in Conns |-> << >>] \in [Conns -> Seq(T)]
      BY <2>3
    <3>2. \A c \in Conns : Len(seen[c]) = 0 /\ Len(codes[c]) = 0
      BY EmptySeq DEF Init
    <3>3. seen \in [Conns -> Seq(Values)] /\ codes \in [Conns -> Seq({"200", "other"})]
      BY <3>1, Zenon DEF Init
    <3>4. QED
      BY <3>2, <3>3 DEF LogType
  <2>5. QED
    BY <2>1, <2>2, <2>4
<1>2. NumberType
  <2>1. 1 \in 1..4 /\ 0 \in 0..ReplyLen /\ 0 \in 0..MaxRequests
    BY BoundFacts
  <2>2. QED
    BY <2>1, Zenon DEF Init, NumberType
<1>3. TypeOK
  BY <1>1, <1>2, ConstantFacts DEF Init, TypeOK
<1>4. Places /\ Posts /\ Uncrossed
  BY EmptySeq DEF Init, Places, Place, Posts, Posted, Uncrossed, Holds, Waiting
<1>5. QED
  BY <1>3, <1>4 DEF IInv

\* The inductive invariant of the connections: types and the holder of
\* server_mutex, where the locals of buffered_on_read stand at each of its
\* calls, the posts of send_file_name_main, and what g_tDataDerverInfo still
\* holds for a request that no other server's request has crossed.
THEOREM RequestInductive == Spec => []IInv
<1>1. Init => IInv
  BY InitIInv
<1>2. IInv /\ [Next]_vars => IInv'
  <2> SUFFICES ASSUME IInv, [Next]_vars PROVE IInv'
    OBVIOUS
  <2>1. CASE Next
    <3>1. PICK c \in Conns : Step(c)
      BY <2>1 DEF Next, Step
    <3>2. QED
      BY <3>1, TypeStep, PlacesStep, PostsStep, UncrossedStep DEF IInv
  <2>2. CASE UNCHANGED vars
    BY <2>2 DEF vars, IInv, TypeOK, SharedType, LabelType, NumberType, LogType, Places,
       Place, Posts, Posted, Uncrossed, Holds, Own
  <2>3. QED
    BY <2>1, <2>2
<1>3. QED
  BY <1>1, <1>2, PTL DEF Spec

\* Types, and mutual exclusion in strcpy: server_mutex is held by the thread
\* that assigns a field of g_tDataDerverInfo, and by nobody else.
THEOREM RequestTypeCorrect == Spec => []TypeOK
<1>1. IInv => TypeOK
  BY DEF IInv
<1>2. QED
  BY <1>1, RequestInductive, PTL

\* send_file_name_main gives up only after three failed posts and a fourth
\* nobody looks at, and connect_to_server runs only after an answered post.
THEOREM RetriesAreExhausted == Spec => []RetriesExhausted
<1>1. IInv => RetriesExhausted
  BY DEF IInv, Posts, Posted, RetriesExhausted
<1>2. QED
  BY <1>1, RequestInductive, PTL

\* A request that no request for another server has crossed is posted to, and
\* fetched from, the server it names, and is worked on locally only if that is
\* this one: for any number of connections that write g_tDataDerverInfo field
\* by field and read it without the mutex.
THEOREM UncrossedIsServed == Spec => []UncrossedOwnServer
<1>1. IInv => UncrossedOwnServer
  BY DEF IInv, Uncrossed, Holds, UncrossedOwnServer
<1>2. QED
  BY <1>1, RequestInductive, PTL
=============================================================================
