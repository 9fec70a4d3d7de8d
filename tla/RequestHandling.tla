-------------------------- MODULE RequestHandling --------------------------
(***************************************************************************)
(* The connections of oraid_server.  on_accept starts a thread for each;   *)
(* the thread serves the requests of its connection one after the other    *)
(* (buffered_on_read): it parses the request and writes the address of the *)
(* data server to the global g_tDataDerverInfo, decides from that global   *)
(* whether the files are local, and then XORs them (open_file) or asks the *)
(* data server for their size (send_file_name_main, with retries) and      *)
(* fetches them (create_client_connect_data_server).  server_mutex covers  *)
(* each assignment to the global, and none of the reads.                   *)
(*                                                                         *)
(* An address field is modelled by the server it belongs to, and the work  *)
(* of open_file and create_client_connect_data_server by its result; they  *)
(* are modelled in LocalXor and GroupTransfer.                             *)
(***************************************************************************)
EXTENDS Integers, Sequences, FiniteSets

CONSTANTS
  Conns,        \* the connections
  Here,         \* the address of this server
  Requests,     \* the requests the clients may send
  MaxRequests,  \* bound on the requests of one connection
  ReplyLen,     \* length of a reply, in units of what write may accept
  Faults        \* the kinds of failure the environment may produce

\* The fields of g_tDataDerverInfo in the order in which they are assigned.
Fields == <<"ip", "port", "method">>
FieldNames == {Fields[n] : n \in 1..3}

\* A request names a server; has is the set of fields it contains, "rest"
\* standing for output_file_name and file_name_total.  json: it parses.
ASSUME RequestsAssumption ==
  /\ \A r \in Requests : /\ r.json \in BOOLEAN
                         /\ r.has \subseteq FieldNames \cup {"rest"}
                         /\ r.server \notin {"", "mixed"}
  /\ "free" \notin Conns
  /\ MaxRequests \in Nat /\ ReplyLen \in Nat \ {0}
  /\ Faults \subseteq {"setup", "post", "answer", "work", "write"}

VARIABLES
  info,           \* g_tDataDerverInfo
  server_mutex,   \* its holder, or "free"
  pc, req, n,     \* what a connection does, its request, the field it is at
  ret,            \* the variable ret of buffered_on_read
  seen,           \* the fields of g_tDataDerverInfo it has read
  codes,          \* the answers to its posts so far
  left,           \* what write_buf has still to write
  served,         \* how many times the connection has had something to read
  crossed         \* history: while the request was under way, another connection
                  \* wrote the address of another server to the global

vars == <<info, server_mutex, pc, req, n, ret, seen, codes, left, served, crossed>>

NoRequest == [json |-> FALSE, has |-> {}, server |-> ""]

Init ==
  /\ info = [x \in FieldNames |-> ""]
  /\ server_mutex = "free"
  /\ pc = [c \in Conns |-> "closed"]
  /\ req = [c \in Conns |-> NoRequest]
  /\ n = [c \in Conns |-> 1]
  /\ ret = [c \in Conns |-> "RIGHT"]
  /\ seen = [c \in Conns |-> << >>]
  /\ codes = [c \in Conns |-> << >>]
  /\ left = [c \in Conns |-> 0]
  /\ served = [c \in Conns |-> 0]
  /\ crossed = [c \in Conns |-> FALSE]

Goto(c, l) == pc' = [pc EXCEPT ![c] = l]
Set(c, r)  == ret' = [ret EXCEPT ![c] = r]
ToField(c, m) == n' = [n EXCEPT ![c] = m]

-----------------------------------------------------------------------------
(* on_accept, process_in_new_thread_when_accepted, buffered_on_read.       *)

\* A thread for the connection; if it cannot be set up, the thread ends and
\* leaves the socket open.
Accept(c) ==
  /\ pc[c] = "closed" /\ served[c] = 0
  /\ Goto(c, "idle") \/ ("setup" \in Faults /\ Goto(c, "leaked"))
  /\ UNCHANGED <<info, server_mutex, req, n, ret, seen, codes, left, served, crossed>>

\* A request arrives.
Receive(c, r) ==
  /\ pc[c] = "idle" /\ served[c] < MaxRequests
  /\ served' = [served EXCEPT ![c] = @ + 1]
  /\ req' = [req EXCEPT ![c] = r]
  /\ IF r.json THEN Goto(c, "parse") /\ Set(c, "RIGHT")
               ELSE Goto(c, "route") /\ Set(c, "ERROR_CJSON_PARSE")
  /\ UNCHANGED <<info, server_mutex, n, seen, codes, left, crossed>>

\* What is read does not begin like an HTTP request, for instance because it is
\* the rest of a request whose first part has been answered with an error: it
\* is not answered.
Ignore(c) ==
  /\ pc[c] = "idle" /\ served[c] < MaxRequests
  /\ served' = [served EXCEPT ![c] = @ + 1]
  /\ UNCHANGED <<info, server_mutex, pc, req, n, ret, seen, codes, left, crossed>>

\* read returns 0 or an error: the connection is closed.
Close(c) ==
  /\ pc[c] = "idle"
  /\ Goto(c, "closed")
  /\ served' = [served EXCEPT ![c] = MaxRequests]
  /\ UNCHANGED <<info, server_mutex, req, n, ret, seen, codes, left, crossed>>

-----------------------------------------------------------------------------
(* get_json_need_xor_file_info                                             *)

\* strcpy over a field: while it runs, other threads see a mixture of the two
\* strings, unless they are the same.
Overwrite(old, new) == IF old = new THEN old ELSE "mixed"

\* The requests under way that lose the address they have written, or will
\* write, to this assignment.
Crosses(c) ==
  crossed' = [d \in Conns |-> crossed[d] \/ (d # c /\ req[d].server # req[c].server
                                /\ pc[d] \notin {"closed", "leaked", "idle", "reply"})]

CopyBegins(c) ==
  /\ pc[c] = "parse" /\ n[c] <= 3 /\ Fields[n[c]] \in req[c].has
  /\ server_mutex = "free" /\ server_mutex' = c
  /\ info' = [info EXCEPT ![Fields[n[c]]] = Overwrite(@, req[c].server)]
  /\ Goto(c, "copy") /\ Crosses(c)
  /\ UNCHANGED <<req, n, ret, seen, codes, left, served>>

\* Faulty variant: pthread_mutex_unlock is forgotten.
CopyEndsLocked(c) ==
  /\ pc[c] = "copy"
  /\ info' = [info EXCEPT ![Fields[n[c]]] = req[c].server]
  /\ ToField(c, n[c] + 1) /\ Goto(c, "parse") /\ Crosses(c)
  /\ UNCHANGED <<server_mutex, req, ret, seen, codes, left, served>>

CopyEnds(c) ==
  /\ pc[c] = "copy"
  /\ server_mutex' = "free"
  /\ info' = [info EXCEPT ![Fields[n[c]]] = req[c].server]
  /\ ToField(c, n[c] + 1) /\ Goto(c, "parse") /\ Crosses(c)
  /\ UNCHANGED <<req, ret, seen, codes, left, served>>

\* Faulty variant: a missing field is not an error.
MissingIgnored == "RIGHT"

\* sign = -1
Missing == "ERROR_CJSON_FORMAT"

\* A missing field is an error; the others are assigned all the same.
SkipField(c) ==
  /\ pc[c] = "parse" /\ n[c] <= 3 /\ Fields[n[c]] \notin req[c].has
  /\ Set(c, Missing)
  /\ ToField(c, n[c] + 1)
  /\ UNCHANGED <<info, server_mutex, pc, req, seen, codes, left, served, crossed>>

ParseEnds(c) ==
  /\ pc[c] = "parse" /\ n[c] = 4
  /\ IF "rest" \in req[c].has THEN UNCHANGED ret ELSE Set(c, "ERROR_CJSON_FORMAT")
  /\ Goto(c, "route")
  /\ UNCHANGED <<info, server_mutex, req, n, seen, codes, left, served, crossed>>

Proceeds(c) == ret[c] = "RIGHT"

\* The ip in the global decides whether the files are local.
Route(c) ==
  /\ pc[c] = "route"
  /\ LET work == IF info["ip"] = Here THEN "local" ELSE "url"
     IN  Goto(c, IF Proceeds(c) THEN work ELSE "reply")
  /\ ToField(c, 1)
  /\ left' = [left EXCEPT ![c] = ReplyLen]
  /\ UNCHANGED <<info, server_mutex, req, ret, seen, codes, served, crossed>>

-----------------------------------------------------------------------------
(* The remote path: set_send_nonlocal_http_content, send_file_name_main,   *)
(* get_json_nonlocal_file_attribute_info, connect_to_server.               *)

\* The global is read field by field: all three for the URL, ip and port for
\* the connection of the transfer.
ReadField(c) ==
  /\ \/ pc[c] = "url" /\ n[c] <= 3
     \/ pc[c] = "connect" /\ n[c] <= 2
  /\ seen' = [seen EXCEPT ![c] = Append(@, info[Fields[n[c]]])]
  /\ ToField(c, n[c] + 1)
  /\ UNCHANGED <<info, server_mutex, pc, req, ret, codes, left, served, crossed>>

UrlBuilt(c) ==
  /\ pc[c] = "url" /\ n[c] = 4
  /\ Goto(c, "post")
  /\ UNCHANGED <<info, server_mutex, req, n, ret, seen, codes, left, served, crossed>>

\* Faulty variant: one retry less.
RetriesUsedUpEarly(c) == Len(codes[c]) = 2

\* k == 2: the fourth post has just been sent.
RetriesUsedUp(c) == Len(codes[c]) = 3

\* A post fails if the data server cannot be reached or does not answer in 3
\* seconds.  After the fourth the loop returns an error without a look at it.
Post(c) ==
  /\ pc[c] = "post"
  /\ \E code \in {"200"} \cup {"other" : x \in Faults \cap {"post"}} :
     /\ codes' = [codes EXCEPT ![c] = Append(@, code)]
     /\ CASE RetriesUsedUp(c) -> Goto(c, "reply") /\ Set(c, "ERROR_SEND_FILE_NAME_CLIENT")
          [] code = "200" /\ ~RetriesUsedUp(c) -> Goto(c, "answer") /\ UNCHANGED ret
          [] OTHER -> UNCHANGED <<pc, ret>>
  /\ UNCHANGED <<info, server_mutex, req, n, seen, left, served, crossed>>

\* The answer gives the size of the files, or is an error.
Answer(c) ==
  /\ pc[c] = "answer"
  /\ \/ Goto(c, "connect") /\ UNCHANGED ret
     \/ /\ "answer" \in Faults /\ Goto(c, "reply")
        /\ \E r \in {"ERROR_FILE_NAME", "ERROR_FILE_SIZE"} : Set(c, r)
  /\ seen' = [seen EXCEPT ![c] = << >>]
  /\ ToField(c, 1)
  /\ UNCHANGED <<info, server_mutex, req, codes, left, served, crossed>>

\* The result of create_client_connect_data_server or of open_file.
Work(c) ==
  /\ pc[c] = "local" \/ (pc[c] = "connect" /\ n[c] = 3)
  /\ Goto(c, "reply")
  /\ UNCHANGED ret \/ ("work" \in Faults /\ Set(c, "ERROR_WORK"))
  /\ UNCHANGED <<info, server_mutex, req, n, seen, codes, left, served, crossed>>

-----------------------------------------------------------------------------
(* write_buf of send_feedback_info.cpp, on the non-blocking socket.        *)

\* Faulty variant: the bytes written are not subtracted.
WroteNothing(c, k) == left[c]

Wrote(c, k) == left[c] - k

\* write accepts k units; an interrupted write (EINTR) is simply repeated.
Write(c) ==
  /\ pc[c] = "reply" /\ left[c] > 0
  /\ \E k \in 1..left[c] : left' = [left EXCEPT ![c] = Wrote(c, k)]
  /\ UNCHANGED <<info, server_mutex, pc, req, n, ret, seen, codes, served, crossed>>

\* buffered_on_read returns, and its locals are gone.
Return(c) ==
  /\ Goto(c, "idle")
  /\ req' = [req EXCEPT ![c] = NoRequest]
  /\ ToField(c, 1) /\ Set(c, "RIGHT")
  /\ seen' = [seen EXCEPT ![c] = << >>]
  /\ codes' = [codes EXCEPT ![c] = << >>]
  /\ left' = [left EXCEPT ![c] = 0]
  /\ crossed' = [crossed EXCEPT ![c] = FALSE]
  /\ UNCHANGED <<info, server_mutex, served>>

WriteEnds(c) ==
  /\ pc[c] = "reply" /\ left[c] = 0
  /\ Return(c)

\* EAGAIN leaves the loop with the result of success and any other error with
\* WRITE_EXEC_ERROR, which is logged; the rest of the reply is not sent.
WriteFails(c) ==
  /\ pc[c] = "reply" /\ left[c] > 0 /\ "write" \in Faults
  /\ Return(c)

-----------------------------------------------------------------------------
\* The steps of the thread that serves connection c, once it has a request.
Serve(c) ==
  \/ CopyBegins(c) \/ CopyEnds(c) \/ SkipField(c) \/ ParseEnds(c) \/ Route(c)
  \/ ReadField(c) \/ UrlBuilt(c) \/ Post(c) \/ Answer(c) \/ Work(c)
  \/ Write(c) \/ WriteEnds(c)

Next ==
  \E c \in Conns : Serve(c) \/ WriteFails(c) \/ Accept(c) \/ Ignore(c) \/ Close(c)
                  \/ \E r \in Requests : Receive(c, r)

Spec == Init /\ [][Next]_vars

\* The threads run, posts end (timeout of 3 seconds) and so does the work; that
\* a write fails is never assumed.
\* server_mutex is held for one strcpy only, and a connection takes it at most
\* three times per request.
FairSpec == Spec /\ \A c \in Conns : WF_vars(Serve(c))

-----------------------------------------------------------------------------
(* Properties.                                                             *)

Values == {"", "mixed"} \cup {r.server : r \in Requests}

Pcs == {"closed", "leaked", "idle", "parse", "copy", "route", "url", "post", "answer",
        "connect", "local", "reply"}
Results == {"RIGHT", "ERROR_CJSON_PARSE", "ERROR_CJSON_FORMAT", "ERROR_FILE_NAME",
            "ERROR_SEND_FILE_NAME_CLIENT", "ERROR_FILE_SIZE", "ERROR_WORK"}

\* The types of what the connections share, of their locals, and of what they
\* have read and been answered.
SharedType ==
  /\ info \in [FieldNames -> Values]
  /\ server_mutex \in {"free"} \cup Conns
  /\ crossed \in [Conns -> BOOLEAN]

LabelType ==
  /\ pc \in [Conns -> Pcs]
  /\ req \in [Conns -> Requests \cup {NoRequest}]
  /\ ret \in [Conns -> Results]

NumberType ==
  /\ n \in [Conns -> 1..4]
  /\ left \in [Conns -> 0..ReplyLen]
  /\ served \in [Conns -> 0..MaxRequests]

LogType ==
  /\ seen \in [Conns -> Seq(Values)] /\ codes \in [Conns -> Seq({"200", "other"})]
  /\ \A c \in Conns : Len(seen[c]) <= 3 /\ Len(codes[c]) <= 4

\* Every variable has values of its type, and the holder of server_mutex is
\* exactly the thread that is inside strcpy.
TypeOK ==
  /\ SharedType /\ LabelType /\ NumberType /\ LogType
  /\ \A c \in Conns : server_mutex = c <=> pc[c] = "copy"

\* "the paths are sent to the remote server that stores the files"
\* (send_feedback_info.h): what a request is posted to, and what its transfer
\* connects to, is the server named in the request itself, not one left in
\* g_tDataDerverInfo by an earlier or a concurrent request.
OwnServer ==
  \A c \in Conns : pc[c] \in {"post", "connect"} =>
    \A m \in 1..Len(seen[c]) : seen[c][m] = req[c].server

\* The same, and the choice between local and remote files, for a request that
\* no request for another server has crossed: neither what an earlier request
\* left in the global, nor a field this request lacks, nor a concurrent request
\* for the same server sends the files to the wrong place.
UncrossedOwnServer ==
  \A c \in Conns : ~crossed[c] =>
    /\ pc[c] \in {"url", "post", "connect"} =>
         \A m \in 1..Len(seen[c]) : seen[c][m] = req[c].server
    /\ pc[c] = "local" => req[c].server = Here
    /\ pc[c] \in {"url", "post", "answer", "connect"} => req[c].server # Here

\* send_file_name_main gives up only after the post and two retries have
\* failed, sends no post after one that was answered, and the files are
\* fetched only after the answer (send_feedback_info.h: the error stands for a
\* network that is down).
RetriesExhausted ==
  \A c \in Conns :
    /\ ret[c] = "ERROR_SEND_FILE_NAME_CLIENT" =>
         Len(codes[c]) = 4 /\ \A m \in 1..3 : codes[c][m] # "200"
    /\ pc[c] = "connect" => codes[c] # << >> /\ codes[c][Len(codes[c])] = "200"

\* Every request comes to its end and leaves the connection ready for the next
\* (no thread waits for ever, and server_mutex is always given back).
Answered == \A c \in Conns : pc[c] \notin {"closed", "leaked", "idle"} ~> pc[c] = "idle"
=============================================================================
