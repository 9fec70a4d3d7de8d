---------------------------- MODULE HttpMessages ----------------------------
(***************************************************************************)
(* The text of the requests and replies of one connection.  The client     *)
(* sends its messages as one stream; each read of buffered_on_read takes   *)
(* some piece of it, which need not be a message: the server keeps nothing *)
(* between two reads.  A piece that begins like an HTTP request is taken   *)
(* apart by get_input_http_info, its content is given to cJSON_Parse, and  *)
(* the reply is put together by set_output_http_info.                      *)
(*                                                                         *)
(* A text is a sequence of symbols.  "M" is the name of an HTTP method and *)
(* "CT" the thirteen characters Content-Type:, "CR", "LF" and "SP" are the *)
(* control characters and the space, "{" and "}" the braces of JSON; the   *)
(* other symbols are single characters that mean nothing here.  What a     *)
(* message that was accepted makes the server do is in RequestHandling.    *)
(***************************************************************************)
EXTENDS Integers, Sequences, FiniteSets, FiniteSetsExt, SequencesExt

CONSTANTS
  Symbols,         \* what texts are made of
  Conversations,   \* the sequences of messages a client may send
  MaxReads,        \* bound on the reads of the connection
  BufMax,          \* bytes of recvbuf
  TextMax,         \* bytes of buf and of receive_http_content
  FieldMax         \* bytes of the method, the header and the content type

CRLF == <<"CR", "LF">>

\* The symbols the server tells apart, and those it writes.
ASSUME SymbolsAssumption ==
  {"M", "CT", "CR", "LF", "SP", "{", "}", "0", "1", "D", "S", "L", "N", "NUL"} \subseteq Symbols

Texts == Seq(Symbols)

Has(t, x) == \E k \in DOMAIN t : t[k] = x

\* strlen: the name of a method has four characters (POST), Content-Type: thirteen.
Positions(t, x) == {k \in DOMAIN t : t[k] = x}
Bytes(t)     == Len(t) + 3 * Cardinality(Positions(t, "M")) + 12 * Cardinality(Positions(t, "CT"))

\* A message: the path and the protocol of its first line, its other header
\* lines, and its body.  The empty line ends the header.
Messages     == [path : Texts, protocol : Texts, head : Seq(Texts), body : Texts]
FirstLine(m) == <<"M", "SP">> \o m.path \o <<"SP">> \o m.protocol
Lines(m)     == <<FirstLine(m)>> \o m.head \o << << >> >>
Header(m)    == FlattenSeq([k \in DOMAIN Lines(m) |-> Lines(m)[k] \o CRLF])
Text(m)      == Header(m) \o m.body

\* The names of methods and header fields are used for nothing else, and no line
\* of the header looks like an object.
WellFormed(m) ==
  /\ m.path # << >> /\ m.path[1] = "/" /\ m.protocol # << >>
  /\ ~Has(m.path, "SP") /\ ~Has(m.protocol, "SP")
  /\ ~Has(Tail(Text(m)), "M") /\ ~Has(m.body, "CT")
  /\ \A k \in DOMAIN Lines(m) : ~Has(Lines(m)[k], "CR") /\ ~Has(Lines(m)[k], "LF")
  /\ \A k \in DOMAIN m.head :
       LET l == m.head[k]
       IN  l # << >> /\ l[1] # "{" /\ (l[1] = "CT" => Len(l) > 2 /\ l[2] = "SP")

\* The parts of a message fit into the buffers one by one.
Fits(m) ==
  /\ \A k \in DOMAIN Lines(m) : Bytes(Lines(m)[k]) < TextMax
  /\ Bytes(m.body) < TextMax
  /\ Bytes(m.path) < FieldMax /\ Bytes(m.protocol) < FieldMax
  /\ \A k \in DOMAIN m.head : m.head[k][1] = "CT" => Bytes(m.head[k]) - 14 < FieldMax

ASSUME MessagesAssumption ==
  /\ {MaxReads, BufMax, TextMax, FieldMax} \subseteq Nat
  /\ Conversations \subseteq Seq(Messages)
  /\ \A sent \in Conversations : \A c \in DOMAIN sent : WellFormed(sent[c]) /\ Fits(sent[c])

VARIABLES
  conv,      \* the messages the client sends
  at,        \* how much of them has been read
  reads,     \* how many reads there were
  aligned,   \* history: so far every read has taken exactly one message
  pc,        \* "idle", "scan" (in get_input_http_info) or "fault" (a local array
             \* is overrun, or read where nothing was written)
  recvbuf,   \* what was read
  j,         \* where the line begins (from 0); i is there too between two lines
  http,      \* receive_http_method, receive_http_header, receive_http_content_type
  accepted,  \* history: the contents cJSON_Parse has accepted, with their place
  replies    \* what has been sent to the client

vars == <<conv, at, reads, aligned, pc, recvbuf, j, http, accepted, replies>>

Stream == FlattenSeq([c \in DOMAIN conv |-> Text(conv[c])])

\* Where message c begins in the stream.
Start(c) == Len(FlattenSeq([d \in 1..(c - 1) |-> Text(conv[d])]))

NoFields == [method |-> << >>, header |-> << >>, type |-> << >>]

Init ==
  /\ conv \in Conversations
  /\ at = 0 /\ reads = 0 /\ aligned = TRUE
  /\ pc = "idle" /\ recvbuf = << >> /\ j = 0 /\ http = NoFields
  /\ accepted = << >> /\ replies = << >>

-----------------------------------------------------------------------------
(* buffered_on_read                                                        *)

\* Faulty variant: recvbuf is not cleared before the read.
ReceivedOverOld(old, new) == new \o SubSeq(old, Len(new) + 1, Len(old))

\* read into a cleared recvbuf
Received(old, new) == new

\* ret > 10 and the name of a method at the beginning
IsHttp(t) == Bytes(t) > 10 /\ t[1] = "M"

\* A piece of the stream is read.  What is not HTTP is not answered.
Read ==
  /\ pc = "idle" /\ reads < MaxReads
  /\ \E to \in (at + 1)..Len(Stream) :
       LET piece == SubSeq(Stream, at + 1, to)
       IN  /\ Bytes(piece) <= BufMax
           /\ recvbuf' = Received(recvbuf, piece)
           /\ pc' = IF IsHttp(piece) THEN "scan" ELSE "idle"
           /\ aligned' = (aligned /\ \E c \in DOMAIN conv : piece = Text(conv[c]) /\ at = Start(c))
           /\ at' = to
  /\ reads' = reads + 1
  /\ j' = 0 /\ http' = NoFields
  /\ UNCHANGED <<conv, accepted, replies>>

-----------------------------------------------------------------------------
(* get_input_http_info                                                     *)

\* The positions of the next '\r'.
Returns == {k \in (j + 1)..Len(recvbuf) : recvbuf[k] = "CR"}

\* Faulty variant: i++ only once.
AfterReturnOnce(k) == k

\* Faulty variant: i++ is forgotten.
AfterReturnStays(k) == k - 1

\* Faulty variant: i++ three times.
AfterReturnThrice(k) == k + 2

\* i++; i++; j = i; whatever follows the '\r' is skipped.
AfterReturn(k) == k + 1

\* p[i] is beyond recvbuf, of which everything that was not read is 0.
Beyond(i) == Bytes(recvbuf) + (i - Len(recvbuf)) >= BufMax /\ i >= Len(recvbuf)

\* Faulty variant: off by one.
MethodLengthOffByOne(t) == Bytes(t) - 3

\* strlen(buf2) - strlen(buf1) - 2; unsigned, so a negative value is huge.
MethodLength(t) == Bytes(t) - 2

\* The first line: the header is what follows the last space, the method what
\* is between the first space and the last without the character after it.
TakeFirstLine(line) ==
  LET spaces == {k \in DOMAIN line : line[k] = "SP"}
      buf2   == Min(spaces)
      buf1   == Max(spaces)
      value  == SubSeq(line, buf1 + 1, Len(line))
      length == MethodLength(SubSeq(line, buf2, buf1 - 1))
  IN  IF spaces = {} THEN pc' = "scan" /\ UNCHANGED http
      ELSE IF Bytes(value) >= FieldMax \/ length \notin 0..(FieldMax - 1)
      THEN pc' = "fault" /\ UNCHANGED http
      ELSE pc' = "scan" /\ http' = [http EXCEPT !.header = value,
                                                !.method = SubSeq(line, buf2 + 2, buf1 - 1)]

\* Any other line: what follows Content-Type: and one more character.
TakeLine(line) ==
  IF Bytes(line) > 14 /\ line[1] = "CT"
  THEN IF Bytes(line) - 14 >= FieldMax THEN pc' = "fault" /\ UNCHANGED http
       ELSE pc' = "scan" /\ http' = [http EXCEPT !.type = SubSeq(line, 3, Len(line))]
  ELSE pc' = "scan" /\ UNCHANGED http

\* The loop comes to the end of a line.
Line ==
  /\ pc = "scan" /\ Returns # {}
  /\ LET k    == Min(Returns)
         line == SubSeq(recvbuf, j + 1, k - 1)
     IN  /\ j' = AfterReturn(k)
         /\ IF Bytes(line) >= TextMax \/ Beyond(AfterReturn(k)) THEN pc' = "fault" /\ UNCHANGED http
            ELSE IF j = 0 THEN TakeFirstLine(line) ELSE TakeLine(line)
  /\ UNCHANGED <<conv, at, reads, aligned, recvbuf, accepted, replies>>

-----------------------------------------------------------------------------
(* cJSON_Parse, set_send_json_info and set_output_http_info                *)

Depth(t) == Cardinality({k \in DOMAIN t : t[k] = "{"}) - Cardinality({k \in DOMAIN t : t[k] = "}"})

\* A JSON object, as far as its braces show.
IsJson(t) == /\ t # << >> /\ t[1] = "{" /\ Depth(t) = 0
             /\ \A k \in 1..(Len(t) - 1) : Depth(SubSeq(t, 1, k)) > 0

\* cJSON_Parse takes the object at the beginning of t and does not look at what
\* follows it.
JsonLengths(t) == {k \in 1..Len(t) : IsJson(SubSeq(t, 1, k))}

\* The content of the reply is an object with the result.
ResultText(right) == <<"{", IF right THEN "0" ELSE "1", "}">>

\* Faulty variant: the empty line is forgotten.
DateLineOnly == <<"D", "LF">>

\* The date, which ctime ends with a line feed, and the empty line.
DateLine == <<"D", "LF">> \o CRLF

\* "200 OK" whatever the result ("S"); the Server line ("L"), and "Content-Length:" ("N")
\* with its number, which is length here.
set_output_http_info(content, header, type) ==
  [length |-> Len(content),
   text |-> header \o <<"SP", "S">> \o CRLF \o <<"CT", "SP">> \o type \o CRLF
            \o <<"L">> \o CRLF \o <<"N">> \o CRLF \o DateLine \o content]

\* The content is what follows the last line end.  It is parsed and answered;
\* write_buf sends strlen + 1 bytes, the NUL at the end too.
Finish ==
  /\ pc = "scan" /\ Returns = {}
  /\ LET content == SubSeq(recvbuf, j + 1, Len(recvbuf))
         lengths == JsonLengths(content)
         place   == at - Len(recvbuf) + j
         reply   == set_output_http_info(ResultText(lengths # {}), http.header, http.type)
     IN  IF Bytes(content) >= TextMax \/ Beyond(Len(recvbuf))
         THEN pc' = "fault" /\ UNCHANGED <<accepted, replies>>
         ELSE /\ pc' = "idle"
              /\ accepted' = IF lengths = {} THEN accepted
                             ELSE Append(accepted, [place |-> place,
                                                    text |-> SubSeq(content, 1, Min(lengths))])
              /\ replies' = Append(replies, [reply EXCEPT !.text = @ \o <<"NUL">>])
  /\ UNCHANGED <<conv, at, reads, aligned, recvbuf, j, http>>

-----------------------------------------------------------------------------
Next == Read \/ Line \/ Finish

Spec == Init /\ [][Next]_vars

\* The handler runs to its end.
FairSpec == Spec /\ WF_vars(Line) /\ WF_vars(Finish)

-----------------------------------------------------------------------------
(* Properties.                                                             *)

\* Every variable has values of its type, and the line begins at most one
\* place after the end of what was read, where recvbuf is still 0.
TypeOK ==
  /\ conv \in Conversations
  /\ at \in 0..Len(Stream) /\ reads \in 0..MaxReads /\ aligned \in BOOLEAN
  /\ pc \in {"idle", "scan", "fault"}
  /\ Len(recvbuf) <= at
  /\ j \in 0..(Len(recvbuf) + 1)
  /\ Len(replies) <= reads /\ Len(accepted) <= Len(replies)

\* The content type of a message, if it has one.
ContentType(m) ==
  LET types == {k \in DOMAIN m.head : m.head[k][1] = "CT"}
  IN  IF types = {} THEN << >> ELSE LET k == Max(types) IN SubSeq(m.head[k], 3, Len(m.head[k]))

Whole(c) == [place |-> Start(c) + Len(Header(conv[c])), text |-> conv[c].body]

\* A body with a '\r' is excluded below: get_input_http_info looks for the last '\r'
\* and not for the empty line.  So is one that begins like an object and is none:
\* cJSON_Parse takes the object at its beginning, or one that ends in the text of
\* the next message.
PlainBody(t) == ~Has(t, "CR") /\ (t # << >> /\ t[1] = "{" => IsJson(t))

\* When every read takes one message, every request is answered, in order, with
\* its own protocol and content type, its method is its path, and exactly the
\* bodies that are JSON are accepted.
AlignedServed ==
  aligned /\ pc = "idle" =>
    /\ Len(replies) = reads
    /\ \A c \in 1..reads : PlainBody(conv[c].body) =>
         LET right == \E a \in DOMAIN accepted : accepted[a] = Whole(c)
             reply == set_output_http_info(ResultText(right), conv[c].protocol, ContentType(conv[c]))
         IN  /\ right <=> IsJson(conv[c].body)
             /\ replies[c].text = reply.text \o <<"NUL">>
             /\ c = reads => http.method = Tail(conv[c].path)

\* However the stream is cut into pieces (a message in several reads, several
\* messages in one): what is accepted as a request is the whole body of one
\* message, and no message is accepted twice.
AcceptedAreBodies ==
  (\A c \in DOMAIN conv : PlainBody(conv[c].body)) =>
    /\ \A a \in DOMAIN accepted : \E c \in DOMAIN conv : accepted[a] = Whole(c)
    /\ \A a, b \in DOMAIN accepted : a < b => accepted[a].place < accepted[b].place

\* A piece of one message that fits into the buffers, and does not fill recvbuf
\* to its last two bytes, is taken apart without touching anything beyond them.
\* (Two messages in one read may be too long for buf even if each fits.)
OneMessageInBounds ==
  LET begin == at - Len(recvbuf)
      one   == \E c \in DOMAIN conv : /\ Start(c) <= begin
                                      /\ at <= Start(c) + Len(Text(conv[c]))
  IN  pc = "fault" => ~one \/ Bytes(recvbuf) >= BufMax - 1

\* Where a client that reads the header up to the first empty line finds the
\* body (a line ends with LF, or with CR LF).
HeaderEnds(t) ==
  {k \in 3..Len(t) : t[k] = "LF" /\ (t[k - 1] = "LF" \/ (t[k - 1] = "CR" /\ t[k - 2] = "LF"))}

\* A reply has exactly one header and Content-Length is the length of what
\* follows, but for the NUL that write_buf sends too.
RepliesFramed ==
  \A r \in DOMAIN replies :
    LET t == replies[r].text
    IN  \E end \in HeaderEnds(t) :
          /\ HeaderEnds(t) \cap 1..(end - 1) = {}
          /\ SubSeq(t, end + 1, end + replies[r].length) \in {ResultText(TRUE), ResultText(FALSE)}
          /\ SubSeq(t, end + replies[r].length + 1, Len(t)) = <<"NUL">>

\* The loop over the lines ends for everything that can be read.
ScanEnds == pc = "scan" ~> pc # "scan"
=============================================================================
