------------------------- MODULE MCRequestHandling -------------------------
(***************************************************************************)
(* Instances of RequestHandling.                                           *)
(***************************************************************************)
EXTENDS RequestHandling

All == FieldNames \cup {"rest"}

Complete(S) == [json : {TRUE}, has : {All}, server : S]

\* Requests for this server and for a data server, complete, without one of the
\* fields, or not JSON at all.
MixedRequests ==
  Complete({"here", "A"})
    \cup [json : {TRUE}, has : {All \ {x} : x \in {"ip", "rest"}}, server : {"A"}]
    \cup [json : {FALSE}, has : {{}}, server : {"A"}]

\* Complete requests for two data servers.
TwoServerRequests == Complete({"A", "B"})
=============================================================================
