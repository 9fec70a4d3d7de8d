---------------------------- MODULE MCGroupReuse ----------------------------
(***************************************************************************)
(* Instances of GroupReuse: two remote requests.                           *)
(***************************************************************************)
EXTENDS GroupReuse

Scenario(files, waits, visitors, limit) ==
  [files |-> files, waits |-> waits, visitors |-> visitors, limit |-> limit]

\* A client that waits for its reply, while another client connects.
OneClient == {Scenario(<<1, 1>>, TRUE, {1}, 5)}

\* The same, groups of two files, two clients at the same time, and two clients
\* at the limit of the descriptors.
AllScenarios ==
  OneClient \cup {Scenario(<<2, 1>>, TRUE, {}, 5), Scenario(<<1, 2>>, TRUE, {}, 5),
                  Scenario(<<1, 1>>, FALSE, {}, 5), Scenario(<<1, 2>>, FALSE, {}, 3)}
=============================================================================
