--------------------------- MODULE MCHttpMessages ---------------------------
(***************************************************************************)
(* Instances of HttpMessages.                                              *)
(***************************************************************************)
EXTENDS HttpMessages

Alphabet == {"M", "CT", "CR", "LF", "SP", "{", "}", "0", "1", "D", "S", "L", "N", "NUL",
             "/", "a", "b", "h", "v", "x", "y"}

Message(path, head, body) ==
  [path |-> path, protocol |-> <<"v">>, head |-> head, body |-> body]

TypeLine == <<"CT", "SP", "y">>

\* A path without and with a name, a content type or another line or both, and
\* a body that is short, of the largest size, not JSON, empty, or has a line end.
Short  == Message(<<"/">>, <<TypeLine>>, <<"{", "}">>)
Long   == Message(<<"/", "a", "b">>, <<<<"h">>, TypeLine>>,
                  <<"{", "x", "{", "x", "x", "}", "x", "x", "{", "}", "x", "x", "x", "x", "x", "}">>)
Plain  == Message(<<"/", "a">>, << >>, <<"x", "{", "}">>)
Empty  == Message(<<"/", "a">>, <<<<"h", "h">>>>, << >>)
Broken == Message(<<"/", "a">>, <<TypeLine>>, <<"{", "CR", "LF", "{", "}", "}">>)

\* One, two and three messages.
Mixed ==
  {<<m>> : m \in {Short, Long, Plain, Empty, Broken}}
    \cup {<<m, n>> : m \in {Short, Long, Plain}, n \in {Short, Long}}
    \cup {<<Short, Broken>>, <<Empty, Short>>, <<Short, Plain, Short>>}
=============================================================================
