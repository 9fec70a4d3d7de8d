---------------------------- MODULE ChunkStream ----------------------------
(***************************************************************************)
(* What a remote transfer promises about its output, without threads,      *)
(* buffers or a network.  The files have one size and are cut into chunks  *)
(* of READ_BUF_SIZE bytes, numbered from 0; the last may be shorter.  One  *)
(* XOR uses one whole chunk of every file, all of one length, and no chunk *)
(* is used twice.  With two buffers at most one chunk of a file can lie    *)
(* waiting while later ones are used: the chunks may be used out of order, *)
(* but two are never skipped.  RIGHT is returned only after every chunk of *)
(* every file.                                                             *)
(***************************************************************************)
EXTENDS Integers, FiniteSets

CONSTANTS Files,      \* the files of the group
          Size,       \* their size
          ChunkSize   \* READ_BUF_SIZE

VARIABLES used,       \* for each file the chunks that were used
          written,    \* how many bytes of output were written
          result      \* what the transfer returned

ChunkNum == (Size + ChunkSize - 1) \div ChunkSize
Chunks   == 0..(ChunkNum - 1)

Length(c) == IF (c + 1) * ChunkSize <= Size THEN ChunkSize ELSE Size - c * ChunkSize

Init == used = [f \in Files |-> {}] /\ written = 0 /\ result = "none"

\* Chunk c of file f may be used next.
MayUse(f, c) == c \notin used[f] /\ Cardinality((0..(c - 1)) \ used[f]) <= 1

Use ==
  /\ result = "none"
  /\ \E c \in [Files -> Chunks] :
       /\ \A f \in Files : written' = written + Length(c[f])
       /\ \A f \in Files : MayUse(f, c[f])
       /\ used' = [f \in Files |-> used[f] \cup {c[f]}]
  /\ UNCHANGED result

Return(r) ==
  /\ result = "none"
  /\ r = "RIGHT" => written = Size /\ \A f \in Files : used[f] = Chunks
  /\ result' = r
  /\ UNCHANGED <<used, written>>

Next == Use \/ \E r \in {"RIGHT", "ERROR"} : Return(r)

Spec == Init /\ [][Next]_<<used, written, result>>
=============================================================================
