--------------------------- MODULE MCStreamResume ---------------------------
(* StreamResume on small instances: two racing connections, or one. *)
EXTENDS StreamResume, TLC

CONSTANTS c1, c2

OneConn == {c1}
TwoConns == {c1, c2}
Symmetry == Permutations(TwoConns)

\* No seed, one that asks for the whole stream, one that the log reaches
\* later and one that it never reaches.
MCSeeds == {NoPos} \cup [stream : {1}, off : {0, 1, MaxLog + 1}]
=============================================================================
