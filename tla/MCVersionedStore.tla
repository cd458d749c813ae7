-------------------------- MODULE MCVersionedStore --------------------------
(* VersionedStore on small instances: two requests at once. *)
EXTENDS VersionedStore, TLC

CONSTANTS c1, c2, a

TwoClients == {c1, c2}
OneRetirer == {c1}
OneDatum == {a}
ByCount == {[maxVersions |-> 1, maxAge |-> FALSE], [maxVersions |-> 2, maxAge |-> TRUE]}
ByAge == {[maxVersions |-> 0, maxAge |-> TRUE]}

\* The requests are interchangeable.
Requests == Permutations(TwoClients)
=============================================================================
