---------------------------- MODULE MCReplicator ----------------------------
(* Replicator with two remotes that are pushed to, and no filter. *)
EXTENDS Replicator

CONSTANTS r1, r2

TwoRemotes == {r1, r2}
NoFilter == [r \in TwoRemotes |-> {}]
=============================================================================
