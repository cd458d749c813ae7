------------------------------ MODULE MCRedial ------------------------------
(* Redial on small instances: one or two callers, two links. *)
EXTENDS Redial, TLC

CONSTANTS u1, u2, l1, l2

OneUser == {u1}
TwoUsers == {u1, u2}
TwoLinks == {l1, l2}
=============================================================================
