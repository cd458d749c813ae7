--------------------------- MODULE MCAckedPublish ---------------------------
(* AckedPublish on small instances: two links, the old one lingering. *)
EXTENDS AckedPublish, TLC

CONSTANTS l1, l2

TwoLinks == {l1, l2}
Symmetry == Permutations(TwoLinks)
=============================================================================
