------------------------------ MODULE MCAnchor ------------------------------
(* Small instances of Anchor for TLC. *)
EXTENDS AnchorRoots

CONSTANTS a1, a2

OneAgent == {a1}
TwoAgents == {a1, a2}

Symmetric == Permutations(TwoAgents)
=============================================================================
