----------------------------- MODULE MCIdentity -----------------------------
(* A small instance of Identity for TLC. *)
EXTENDS Identity, TLC

CONSTANTS p1, p2, s1, s2

OneProc == {p1}
TwoProcs == {p1, p2}
TwoScopes == {s1, s2}
OnlyFirst == {{s1}}

Symmetric == Permutations(TwoProcs)
=============================================================================
