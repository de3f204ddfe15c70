---------------------------- MODULE MCAuditChain ----------------------------
(* Small instances of AuditChain for TLC. *)
EXTENDS AuditChain, TLC

CONSTANTS w1, w2, a, b, x

TwoWriters == {w1, w2}
TwoAgents == {a, b}
OneAction == {x}

Symmetric == Permutations(TwoWriters) \cup Permutations(TwoAgents)
=============================================================================
