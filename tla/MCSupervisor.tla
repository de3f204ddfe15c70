---------------------------- MODULE MCSupervisor ----------------------------
(* Small instances of Supervisor for TLC. *)
EXTENDS Supervisor, TLC

CONSTANTS a1, a2, c1, c2

OneName == {a1}
TwoNames == {a1, a2}
OneClient == {c1}
TwoClients == {c1, c2}
NoName == {}

Symmetric == Permutations(TwoClients)
=============================================================================
