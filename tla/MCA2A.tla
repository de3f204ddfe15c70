------------------------------- MODULE MCA2A -------------------------------
(* Small instances of A2A for TLC. *)
EXTENDS A2A, TLC

CONSTANTS c1, c2, c3, t1, t2

TwoClients == {c1, c2}
ThreeClients == {c1, c2, c3}
OneId == {t1}
TwoIds == {t1, t2}
=============================================================================
