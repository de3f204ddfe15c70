----------------------------- MODULE MCUpdates ------------------------------
(* A small instance of Updates for TLC. *)
EXTENDS Updates

CONSTANTS r1, r2, daemon

OneRequest == {r1}
TwoRequests == {r1, r2}
=============================================================================
