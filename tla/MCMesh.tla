------------------------------- MODULE MCMesh -------------------------------
(* A small instance of Mesh for TLC. *)
EXTENDS Mesh

CONSTANTS r1, r2, daemon, peer

TwoRequests == {r1, r2}
OnePeer == {peer}
=============================================================================
