----------------------------- MODULE AnchorRoots -----------------------------
(***************************************************************************)
(* compute_merkle_root, and what the roots of the anchors commit to.  A    *)
(* hash stands for what it was computed from: a pair of hashes is a tuple. *)
(***************************************************************************)
EXTENDS Anchor, SequencesExt

\* One level up; the last hash of an odd number is paired with itself.
MutantLevel(hashes) ==
  [i \in 1..(Len(hashes) \div 2) |-> <<"node", hashes[2 * i - 1], hashes[2 * i]>>]
Level(hashes) ==
  [i \in 1..((Len(hashes) + 1) \div 2) |->
     <<"node", hashes[2 * i - 1],
       IF 2 * i <= Len(hashes) THEN hashes[2 * i] ELSE hashes[2 * i - 1]>>]

RECURSIVE MerkleRoot(_)
MerkleRoot(hashes) ==
  IF hashes = << >> THEN <<"empty">>
  ELSE IF Len(hashes) = 1 THEN hashes[1]
  ELSE MerkleRoot(Level(hashes))

\* The sequences of entries without repetition, and those that share their root with
\* no other one.
Orders == UNION {SetToSeqs(E) : E \in SUBSET Entries}
Identified ==
  {batch \in Orders :
     \A s \in Orders : MerkleRoot(s) = MerkleRoot(batch) => s = batch}

\* The root of an anchor stands for its batch: no other sequence of entries, recorded
\* by now or later, has that root, though an odd one out is hashed with itself.
RootsIdentify == \A i \in DOMAIN anchors : anchors[i].batch \in Identified
=============================================================================
