----------------------------- MODULE Authentic ------------------------------
(***************************************************************************)
(* What signatures are for, without signatures: the holder of a key says   *)
(* something that counts until a given time, and somebody takes a          *)
(* statement as that key's only if it was said and still counts.           *)
(***************************************************************************)
EXTENDS Naturals

CONSTANTS
  Nothing     \* no statement

VARIABLES
  now,
  said,       \* the statements made: by which key, what, until when, whether
              \* the post-quantum key has confirmed it, and whether it has to
  taken       \* the statement that was taken as genuine last

vars == <<now, said, taken>>

Init == said = {} /\ taken = Nothing /\ now \in Nat

Say ==
  /\ \E s \in said' : said' = said \cup {s}
  /\ UNCHANGED <<now, taken>>

Take ==
  /\ \E s \in said, confirmed \in BOOLEAN :
       /\ now <= s.until
       /\ confirmed => s.confirmed
       /\ s.both => confirmed
       /\ taken' = [by |-> s.by, what |-> s.what, confirmed |-> confirmed]
  /\ UNCHANGED <<now, said>>

Tick == now' > now /\ UNCHANGED <<said, taken>>

Next == Say \/ Take \/ Tick

Spec == Init /\ [][Next]_vars
=============================================================================
