------------------------------ MODULE MCGuard ------------------------------
(* A small instance of Guard for TLC: a card that is accepted, a hybrid one, *)
(* one as the CLI issues it, one without the scopes and a garbled one.       *)
EXTENDS Guard

SomeCards ==
  { [id |-> 1, sig |-> "fields", hybrid |-> FALSE, pq |-> "none", scoped |-> TRUE],
    [id |-> 2, sig |-> "fields", hybrid |-> TRUE, pq |-> "valid", scoped |-> TRUE],
    [id |-> 1, sig |-> "canonical", hybrid |-> FALSE, pq |-> "none", scoped |-> TRUE],
    [id |-> 2, sig |-> "fields", hybrid |-> TRUE, pq |-> "bad", scoped |-> FALSE] }
=============================================================================
