---------------------------- MODULE OAuthRegistry ----------------------------
(***************************************************************************)
(* What the OAuth store promises its clients: a registry in which each     *)
(* operation happens at once and takes nothing else with it.               *)
(***************************************************************************)
EXTENDS OAuthRecords

VARIABLE registry

Init == registry = Empty

\* A provider is registered under a new id.
Register(i, p, sc) ==
  /\ i \notin registry.regs
  /\ registry' = RegisterProvider(registry, i, p, sc)

\* Tokens are stored for a registration.
Grant(i, t) ==
  /\ i \in registry.regs
  /\ registry' = StoreTokens(registry, i, t)

\* A registration is removed with all that descend from it.
Revoke(i) ==
  /\ i \in registry.regs
  /\ registry' = Without(registry, i)

Next ==
  \E i \in Ids :
    \/ \E p \in Ids \cup {NoId}, sc \in SUBSET Scopes : Register(i, p, sc)
    \/ \E t \in 1..MaxTokens : Grant(i, t)
    \/ Revoke(i)

Spec == Init /\ [][Next]_registry
=============================================================================
