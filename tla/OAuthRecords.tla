---------------------------- MODULE OAuthRecords ----------------------------
(***************************************************************************)
(* The contents of an agent's OAuth store and the operations of            *)
(* oauth_store.rs on it, without the file they are kept in.                *)
(*                                                                         *)
(* A token stands for a whole token response: access token, refresh token, *)
(* expiry.  Responses are told apart by a number; 0 is no token.           *)
(***************************************************************************)
EXTENDS Naturals

CONSTANTS
  Ids,        \* registration ids
  NoId,       \* no parent registration
  Scopes,     \* OAuth scopes
  MaxTokens   \* bound on the number of token responses

ASSUME OAuthAssumption == NoId \notin Ids /\ MaxTokens \in Nat

\* What is stored of a registration that is not there is the default value.
OAuthStore ==
  [regs:   SUBSET Ids,
   parent: [Ids -> Ids \cup {NoId}],
   scopes: [Ids -> SUBSET Scopes],
   token:  [Ids -> 0..MaxTokens]]

Empty ==
  [regs   |-> {},
   parent |-> [i \in Ids |-> NoId],
   scopes |-> [i \in Ids |-> {}],
   token  |-> [i \in Ids |-> 0]]

\* register_provider, for an id that is not registered.  The parent need not
\* be registered, nor need the scopes be among the parent's.
RegisterProvider(s, i, p, sc) ==
  [s EXCEPT !.regs = @ \cup {i}, !.parent[i] = p, !.scopes[i] = sc]

\* store_tokens, for a registered id.
StoreTokens(s, i, t) == [s EXCEPT !.token[i] = t]

\* The registrations that descend from r: the least set that has every
\* registration whose parent is r or is in the set.
ClosedUnderChildren(s, r, D) ==
  \A i \in s.regs : s.parent[i] \in D \cup {r} => i \in D

Descendants(s, r) ==
  {i \in s.regs : \A D \in SUBSET s.regs : ClosedUnderChildren(s, r, D) => i \in D}

\* The registrations dead and their tokens are dropped.
MutantForget(s, dead) ==
  [s EXCEPT !.regs = @ \ dead,
            !.parent = [i \in Ids |-> IF i \in dead THEN NoId ELSE @[i]],
            !.scopes = [i \in Ids |-> IF i \in dead THEN {} ELSE @[i]]]
Forget(s, dead) ==
  [regs   |-> s.regs \ dead,
   parent |-> [i \in Ids |-> IF i \in dead THEN NoId ELSE s.parent[i]],
   scopes |-> [i \in Ids |-> IF i \in dead THEN {} ELSE s.scopes[i]],
   token  |-> [i \in Ids |-> IF i \in dead THEN 0 ELSE s.token[i]]]

\* cascade_remove and remove_registration, as oauth_revoke calls them.
Without(s, r) == Forget(s, Descendants(s, r) \cup {r})

\* cascade_remove recurses along the children without removing anything first:
\* when r descends from itself, the recursion does not end.
Cyclic(s, r) == r \in Descendants(s, r)
=============================================================================
