---------------------------- MODULE OAuthCascade ----------------------------
(***************************************************************************)
(* The recursion of cascade_remove, against the set that OAuthRecords says *)
(* it removes.                                                             *)
(***************************************************************************)
EXTENDS OAuthStore, FiniteSetsExt

\* The children are listed; each is descended into; then every registration
\* with that parent goes, and the tokens of the children listed.
RECURSIVE CascadeRemove(_, _)
MutantCascadeRemove(s, r) ==
  LET children == {i \in s.regs : s.parent[i] = r}
  IN  Forget(s, children)
CascadeRemove(s, r) ==
  LET children == {i \in s.regs : s.parent[i] = r}
      below == FoldSet(LAMBDA i, t : CascadeRemove(t, i), s, children)
      kept == Forget(below, {i \in below.regs : below.parent[i] = r})
  IN  [kept EXCEPT !.token = [i \in Ids |-> IF i \in children THEN 0 ELSE @[i]]]

\* remove_registration
RemoveRegistration(s, r) == Forget(s, {r})

\* Whatever a revocation has loaded, in whatever order it was registered and
\* however deep it is: the recursion leaves exactly the registrations that do
\* not descend from the one revoked, with their tokens.
CascadeIsComplete ==
  \A c \in Clients :
    pc[c] = "revoking" /\ ~Cyclic(copy[c], job[c].id)
      => RemoveRegistration(CascadeRemove(copy[c], job[c].id), job[c].id)
           = Without(copy[c], job[c].id)
=============================================================================
