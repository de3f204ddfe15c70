----------------------------- MODULE MCSigning ------------------------------
(* The instance of Signing that TLC checks. *)
EXTENDS Signing

CONSTANT read

Plain == [method |-> "get", host |-> "h", path |-> "/a", query |-> "",
          headers |-> <<[name |-> "Digest", value |-> "d"]>>]

TheSent == {Plain}

\* It may arrive in another case; another request may arrive with its signature.
TheRequests ==
  {Plain,
   [Plain EXCEPT !.method = "GET", !.headers[1].name = "digest"],
   [Plain EXCEPT !.headers[1].value = "e"]}

AllSchemes == {"ed25519", "ml-dsa-65", "hybrid"}
TheDemands ==
  {[scopes |-> {read}, requirePQ |-> FALSE], [scopes |-> {read}, requirePQ |-> TRUE],
   [scopes |-> {}, requirePQ |-> FALSE], [scopes |-> {""}, requirePQ |-> FALSE]}
TheScopes == {read}
=============================================================================
