------------------------------- MODULE MCProxy -------------------------------
(* A small instance of Proxy for TLC. *)
EXTENDS Proxy

CONSTANTS k1, k2, r1, r2, agentName, agentUuid

TwoConns == {k1, k2}
OneConn == {k1}
TwoRegs == {r1, r2}
OneReg == {r1}

\* example.com, api.example.com and a domain out of scope
Example == <<"example", "com">>
Api == <<"api", "example", "com">>
Other == <<"other", "org">>

SomeDomains == {Example, Api, Other}
Allowed == {Example}

\* The exact binding that a registration for example.com makes.
OneBinding == <<[wild |-> FALSE, name |-> Example, reg |-> r1]>>

\* The daemon keeps agents in directories by name; the proxy sends the UUID.
AgentDirectories == {agentName}

Symmetric == Permutations(TwoConns)
=============================================================================
