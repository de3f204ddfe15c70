-------------------------------- MODULE Proxy --------------------------------
(***************************************************************************)
(* The sidecar proxy of one agent (grokingclaw-proxy): the scope check with *)
(* its rate limit (scope.rs), the cache of OAuth tokens (oauth.rs) and the *)
(* two handlers that use them and write the audit log (server.rs).         *)
(*                                                                         *)
(* Connections are handled concurrently.  The scope is behind a mutex and  *)
(* the cache behind a read-write lock; a critical section is one action.   *)
(*                                                                         *)
(* A domain is the sequence of its labels, so "ends with .example.com" is  *)
(* IsSuffix.  The deque of the rate limit is a set of stamps (Stamps), as  *)
(* the code only asks which are younger than 60 seconds.                   *)
(***************************************************************************)
EXTENDS Naturals, FiniteSets, SequencesExt, Stamps

CONSTANTS
  Conns,           \* connections of the agent to its proxy
  Domains,         \* domains that requests are sent to
  AllowedDomains,  \* ScopeConfig::allowed_domains
  MaxRequests,     \* ScopeConfig::max_requests_per_minute
  Regs, NoReg,     \* OAuth registrations, and none
  Bindings,        \* OAuthTokenCache::bindings, a sequence
  AgentId,         \* the key under which the proxy asks for a refresh
  Directories      \* the keys under which the daemon finds an agent

ASSUME ProxyAssumption ==
  /\ MaxRequests \in Nat
  /\ Window \in Nat \ {0}
  /\ NoReg \notin Regs

VARIABLES
  stamps,      \* ScopeConfig::request_timestamps
  conn,        \* the request that each connection is handling
  cached,      \* OAuthTokenCache::tokens, by how long they are still good
  background,  \* refreshes in the background
  revoked,     \* registrations that oauth_revoke has removed since the start
  recent       \* history: the requests admitted within the last Window ticks

vars == <<stamps, conn, cached, background, revoked, recent>>

\* "near": within refresh_buffer_secs of the expiry
Freshness == {"none", "fresh", "near", "expired"}

Request ==
  [pc: {"idle", "token", "refresh", "send", "log"},
   domain: Domains \cup {<< >>},
   verdict: {"none", "allow", "domain", "rate"},
   reg: Regs \cup {NoReg}]

NoRequest == [pc |-> "idle", domain |-> << >>, verdict |-> "none", reg |-> NoReg]

Init ==
  /\ stamps = {}
  /\ conn = [c \in Conns |-> NoRequest]
  /\ cached \in [Regs -> Freshness]
  /\ background = {}
  /\ revoked = {}
  /\ recent = {}

-----------------------------------------------------------------------------
(* scope.rs *)

\* check_rate_limit
MutantLimited(s) == MaxRequests # 0 /\ Cardinality(Evict(s)) > MaxRequests
Limited(s) == MaxRequests # 0 /\ Cardinality(Evict(s)) >= MaxRequests

\* The domain check that check_url and check_connect have in common.
Allows(d) ==
  AllowedDomains = {} \/ \E a \in AllowedDomains : IsSuffix(a, d)

\* The rate limit comes first, so what it admits counts even if the domain is
\* then refused.
MutantCheck(c, d, ok, next) ==
  LET verdict == IF Limited(stamps) THEN "rate" ELSE IF ok THEN "allow" ELSE "domain"
  IN  /\ conn[c].pc = "idle"
      /\ conn' = [conn EXCEPT ![c] =
                   [pc      |-> IF verdict = "allow" THEN next ELSE "log",
                    domain  |-> d,
                    verdict |-> verdict,
                    reg     |-> NoReg]]
      /\ stamps' = Push(stamps)
      /\ recent' = IF verdict = "rate" THEN recent ELSE Push(recent)
      /\ UNCHANGED <<cached, background, revoked>>
Check(c, d, ok, next) ==
  LET verdict == IF Limited(stamps) THEN "rate" ELSE IF ok THEN "allow" ELSE "domain"
  IN  /\ conn[c].pc = "idle"
      /\ conn' = [conn EXCEPT ![c] =
                   [pc      |-> IF verdict = "allow" THEN next ELSE "log",
                    domain  |-> d,
                    verdict |-> verdict,
                    reg     |-> NoReg]]
      /\ stamps' = IF verdict = "rate" THEN Evict(stamps)
                   ELSE IF MaxRequests = 0 THEN stamps
                   ELSE Push(Evict(stamps))
      /\ recent' = IF verdict = "rate" THEN recent ELSE Push(recent)
      /\ UNCHANGED <<cached, background, revoked>>

\* handle_forward; a URL without a host is allowed.
Forward(c, d) == Check(c, d, d = << >> \/ Allows(d), "token")

\* handle_connect; the tunnel is logged before it is opened.
Connect(c, d) == Check(c, d, Allows(d), "log")

-----------------------------------------------------------------------------
(* oauth.rs *)

\* domain_matches
Matches(b, d) == b.name = d \/ (b.wild /\ IsStrictSuffix(b.name, d))

\* find_binding: the first that matches
FindBinding(d) ==
  LET i == SelectInSeq(Bindings, LAMBDA b : Matches(b, d))
  IN  IF i = 0 THEN NoReg ELSE Bindings[i].reg

\* get_token, up to a refresh that the request must wait for
GetToken(c) ==
  LET r == FindBinding(conn[c].domain)
      state == IF r = NoReg THEN "none" ELSE cached[r]
  IN  /\ conn[c].pc = "token"
      /\ conn' = [conn EXCEPT
                   ![c].pc = IF state = "expired" THEN "refresh" ELSE "send",
                   ![c].reg = IF state = "none" THEN NoReg ELSE r]
      /\ background' = IF state = "near" THEN background \cup {r} ELSE background
      /\ UNCHANGED <<stamps, cached, revoked, recent>>

\* oauth.refresh succeeds at most if the daemon finds a directory for the key
\* and its store still has the registration.
Refreshable(r) == AgentId \in Directories /\ r \notin revoked

Outcomes(r) == IF Refreshable(r) THEN {"fresh", "failed"} ELSE {"failed"}

\* refresh_token_via_ipc ends, and its success is put into the cache ...
Cache(r, outcome) ==
  cached' = IF outcome = "fresh" THEN [cached EXCEPT ![r] = "fresh"] ELSE cached

\* ... for a request that waits for it, and goes without a token if it failed
Refreshed(c) ==
  /\ conn[c].pc = "refresh"
  /\ \E outcome \in Outcomes(conn[c].reg) :
       /\ Cache(conn[c].reg, outcome)
       /\ conn' = [conn EXCEPT
                    ![c].pc = "send",
                    ![c].reg = IF outcome = "fresh" THEN conn[c].reg ELSE NoReg]
  /\ UNCHANGED <<stamps, background, revoked, recent>>

\* ... and in the background
RefreshedLater(r) ==
  /\ r \in background
  /\ background' = background \ {r}
  /\ \E outcome \in Outcomes(r) : Cache(r, outcome)
  /\ UNCHANGED <<stamps, conn, revoked, recent>>

-----------------------------------------------------------------------------
(* server.rs *)

\* The request is forwarded, or there is a 502 for the upstream that does not
\* connect or a 400 for an https URL: the outcome will be logged.
Sent(c) ==
  /\ conn[c].pc = "send"
  /\ conn' = [conn EXCEPT ![c].pc = "log"]
  /\ UNCHANGED <<stamps, cached, background, revoked, recent>>

\* The request's body cannot be read, its URL not parsed, the handshake or the
\* request fails, or the answer breaks off: an error is returned at once.
Broken(c) ==
  /\ conn[c].pc = "send"
  /\ conn' = [conn EXCEPT ![c] = NoRequest]
  /\ UNCHANGED <<stamps, cached, background, revoked, recent>>

\* log_request or log_denial, and the answer
Log(c) ==
  /\ conn[c].pc = "log"
  /\ conn' = [conn EXCEPT ![c] = NoRequest]
  /\ UNCHANGED <<stamps, cached, background, revoked, recent>>

-----------------------------------------------------------------------------
(* The environment *)

\* A tick of the rate limit's clock.
Tick ==
  /\ stamps' = Older(stamps)
  /\ recent' = Evict(Older(recent))
  /\ UNCHANGED <<conn, cached, background, revoked>>

\* A token gets closer to its expiry.
Ages(r) ==
  /\ \/ cached[r] = "fresh" /\ cached' = [cached EXCEPT ![r] = "near"]
     \/ cached[r] = "near" /\ cached' = [cached EXCEPT ![r] = "expired"]
  /\ UNCHANGED <<stamps, conn, background, revoked, recent>>

\* oauth_revoke in the daemon, which tells no proxy.
Revoked(r) ==
  /\ revoked' = revoked \cup {r}
  /\ UNCHANGED <<stamps, conn, cached, background, recent>>

-----------------------------------------------------------------------------
Next ==
  \/ \E c \in Conns, d \in Domains \cup {<< >>} : Forward(c, d) \/ Connect(c, d)
  \/ \E c \in Conns :
       GetToken(c) \/ Refreshed(c) \/ Sent(c) \/ Broken(c) \/ Log(c)
  \/ \E r \in Regs : RefreshedLater(r) \/ Ages(r) \/ Revoked(r)
  \/ Tick

Spec == Init /\ [][Next]_vars

-----------------------------------------------------------------------------
(* Properties *)

\* Every variable has its type.
TypeOK ==
  /\ stamps \subseteq Stamp
  /\ conn \in [Conns -> Request]
  /\ cached \in [Regs -> Freshness]
  /\ background \subseteq Regs
  /\ revoked \subseteq Regs
  /\ recent \subseteq Stamp

\* In no window of 60 seconds, wherever it starts, does the proxy admit more
\* requests than the limit, over all connections.
RateBound == MaxRequests # 0 => Cardinality(recent) <= MaxRequests

\* A request is refused for its rate only if the limit was reached within the
\* last 60 seconds: requests that were themselves refused for their rate do not
\* count; those refused afterwards for their domain do, as in the code.
NotDeniedEarly ==
  [][\A c \in Conns :
       conn[c].verdict # "rate" /\ conn'[c].verdict = "rate"
         => Cardinality(recent) = MaxRequests]_vars

-----------------------------------------------------------------------------
(* What comments say and the code does not do *)

\* "Logs every proxied request": a request ends by being logged.
EveryRequestLogged ==
  [][\A c \in Conns :
       conn[c].pc # "idle" /\ conn'[c].pc = "idle" => conn[c].pc = "log"]_vars

\* "Remove a token from the cache (revocation)": no token is put into a
\* request after its registration was revoked.
NoRevokedToken ==
  [][\A c \in Conns :
       conn[c].pc = "token" /\ conn'[c].pc = "send"
         => conn'[c].reg \notin revoked]_vars

=============================================================================
