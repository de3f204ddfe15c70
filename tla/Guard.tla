------------------------------- MODULE Guard -------------------------------
(***************************************************************************)
(* The MCP guard (commands/guard.rs): a process between an agent and an    *)
(* MCP server that lets requests pass once the agent has presented a card  *)
(* it accepts, and that looks at no card for a while after too many        *)
(* failures.                                                               *)
(*                                                                         *)
(* The main thread handles one line of the agent at a time; the thread     *)
(* that passes the server's answers on shares no state with it.  Time is   *)
(* kept as the age of what the guard remembers, in seconds.                *)
(***************************************************************************)
EXTENDS Naturals, FiniteSets, Stamps

CONSTANTS
  Cards,         \* the cards an agent may present
  MaxFailures    \* failures that lock authentication, 10; for Window seconds

ASSUME GuardAssumption ==
  /\ Cards \subseteq [id: Nat, sig: {"canonical", "fields", "other", "garbled"},
                      hybrid: BOOLEAN, pq: {"none", "valid", "bad"}, scoped: BOOLEAN]
  /\ MaxFailures \in Nat \ {0}
  /\ Window \in Nat \ {0}

VARIABLES
  options,   \* --require-pq and --allow-init
  session,   \* the card of an authenticated agent
  failures,  \* auth_failures
  age,       \* seconds since last_failure_time; Window if longer ago or never
  expired,   \* cards that have expired
  registry,  \* ids in the revocation registry
  passed,    \* the kinds of line that have reached the server
  counted    \* history: stamps of the failures counted since the last success

guardVars == <<options, session, failures, age, expired, registry, passed, counted>>

NoCard == [id |-> 0]

\* A line may be no JSON-RPC at all; JSON-RPC for the server that JsonRpcRequest
\* does not parse (a batch, no jsonrpc field, a field given twice); a method of
\* the start of a session; or another request.
Kinds == {"text", "unparsed", "init", "request"}

GuardInit ==
  /\ options \in [requirePQ: BOOLEAN, allowInit: BOOLEAN]
  /\ session = NoCard
  /\ failures = 0
  /\ age = Window
  /\ expired = {}
  /\ registry = {}
  /\ passed = {}
  /\ counted = {}

Authenticated == session # NoCard

-----------------------------------------------------------------------------
(* handle_authenticate *)

MutantLocked == failures > MaxFailures /\ age < Window
Locked == failures >= MaxFailures /\ age < Window

\* The failures that count once the lock has run out.
Countable == IF failures >= MaxFailures THEN 0 ELSE failures

\* The signatures are verified over the fields in the order of the struct.
\* A signature that is wrong counts as a failure, one that cannot be decoded
\* and anything about the post-quantum one do not.
SignedPQ(c) == options.requirePQ \/ c.hybrid => c.pq = "valid"
Signed(c) == c.sig = "fields" /\ SignedPQ(c)

\* An expired card counts, a revoked one or one without the scopes does not.
Counts(c) == c.sig \in {"canonical", "other"} \/ (Signed(c) /\ c \in expired)

\* A registry that cannot be read is passed over.
Acceptable(c, readable) ==
  /\ Signed(c)
  /\ c \notin expired
  /\ ~(readable /\ c.id \in registry)
  /\ c.scoped

\* Locked: the card is not looked at.
MutantTurnAway ==
  /\ Locked
  /\ age' = 0
  /\ UNCHANGED <<options, session, failures, expired, registry, passed, counted>>
TurnAway ==
  /\ Locked
  /\ UNCHANGED guardVars

\* There is no card, it cannot be parsed, or it fails a check that is not counted.
Refuse ==
  /\ ~Locked
  /\ failures' = Countable
  /\ age' = IF failures >= MaxFailures THEN Window ELSE age
  /\ UNCHANGED <<options, session, expired, registry, passed, counted>>

Count ==
  /\ ~Locked
  /\ \E c \in Cards : Counts(c)
  /\ failures' = Countable + 1
  /\ age' = 0
  /\ counted' = Push(counted)
  /\ UNCHANGED <<options, session, expired, registry, passed>>

Admit(c) ==
  /\ ~Locked
  /\ \E readable \in BOOLEAN : Acceptable(c, readable)
  /\ failures' = 0
  /\ age' = Window
  /\ session' = c
  /\ counted' = {}
  /\ UNCHANGED <<options, expired, registry, passed>>

-----------------------------------------------------------------------------
(* All other lines *)

\* A line that does not parse as a request and a method of the start of a
\* session pass, and so does, with --allow-init, anything before authentication;
\* the rest needs a session.  check_scope asks for no more than that.
Passes(kind) ==
  \/ kind \in {"text", "unparsed", "init"}
  \/ options.allowInit /\ ~Authenticated
  \/ Authenticated

\* A line that does not pass is answered with an error and changes nothing.
ForwardLine(kind) ==
  /\ Passes(kind)
  /\ passed' = passed \cup {kind}
  /\ UNCHANGED <<options, session, failures, age, expired, registry, counted>>

-----------------------------------------------------------------------------
(* The environment *)

GuardTick ==
  /\ age' = IF age < Window THEN age + 1 ELSE Window
  /\ counted' = Evict(Older(counted))
  /\ UNCHANGED <<options, session, failures, expired, registry, passed>>

Expire(c) ==
  /\ expired' = expired \cup {c}
  /\ UNCHANGED <<options, session, failures, age, registry, passed, counted>>

Revoke(c) ==
  /\ registry' = registry \cup {c.id}
  /\ UNCHANGED <<options, session, failures, age, expired, passed, counted>>

-----------------------------------------------------------------------------
GuardNext ==
  \/ TurnAway \/ Refuse \/ Count \/ \E c \in Cards : Admit(c)
  \/ \E kind \in Kinds : ForwardLine(kind)
  \/ GuardTick
  \/ \E c \in Cards : Expire(c) \/ Revoke(c)

GuardSpec == GuardInit /\ [][GuardNext]_guardVars

\* Time passes, whatever the agent does meanwhile.
GuardFairSpec == GuardSpec /\ WF_guardVars(GuardTick)

-----------------------------------------------------------------------------
(* Properties *)

\* Every variable has its type.
GuardTypeOK ==
  /\ options \in [requirePQ: BOOLEAN, allowInit: BOOLEAN]
  /\ session \in Cards \cup {NoCard}
  /\ failures \in 0..MaxFailures
  /\ age \in 0..Window
  /\ expired \subseteq Cards
  /\ registry \subseteq {c.id : c \in Cards}
  /\ passed \subseteq Kinds
  /\ counted \subseteq Stamp

\* No stretch of Window seconds without a success sees more than MaxFailures
\* failures that count, although the lock is taken off as a whole when it has
\* run out and refusals in between take it off as well.
FailureRate == Cardinality(counted) <= MaxFailures

\* A lock ends by time alone: no attempt made meanwhile keeps it on.
LockEnds == Locked ~> ~Locked

-----------------------------------------------------------------------------
(* What the sources say and the code does not do *)

\* Without --allow-init nothing the server may take for a request reaches it
\* before an agent has authenticated ("intercepts every JSON-RPC request").
NothingBeforeSession ==
  passed \cap {"unparsed", "request"} # {} /\ ~options.allowInit => Authenticated

\* "Session active until" the card expires: no request passes later.
SessionEnds ==
  [][\A kind \in Kinds :
       ForwardLine(kind) /\ kind = "request" => session \notin expired]_guardVars

\* A card as issue and rotate sign it, over canonical JSON, is no failure.
AdmitsIssued == \A c \in Cards : c.sig = "canonical" => ~Counts(c)
=============================================================================
