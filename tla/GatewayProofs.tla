---------------------------- MODULE GatewayProofs ---------------------------
(***************************************************************************)
(* Proofs about what stands in front of a server and counts over a window: *)
(* the rate limit of Proxy, for any number of connections, any limit and   *)
(* any window, and the lock of Guard, for any cards, any number of         *)
(* failures and any window.                                                *)
(***************************************************************************)
EXTENDS Proxy, Guard, FiniteSetTheorems, TLAPS

-----------------------------------------------------------------------------
(* Sets of stamps *)

Zero(s) == {t \in s : t[1] = 0}

\* The stamps of one instant are numbered from 0.
Numbered(s) == \A t \in Zero(s) : t[2] < Cardinality(Zero(s))

\* What grew too old to count never counts again.
LEMMA EvictOlder ==
  ASSUME Window \in Nat \ {0}, NEW s \in SUBSET Stamp
  PROVE  Evict(Older(Evict(s))) = Evict(Older(s))
BY DEF Evict, Older, Stamp

\* A stamp that grows older keeps its type, and none is of this instant.
LEMMA OlderType ==
  ASSUME Window \in Nat \ {0}, NEW s \in SUBSET Stamp, IsFiniteSet(s)
  PROVE  /\ Older(s) \in SUBSET Stamp /\ Zero(Older(s)) = {}
         /\ IsFiniteSet(Older(s)) /\ Cardinality(Older(s)) <= Cardinality(s)
<1> DEFINE grow == [t \in s |-> <<IF t[1] < Window THEN t[1] + 1 ELSE Window, t[2]>>]
<1>1. Older(s) \in SUBSET Stamp /\ Zero(Older(s)) = {}
  BY DEF Older, Stamp, Zero
<1>2. grow \in Surjection(s, Older(s))
  BY DEF Surjection, Older
<1> QED
  BY <1>1, <1>2, FS_Surjection

\* A request that is admitted is counted: its stamp is a new one.
LEMMA PushCounts ==
  ASSUME Window \in Nat \ {0}, NEW s \in SUBSET Stamp, IsFiniteSet(s), Numbered(s)
  PROVE  /\ Push(s) \in SUBSET Stamp /\ IsFiniteSet(Push(s)) /\ Numbered(Push(s))
         /\ Cardinality(Push(s)) = Cardinality(s) + 1
<1> DEFINE n == Cardinality(Zero(s))
           t == <<0, n>>
<1>1. IsFiniteSet(Zero(s)) /\ n \in Nat
  BY FS_Subset, FS_CardinalityType DEF Zero
<1>2. Push(s) = s \cup {t}
  BY DEF Push, Zero
<1>3. t \in Stamp /\ t[1] = 0 /\ t[2] = n
  BY <1>1 DEF Stamp
<1>4. t \notin s
  BY <1>1, <1>3 DEF Numbered, Zero
<1> HIDE DEF t
<1>5. Zero(Push(s)) = Zero(s) \cup {t} /\ t \notin Zero(s)
  BY <1>2, <1>3, <1>4 DEF Zero
<1>6. Cardinality(Zero(Push(s))) = n + 1
  BY <1>1, <1>5, FS_AddElement
<1>7. \A u \in Zero(s) : u[2] \in Nat
  BY DEF Zero, Stamp
<1>8. Numbered(Push(s))
  BY <1>1, <1>3, <1>5, <1>6, <1>7 DEF Numbered
<1> QED
  BY <1>2, <1>3, <1>4, <1>8, FS_AddElement

-----------------------------------------------------------------------------
(* The inductive invariant *)

\* The deque without what is too old is what was admitted in the window.
StampsAreRecent ==
  /\ stamps \in SUBSET Stamp
  /\ recent \in SUBSET Stamp /\ IsFiniteSet(recent)
  /\ recent = Evict(recent)
  /\ Numbered(recent)
  /\ MaxRequests # 0 => Evict(stamps) = recent

\* A request is a record, whatever the bindings give it as its registration.
ConnsAreRequests ==
  conn \in [Conns ->
    [pc: {"idle", "token", "refresh", "send", "log"}, domain: Domains \cup {<< >>},
     verdict: {"none", "allow", "domain", "rate"},
     reg: Regs \cup {NoReg} \cup {FindBinding(d) : d \in Domains \cup {<< >>}}]]

RateInv ==
  /\ StampsAreRecent
  /\ ConnsAreRequests
  /\ RateBound

\* Initially nothing was admitted.
LEMMA RateInit == Init => RateInv
<1> SUFFICES ASSUME Init PROVE RateInv
  OBVIOUS
<1>1. StampsAreRecent
  BY FS_EmptySet DEF Init, StampsAreRecent, Evict, Numbered, Zero
<1>2. ConnsAreRequests
  BY DEF Init, ConnsAreRequests, NoRequest
<1>3. RateBound
  BY FS_EmptySet, ProxyAssumption DEF Init, RateBound
<1> QED
  BY <1>1, <1>2, <1>3 DEF RateInv

\* check_rate_limit admits while fewer than the limit are counted, and counts.
LEMMA CheckStep ==
  ASSUME RateInv, NEW c \in Conns, NEW d \in Domains \cup {<< >>}, NEW ok \in BOOLEAN,
         NEW next \in {"token", "log"}, Check(c, d, ok, next)
  PROVE  /\ RateInv'
         /\ \A b \in Conns : b # c => conn'[b] = conn[b]
         /\ conn'[c].verdict = "rate" => Cardinality(recent) = MaxRequests
         /\ conn'[c].verdict # "rate" => Cardinality(recent') = Cardinality(recent) + 1
<1> USE DEF RateInv
<1> DEFINE verdict == IF Limited(stamps) THEN "rate" ELSE IF ok THEN "allow" ELSE "domain"
           r == [pc |-> IF verdict = "allow" THEN next ELSE "log", domain |-> d,
                 verdict |-> verdict, reg |-> NoReg]
<1>1. /\ conn' = [conn EXCEPT ![c] = r]
      /\ stamps' = IF verdict = "rate" THEN Evict(stamps)
                   ELSE IF MaxRequests = 0 THEN stamps ELSE Push(Evict(stamps))
      /\ recent' = IF verdict = "rate" THEN recent ELSE Push(recent)
  BY DEF Check
<1>2. /\ verdict \in {"rate", "allow", "domain"} /\ (verdict = "rate" <=> Limited(stamps))
      /\ r.verdict = verdict
  OBVIOUS
<1>3. ConnsAreRequests' /\ conn'[c] = r /\ \A b \in Conns : b # c => conn'[b] = conn[b]
  BY <1>1, <1>2 DEF ConnsAreRequests
<1> HIDE DEF verdict, r
<1>4. /\ stamps \in SUBSET Stamp /\ recent \in SUBSET Stamp /\ IsFiniteSet(recent)
      /\ recent = Evict(recent) /\ Numbered(recent)
      /\ MaxRequests # 0 => Evict(stamps) = recent
  BY DEF StampsAreRecent
<1>5. Cardinality(recent) \in Nat /\ MaxRequests \in Nat
  BY <1>4, FS_CardinalityType, ProxyAssumption
<1>6. CASE verdict = "rate"
  <2>1. MaxRequests # 0 /\ Cardinality(recent) >= MaxRequests
    BY <1>2, <1>4, <1>6 DEF Limited
  <2>2. Cardinality(recent) = MaxRequests
    BY <1>5, <2>1 DEF RateBound
  <2>3. stamps' = recent /\ recent' = recent
    BY <1>1, <1>4, <1>6, <2>1
  <2>4. StampsAreRecent' /\ RateBound'
    BY <1>4, <2>3 DEF StampsAreRecent, RateBound
  <2> QED
    BY <1>2, <1>3, <1>6, <2>2, <2>4
<1>7. CASE verdict # "rate"
  <2>1. recent' = Push(recent) /\ ~Limited(stamps)
    BY <1>1, <1>2, <1>7
  <2>2. /\ recent' \in SUBSET Stamp /\ IsFiniteSet(recent') /\ Numbered(recent')
        /\ Cardinality(recent') = Cardinality(recent) + 1
    BY <1>4, <2>1, PushCounts, ProxyAssumption
  <2>3. Evict(Push(recent)) = Push(recent)
    BY <1>4, ProxyAssumption DEF Evict, Push
  <2>4. RateBound'
    BY <1>4, <1>5, <2>1, <2>2 DEF RateBound, Limited
  <2>5. stamps' \in SUBSET Stamp /\ (MaxRequests # 0 => Evict(stamps') = recent')
    <3>1. CASE MaxRequests = 0
      BY <1>1, <1>4, <1>7, <3>1
    <3>2. CASE MaxRequests # 0
      BY <1>1, <1>4, <1>7, <2>1, <2>2, <2>3, <3>2
    <3> QED
      BY <3>1, <3>2
  <2>6. StampsAreRecent'
    BY <2>1, <2>2, <2>3, <2>5 DEF StampsAreRecent
  <2> QED
    BY <1>2, <1>3, <1>7, <2>2, <2>4, <2>6
<1> QED
  BY <1>6, <1>7

\* Steps that leave the scope alone and change no verdict but to none.
LEMMA AsideStep ==
  ASSUME RateInv, ConnsAreRequests', UNCHANGED <<stamps, recent>>
  PROVE  RateInv'
BY DEF RateInv, StampsAreRecent, RateBound

\* The other steps of a connection.
LEMMA ConnStep ==
  ASSUME RateInv, NEW c \in Conns,
         GetToken(c) \/ Refreshed(c) \/ Sent(c) \/ Broken(c) \/ Log(c)
  PROVE  /\ RateInv' /\ recent' = recent
         /\ \A b \in Conns : conn'[b].verdict \in {conn[b].verdict, "none"}
<1> USE DEF RateInv
<1> DEFINE AnyReg == Regs \cup {NoReg} \cup {FindBinding(d) : d \in Domains \cup {<< >>}}
<1>1. UNCHANGED <<stamps, recent>>
  BY DEF GetToken, Refreshed, Sent, Broken, Log
<1>2. \/ conn' = [conn EXCEPT ![c] = NoRequest]
      \/ \E pc \in {"send", "refresh", "log"}, reg \in AnyReg :
           conn' = [conn EXCEPT ![c].pc = pc, ![c].reg = reg]
      \/ conn' = [conn EXCEPT ![c].pc = "log"]
  <2>1. conn[c].domain \in Domains \cup {<< >>} /\ conn[c].reg \in AnyReg
    BY DEF ConnsAreRequests
  <2>2. FindBinding(conn[c].domain) \in AnyReg /\ NoReg \in AnyReg
    BY <2>1
  <2> HIDE DEF AnyReg
  <2>3. CASE GetToken(c)
    BY <2>2, <2>3 DEF GetToken
  <2>4. CASE Refreshed(c)
    BY <2>1, <2>2, <2>4 DEF Refreshed
  <2>5. CASE Sent(c) \/ Broken(c) \/ Log(c)
    BY <2>5 DEF Sent, Broken, Log
  <2> QED
    BY <2>3, <2>4, <2>5
<1>3. CASE conn' = [conn EXCEPT ![c] = NoRequest]
  BY <1>1, <1>3, AsideStep DEF ConnsAreRequests, NoRequest
<1>4. CASE \E pc \in {"send", "refresh", "log"}, reg \in AnyReg :
             conn' = [conn EXCEPT ![c].pc = pc, ![c].reg = reg]
  <2> HIDE DEF AnyReg
  <2> DEFINE Requests == [pc: {"idle", "token", "refresh", "send", "log"},
                          domain: Domains \cup {<< >>},
                          verdict: {"none", "allow", "domain", "rate"}, reg: AnyReg]
  <2>1. conn \in [Conns -> Requests]
    BY DEF ConnsAreRequests, AnyReg
  <2>2. conn' \in [Conns -> Requests] /\ \A b \in Conns : conn'[b].verdict = conn[b].verdict
    <3>1. PICK pc \in {"send", "refresh", "log"}, reg \in AnyReg :
                 conn' = [conn EXCEPT ![c].pc = pc, ![c].reg = reg]
      BY <1>4
    <3> DEFINE r == [conn[c] EXCEPT !.pc = pc, !.reg = reg]
    <3>2. conn' = [conn EXCEPT ![c] = r]
      BY <2>1, <3>1
    <3>3. r \in Requests /\ r.verdict = conn[c].verdict
      BY <2>1
    <3> HIDE DEF r
    <3> QED
      BY <2>1, <3>2, <3>3
  <2>3. ConnsAreRequests'
    BY <2>2 DEF ConnsAreRequests, AnyReg
  <2> QED
    BY <1>1, <2>2, <2>3, AsideStep
<1>5. CASE conn' = [conn EXCEPT ![c].pc = "log"]
  BY <1>1, <1>5, AsideStep DEF ConnsAreRequests
<1> QED
  BY <1>2, <1>3, <1>4, <1>5

\* Time passes, in the deque as in the window.
LEMMA TickStep ==
  ASSUME RateInv, Tick
  PROVE  RateInv'
<1> USE DEF RateInv
<1>1. stamps' = Older(stamps) /\ recent' = Evict(Older(recent)) /\ conn' = conn
  BY DEF Tick, Evict
<1>2. /\ stamps \in SUBSET Stamp /\ recent \in SUBSET Stamp /\ IsFiniteSet(recent)
      /\ MaxRequests # 0 => Evict(stamps) = recent
  BY DEF StampsAreRecent
<1>3. stamps' \in SUBSET Stamp
  BY <1>1, <1>2, ProxyAssumption DEF Older, Stamp
<1>4. /\ Older(recent) \in SUBSET Stamp /\ Zero(Older(recent)) = {}
      /\ IsFiniteSet(Older(recent)) /\ Cardinality(Older(recent)) <= Cardinality(recent)
  BY <1>2, OlderType, ProxyAssumption
<1>5. /\ recent' \in SUBSET Stamp /\ IsFiniteSet(recent')
      /\ Cardinality(recent') <= Cardinality(Older(recent))
      /\ Cardinality(recent') \in Nat /\ Cardinality(Older(recent)) \in Nat
      /\ Cardinality(recent) \in Nat
  BY <1>1, <1>2, <1>4, FS_Subset, FS_CardinalityType DEF Evict
<1>6. recent' = Evict(recent') /\ Numbered(recent')
  BY <1>1, <1>4 DEF Evict, Numbered, Zero
<1>7. MaxRequests # 0 => Evict(stamps') = recent'
  BY <1>1, <1>2, EvictOlder, ProxyAssumption
<1>8. RateBound'
  BY <1>4, <1>5, ProxyAssumption DEF RateBound
<1>9. ConnsAreRequests'
  BY <1>1 DEF ConnsAreRequests
<1> QED
  BY <1>3, <1>5, <1>6, <1>7, <1>8, <1>9 DEF StampsAreRecent

\* Every step keeps the invariant, and refuses for the rate only at the limit.
LEMMA RateNext ==
  ASSUME RateInv, [Next]_vars
  PROVE  /\ RateInv'
         /\ \A c \in Conns : conn[c].verdict # "rate" /\ conn'[c].verdict = "rate"
                               => Cardinality(recent) = MaxRequests
<1> DEFINE Goal == /\ RateInv'
                   /\ \A c \in Conns : conn[c].verdict # "rate" /\ conn'[c].verdict = "rate"
                                         => Cardinality(recent) = MaxRequests
<1>1. ASSUME NEW c \in Conns, NEW d \in Domains \cup {<< >>}, Forward(c, d) \/ Connect(c, d)
      PROVE  Goal
  <2>1. \E ok \in BOOLEAN, next \in {"token", "log"} : Check(c, d, ok, next)
    <3>1. (d = << >> \/ Allows(d)) \in BOOLEAN /\ Allows(d) \in BOOLEAN
      BY DEF Allows
    <3> QED
      BY <1>1, <3>1 DEF Forward, Connect
  <2> QED
    BY <2>1, CheckStep
<1>2. ASSUME NEW c \in Conns, GetToken(c) \/ Refreshed(c) \/ Sent(c) \/ Broken(c) \/ Log(c)
      PROVE  Goal
  BY <1>2, ConnStep
<1>3. ASSUME NEW r \in Regs, RefreshedLater(r) \/ Ages(r) \/ Revoked(r)
      PROVE  Goal
  <2>1. UNCHANGED <<stamps, recent, conn>>
    BY <1>3 DEF RefreshedLater, Ages, Revoked
  <2> QED
    BY <2>1, AsideStep DEF RateInv, ConnsAreRequests
<1>4. CASE Tick
  BY <1>4, TickStep DEF Tick
<1>5. CASE UNCHANGED vars
  BY <1>5, AsideStep DEF vars, RateInv, ConnsAreRequests
<1> QED
  BY <1>1, <1>2, <1>3, <1>4, <1>5 DEF Next

-----------------------------------------------------------------------------
(* The theorems *)

\* The invariant holds at all times.
THEOREM RateInvariant == Spec => []RateInv
<1> QED
  BY RateInit, RateNext, PTL DEF Spec

\* However connections race, no window of 60 seconds sees more requests admitted
\* than max_requests_per_minute (scope.rs, check_rate_limit).
THEOREM NeverAboveTheLimit == Spec => []RateBound
<1>1. RateInv => RateBound
  BY DEF RateInv
<1> QED
  BY <1>1, RateInvariant, PTL

\* A request is refused for its rate only when as many as the limit were admitted
\* in the 60 seconds before it: requests refused for their rate and old ones do not
\* count, requests refused later for their domain do.
THEOREM NeverBelowTheLimit == Spec => NotDeniedEarly
<1>1. RateInv /\ [Next]_vars =>
        [\A c \in Conns : conn[c].verdict # "rate" /\ conn'[c].verdict = "rate"
                            => Cardinality(recent) = MaxRequests]_vars
  BY RateNext
<1> QED
  BY <1>1, RateInvariant, PTL DEF Spec, NotDeniedEarly

-----------------------------------------------------------------------------
(* Guard *)

\* The failures seen are at most those auth_failures counts, none of them is
\* younger than the last one, and when that is long ago there are none.
FailuresAreCounted ==
  /\ failures \in 0..MaxFailures
  /\ age \in 0..Window
  /\ counted \in SUBSET Stamp /\ IsFiniteSet(counted) /\ Numbered(counted)
  /\ \A t \in counted : t[1] >= age /\ t[1] < Window
  /\ Cardinality(counted) <= failures

\* Each stamp is a second older, and those of a window ago are gone.
LEMMA SecondPasses ==
  ASSUME FailuresAreCounted,
         age' = IF age < Window THEN age + 1 ELSE Window,
         counted' = Evict(Older(counted)), failures' = failures
  PROVE  FailuresAreCounted'
<1>1. /\ Older(counted) \in SUBSET Stamp /\ Zero(Older(counted)) = {}
      /\ IsFiniteSet(Older(counted)) /\ Cardinality(Older(counted)) <= Cardinality(counted)
  BY OlderType, GuardAssumption DEF FailuresAreCounted
<1>2. counted' \subseteq Older(counted) /\ Zero(counted') = {}
  BY <1>1 DEF Evict, Zero
<1>3. /\ IsFiniteSet(counted') /\ Cardinality(counted') <= Cardinality(Older(counted))
      /\ Cardinality(counted') \in Nat /\ Cardinality(Older(counted)) \in Nat
      /\ Cardinality(counted) \in Nat
  BY <1>1, <1>2, FS_Subset, FS_CardinalityType DEF FailuresAreCounted
<1>4. \A t \in counted' : t[1] >= age' /\ t[1] < Window
  <2>1. ASSUME NEW t \in counted' PROVE t[1] >= age' /\ t[1] < Window
    <3>1. PICK u \in counted : t = <<IF u[1] < Window THEN u[1] + 1 ELSE Window, u[2]>>
      BY DEF Evict, Older
    <3>2. t[1] < Window
      BY DEF Evict
    <3>3. u \in Stamp /\ u[1] >= age /\ u[1] < Window /\ age \in 0..Window
      BY DEF FailuresAreCounted
    <3>4. u[1] \in Nat
      BY <3>3 DEF Stamp
    <3> QED
      BY <3>1, <3>2, <3>3, <3>4, GuardAssumption
  <2> QED
    BY <2>1
<1>5. Numbered(counted')
  BY <1>2 DEF Numbered
<1>6. age' \in 0..Window
  BY GuardAssumption DEF FailuresAreCounted
<1>7. Cardinality(counted') <= failures'
  BY <1>1, <1>3, GuardAssumption DEF FailuresAreCounted
<1> QED
  BY <1>1, <1>2, <1>3, <1>4, <1>5, <1>6, <1>7 DEF FailuresAreCounted

\* A failure is counted by the guard as well, unless it takes off the lock,
\* when nothing is left of the failures before.
LEMMA FailureCounts ==
  ASSUME FailuresAreCounted, ~Locked,
         failures' = Countable + 1, age' = 0, counted' = Push(counted)
  PROVE  FailuresAreCounted'
<1>1. /\ counted' \in SUBSET Stamp /\ IsFiniteSet(counted') /\ Numbered(counted')
      /\ Cardinality(counted') = Cardinality(counted) + 1
  BY PushCounts, GuardAssumption DEF FailuresAreCounted
<1>2. counted' = counted \cup {<<0, Cardinality(Zero(counted))>>}
  BY DEF Push, Zero
<1>3. \A t \in counted' : t[1] >= age' /\ t[1] < Window
  <2>1. \A t \in counted : t[1] \in Nat /\ t[1] < Window
    BY DEF FailuresAreCounted, Stamp
  <2>2. Window > 0 /\ age' = 0
    BY GuardAssumption
  <2> QED
    BY <1>2, <2>1, <2>2
<1>4. CASE failures < MaxFailures
  <2>1. failures' = failures + 1
    BY <1>4, GuardAssumption DEF Countable, FailuresAreCounted
  <2>2. Cardinality(counted) \in Nat
    BY FS_CardinalityType DEF FailuresAreCounted
  <2> QED
    BY <1>1, <1>3, <1>4, <2>1, <2>2, GuardAssumption DEF FailuresAreCounted
<1>5. CASE failures = MaxFailures
  <2>1. age = Window /\ failures' = 1
    BY <1>5, GuardAssumption DEF Locked, Countable, FailuresAreCounted
  <2>2. counted = {}
    BY <2>1, GuardAssumption DEF FailuresAreCounted, Stamp
  <2>3. Cardinality(counted') = 1
    BY <1>1, <2>2, FS_EmptySet
  <2> QED
    BY <1>1, <1>3, <2>1, <2>3, GuardAssumption DEF FailuresAreCounted
<1> QED
  BY <1>4, <1>5, GuardAssumption DEF FailuresAreCounted

\* What is not counted leaves the failures, or takes off a lock that has run out.
LEMMA RefusalCounts ==
  ASSUME FailuresAreCounted, Refuse
  PROVE  FailuresAreCounted'
<1>1. CASE failures < MaxFailures
  BY <1>1, GuardAssumption DEF Refuse, Countable, FailuresAreCounted
<1>2. CASE failures = MaxFailures
  <2>1. age = Window /\ failures' = 0 /\ age' = Window /\ counted' = counted
    BY <1>2, GuardAssumption DEF Refuse, Locked, Countable, FailuresAreCounted
  <2>2. counted = {}
    BY <2>1, GuardAssumption DEF FailuresAreCounted, Stamp
  <2>3. Cardinality(counted') = 0
    BY <2>1, <2>2, FS_EmptySet
  <2> QED
    BY <2>1, <2>2, <2>3, GuardAssumption DEF FailuresAreCounted, Numbered, Zero
<1> QED
  BY <1>1, <1>2, GuardAssumption DEF FailuresAreCounted

\* Nothing is counted against an agent that has authenticated.
LEMMA AdmissionForgets ==
  ASSUME failures' = 0, age' = Window, counted' = {}
  PROVE  FailuresAreCounted'
<1>1. IsFiniteSet({}) /\ Cardinality({}) = 0
  BY FS_EmptySet
<1> QED
  BY <1>1, GuardAssumption DEF FailuresAreCounted, Numbered, Zero

\* The guard starts without failures.
LEMMA GuardInitInv ==
  ASSUME GuardInit
  PROVE  FailuresAreCounted
BY FS_EmptySet, GuardAssumption DEF GuardInit, FailuresAreCounted, Numbered, Zero

\* Every step keeps the count.
LEMMA GuardNextInv ==
  ASSUME FailuresAreCounted, [GuardNext]_guardVars
  PROVE  FailuresAreCounted'
<1>1. CASE TurnAway \/ UNCHANGED guardVars
  BY <1>1 DEF TurnAway, guardVars, FailuresAreCounted
<1>2. CASE Refuse
  BY <1>2, RefusalCounts
<1>3. CASE Count
  BY <1>3, FailureCounts DEF Count
<1>4. ASSUME NEW c \in Cards, Admit(c) PROVE FailuresAreCounted'
  BY <1>4, AdmissionForgets DEF Admit
<1>5. ASSUME NEW kind \in Kinds, ForwardLine(kind) PROVE FailuresAreCounted'
  BY <1>5 DEF ForwardLine, FailuresAreCounted
<1>6. CASE GuardTick
  BY <1>6, SecondPasses DEF GuardTick
<1>7. ASSUME NEW c \in Cards, Expire(c) \/ Revoke(c) PROVE FailuresAreCounted'
  BY <1>7 DEF Expire, Revoke, FailuresAreCounted
<1> QED
  BY <1>1, <1>2, <1>3, <1>4, <1>5, <1>6, <1>7 DEF GuardNext

\* For any cards and any limit, Window seconds without a success see at most
\* MaxFailures failures that count (guard.rs, handle_authenticate).
THEOREM FailuresAreBounded == GuardSpec => []FailureRate
<1>1. FailuresAreCounted => FailureRate
  BY FS_CardinalityType, GuardAssumption DEF FailuresAreCounted, FailureRate
<1> QED
  BY <1>1, GuardInitInv, GuardNextInv, PTL DEF GuardSpec

=============================================================================
