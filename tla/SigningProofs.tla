---------------------------- MODULE SigningProofs ----------------------------
(***************************************************************************)
(* Proofs about Signing: it implements Authentic, and what honest holders  *)
(* sign is accepted, for any requests, payloads, challenges and rotations. *)
(***************************************************************************)
EXTENDS Signing, SequenceTheorems, WellFoundedInduction, TLAPS

-----------------------------------------------------------------------------
(* Signature bases *)

\* Sequences of three and of four, with one element more
LEMMA Concat3 ==
  ASSUME NEW a, NEW b, NEW c, NEW d
  PROVE  <<a, b, c>> \o <<d>> = <<a, b, c, d>>
<1> DEFINE S == {a, b, c, d}
           s == <<a, b, c>>
           t == Append(s, d)
<1>1. /\ s \in Seq(S) /\ Len(s) = 3
      /\ <<a, b, c, d>> \in Seq(S) /\ Len(<<a, b, c, d>>) = 4
  OBVIOUS
<1>2. /\ t \in Seq(S) /\ Len(t) = 4 /\ t[4] = d
      /\ \A i \in 1..3 : t[i] = s[i]
  BY <1>1, AppendProperties
<1>3. t[1] = a /\ t[2] = b /\ t[3] = c
  BY <1>2
<1>4. t = s \o <<d>>
  BY <1>1, AppendIsConcat
<1> HIDE DEF t
<1>5. t = <<a, b, c, d>>
  BY <1>1, <1>2, <1>3
<1> QED
  BY <1>4, <1>5

LEMMA Concat4 ==
  ASSUME NEW a, NEW b, NEW c, NEW d, NEW e
  PROVE  <<a, b, c, d>> \o <<e>> = <<a, b, c, d, e>>
<1> DEFINE S == {a, b, c, d, e}
           s == <<a, b, c, d>>
           t == Append(s, e)
<1>1. /\ s \in Seq(S) /\ Len(s) = 4
      /\ <<a, b, c, d, e>> \in Seq(S) /\ Len(<<a, b, c, d, e>>) = 5
  OBVIOUS
<1>2. /\ t \in Seq(S) /\ Len(t) = 5 /\ t[5] = e
      /\ \A i \in 1..4 : t[i] = s[i]
  BY <1>1, AppendProperties
<1>3. t[1] = a /\ t[2] = b /\ t[3] = c /\ t[4] = d
  BY <1>2
<1>4. t = s \o <<e>>
  BY <1>1, AppendIsConcat
<1> HIDE DEF t
<1>5. t = <<a, b, c, d, e>>
  BY <1>1, <1>2, <1>3
<1> QED
  BY <1>4, <1>5

\* The parameters of a request with an end and a nonce, and without an end
LEMMA OrderFull ==
  ASSUME NEW p, p.expires # 0, p.nonce # 0
  PROVE  Order(p) = <<"keyid", "alg", "created", "expires", "nonce">>
<1>1. /\ <<"keyid", "alg", "created">> \o <<"expires">>
           = <<"keyid", "alg", "created", "expires">>
      /\ <<"keyid", "alg", "created", "expires">> \o <<"nonce">>
           = <<"keyid", "alg", "created", "expires", "nonce">>
  BY Concat3, Concat4
<1> QED
  BY <1>1 DEF Order

LEMMA OrderShort ==
  ASSUME NEW p, p.expires = 0, p.nonce # 0
  PROVE  Order(p) = <<"keyid", "alg", "created", "nonce">>
<1>1. /\ <<"keyid", "alg", "created">> \o <<"nonce">>
           = <<"keyid", "alg", "created", "nonce">>
      /\ <<"keyid", "alg", "created">> \o <<>> = <<"keyid", "alg", "created">>
  BY Concat3
<1> QED
  BY <1>1 DEF Order

\* Equal bases say the same of the time: what has an end has it in both.
LEMMA SameParams ==
  ASSUME NEW p, NEW q, p.nonce # 0, q.nonce # 0, q.expires # 0,
         Written(p, Order(p)) = Written(q, Order(q))
  PROVE  p.expires = q.expires
<1>1. /\ DOMAIN Written(q, Order(q)) = 1..5
      /\ Written(q, Order(q))[4] = <<"expires", q.expires>>
  BY OrderFull DEF Written
<1>2. CASE p.expires = 0
  <2>1. DOMAIN Written(p, Order(p)) = 1..4
    BY <1>2, OrderShort DEF Written
  <2>2. 5 \in 1..5 /\ 5 \notin 1..4
    OBVIOUS
  <2> QED
    BY <1>1, <2>1, <2>2
<1>3. CASE p.expires # 0
  <2>1. Written(p, Order(p))[4] = <<"expires", p.expires>>
    BY <1>3, OrderFull DEF Written
  <2> QED
    BY <1>1, <2>1
<1> QED
  BY <1>2, <1>3

\* The proxy writes the parameters in an order of its own, which the verifier does
\* not rebuild.
LEMMA NotAsTheProxy ==
  ASSUME NEW p, NEW q, p.nonce # 0
  PROVE  Written(p, Order(p)) # Written(q, ProxyOrder)
<1>1. Order(p)[1] = "keyid" /\ 1 \in DOMAIN Order(p)
  BY OrderFull, OrderShort
<1>2. Written(p, Order(p))[1] = <<"keyid", p["keyid"]>>
  BY <1>1 DEF Written
<1>3. Written(q, ProxyOrder)[1] = <<"created", q["created"]>>
  BY DEF Written, ProxyOrder
<1> QED
  BY <1>2, <1>3

\* Equal lines state the same.
LEMMA SameLines ==
  ASSUME NEW r, NEW s, NEW c, NEW d, Lines(r, c) = Lines(s, d)
  PROVE  Stated(r, c) = Stated(s, d)
<1>1. DOMAIN c = DOMAIN d
  BY DEF Lines
<1>2. \A i \in DOMAIN c : c[i] = d[i] /\ Value(r, c[i]) = Value(s, c[i])
  <2> TAKE i \in DOMAIN c
  <2>1. Lines(r, c)[i] = <<c[i], Value(r, c[i])>> /\ Lines(s, d)[i] = <<d[i], Value(s, d[i])>>
    BY <1>1 DEF Lines
  <2> QED
    BY <2>1
<1>3. {c[i] : i \in DOMAIN c} = {d[i] : i \in DOMAIN d}
  BY <1>1, <1>2
<1>4. \A x \in {c[i] : i \in DOMAIN c} : Value(r, x) = Value(s, x)
  BY <1>2
<1> QED
  BY <1>3, <1>4 DEF Stated

-----------------------------------------------------------------------------
(* Requests and their spellings *)

LEMMA ElementNames ==
  ASSUME NEW N, NEW V, NEW s \in Seq([name : N, value : V])
  PROVE  \A i \in DOMAIN s : s[i].name \in N
<1> DEFINE H == [name : N, value : V]
<1>1. s \in Seq(H)
  OBVIOUS
<1>2. \A h \in H : h.name \in N
  OBVIOUS
<1> HIDE DEF H
<1>3. \A i \in DOMAIN s : s[i] \in H
  BY <1>1
<1> QED
  BY <1>2, <1>3

\* The elements of a concatenation are those of its parts.
LEMMA ConcatElements ==
  ASSUME NEW S, NEW s \in Seq(S), NEW t \in Seq(S)
  PROVE  \A i \in DOMAIN (s \o t) : (s \o t)[i] \in S
<1>1. s \o t \in Seq(S)
  BY ConcatProperties
<1> QED
  BY <1>1

\* `sign` covers nothing that another spelling of the request may change.
LEMMA CoveredNames ==
  ASSUME NEW r \in HttpRequest
  PROVE  \A i \in DOMAIN Covered(r) : Covered(r)[i] \notin {"@query", "@target-uri"}
<1> DEFINE names == [i \in DOMAIN r.headers |-> Lower(r.headers[i].name)]
           first == <<"@method", "@authority", "@path">>
           S == {"@method", "@authority", "@path"} \cup {names[i] : i \in DOMAIN r.headers}
<1>1. /\ r.headers \in Seq([name : STRING \ Derived, value : STRING])
      /\ Len(r.headers) \in Nat /\ DOMAIN r.headers = 1..Len(r.headers)
  BY DEF HttpRequest
<1>2. \A i \in DOMAIN r.headers : r.headers[i].name \notin Derived
  <2>1. \A i \in DOMAIN r.headers : r.headers[i].name \in STRING \ Derived
    BY <1>1, ElementNames, Zenon
  <2> QED
    BY <2>1, Zenon
<1>3. \A i \in DOMAIN r.headers : names[i] \notin {"@query", "@target-uri"}
  BY <1>2 DEF Derived, Lower
<1>4. names = [i \in 1..Len(r.headers) |-> names[i]]
  BY <1>1
<1>5. Covered(r) = first \o names
  BY DEF Covered
<1>6. first \in Seq(S)
  OBVIOUS
<1> HIDE DEF names, first
<1>7. \A i \in 1..Len(r.headers) : names[i] \in S
  BY <1>1
<1>8. names \in Seq(S)
  BY <1>1, <1>4, <1>7, IsASeq
<1>9. "@query" \notin S /\ "@target-uri" \notin S
  BY <1>3
<1> HIDE DEF S
<1>10. \A i \in DOMAIN (first \o names) : (first \o names)[i] \in S
  BY <1>6, <1>8, ConcatElements
<1> QED
  BY <1>5, <1>9, <1>10

\* A set of numbers that is not empty has a least element.
LEMMA Least ==
  ASSUME NEW T \in SUBSET Nat, T # {}
  PROVE  \E i \in T : \A j \in T : i <= j
<1>1. PICK i \in T : \A j \in T : ~(<<j, i>> \in OpToRel(<, Nat))
  BY NatLessThanWellFounded, WFMin
<1>2. \A j \in T : ~(j < i)
  BY <1>1 DEF OpToRel
<1> QED
  BY <1>2

HasHeaders(r) == Len(r.headers) \in Nat /\ DOMAIN r.headers = 1..Len(r.headers)

LEMMA RequestHasHeaders == \A r \in HttpRequest : HasHeaders(r)
BY DEF HttpRequest, HasHeaders

\* A request in another spelling has the same values for what is signed.
LEMMA SameValue ==
  ASSUME NEW r, NEW s, HasHeaders(r), HasHeaders(s), Respelled(r, s),
         NEW c, c \notin {"@query", "@target-uri"}
  PROVE  Value(r, c) = Value(s, c)
<1>1. DOMAIN r.headers = DOMAIN s.headers
  BY DEF Respelled, HasHeaders
<1>2. \A i \in DOMAIN r.headers :
        /\ Lower(r.headers[i].name) = Lower(s.headers[i].name)
        /\ r.headers[i].value = s.headers[i].value
  BY DEF Respelled
<1> DEFINE Found(x) == {i \in DOMAIN x.headers : Lower(x.headers[i].name) = Lower(c)}
<1>3. Found(r) = Found(s)
  BY <1>1, <1>2
<1>4. Header(r, c) = Header(s, c)
  <2>1. CASE Found(r) = {}
    BY <1>3, <2>1 DEF Header
  <2>2. CASE Found(r) # {}
    <3>1. First(Found(r)) \in Found(r)
      <4>1. Found(r) \subseteq Nat
        BY DEF HasHeaders
      <4>2. \E i \in Found(r) : \A j \in Found(r) : i <= j
        BY <2>2, <4>1, Least
      <4> QED
        BY <4>2 DEF First
    <3>2. r.headers[First(Found(r))].value = s.headers[First(Found(s))].value
      BY <1>2, <1>3, <3>1
    <3> QED
      BY <1>3, <2>2, <3>2 DEF Header
  <2> QED
    BY <2>1, <2>2
<1>5. Upper(r.method) = Upper(s.method) /\ r.host = s.host /\ r.path = s.path
  BY DEF Respelled
<1> QED
  BY <1>4, <1>5 DEF Value

-----------------------------------------------------------------------------
(* The invariant: what was signed was said *)

Typed ==
  /\ now \in 1..MaxNow
  /\ made \in Nat
  /\ keyFile \in Nat \ {0}
  /\ cardFile \in [key : Nat \ {0}, scheme : Schemes, expires : Nat]

\* What a command has read
CommandRead ==
  command # Nothing =>
    /\ command.do = "sign" => command.request \in Sent
    /\ command.do = "respond" => command.challenge \in challenges

\* No two challenges have the same id.
ChallengesNumbered ==
  /\ \A ch \in challenges : ch.id \in 1..made
  /\ \A ch, other \in challenges : ch.id = other.id => ch = other

\* A signed request: what its signatures are over, and what the signer of a request
\* other than the proxy puts in
Base(m) ==
  [lines |-> Lines(m.request, m.input.components), label |-> "",
   params |-> Written(m.input.params, m.input.order)]

ByTheProxy(m) == m.input.order = ProxyOrder

Understood(m) ==
  /\ m.input.order = Order(m.input.params)
  /\ m.input.params.expires \in Nat \ {0}
  /\ m.pq = IF Hybrid(m.card) THEN m.sig ELSE NoSig
  /\ \A i \in DOMAIN m.input.components :
       m.input.components[i] \notin {"@query", "@target-uri"}

WellSigned(m) ==
  /\ HasHeaders(m.request)
  /\ m.sig.key \in Nat \ {0}
  /\ m.sig = [key |-> m.sig.key, over |-> Base(m)]
  /\ m.input.params.nonce # 0
  /\ ByTheProxy(m) \/ Understood(m)

Saying(m) ==
  [by |-> m.sig.key, what |-> Stated(m.request, m.input.components),
   until |-> IF ByTheProxy(m) THEN Forever ELSE m.input.params.expires,
   confirmed |-> m.pq # NoSig, both |-> FALSE]

SignedSaid == \A m \in signed : WellSigned(m) /\ Saying(m) \in said

\* The same of messages
MessagesSaid ==
  \A msg \in messages :
    /\ msg.sig = [key |-> msg.sig.key, over |-> <<msg.payload, msg.seq, msg.time>>]
    /\ [by |-> msg.sig.key, what |-> <<"message", msg.payload, msg.seq, msg.time>>,
        until |-> Forever, confirmed |-> msg.pq # NoSig, both |-> FALSE] \in said

\* and of responses
Responded(response, ch) ==
  /\ ch.id = response.id
  /\ response.sig.key \in Nat \ {0}
  /\ response.sig = [key |-> response.sig.key, over |-> SignBytes(ch)]
  /\ response.pq = IF Hybrid(response.card) THEN response.sig ELSE NoSig

Responding(response, ch) ==
  [by |-> response.sig.key, what |-> <<"response", ch>>, until |-> ch.expires,
   confirmed |-> Hybrid(response.card), both |-> Hybrid(response.card)]

ResponsesSaid ==
  \A response \in responses :
    \E ch \in challenges : Responded(response, ch) /\ Responding(response, ch) \in said

SaidInv ==
  /\ Typed /\ CommandRead /\ ChallengesNumbered
  /\ SignedSaid /\ MessagesSaid /\ ResponsesSaid

-----------------------------------------------------------------------------
(* What signers make *)

LEMMA NotProxyOrder ==
  ASSUME NEW p, p.expires # 0, p.nonce # 0
  PROVE  Order(p) # ProxyOrder
BY OrderFull DEF ProxyOrder

\* The record that Publish adds
Record(r, card, s) ==
  [request |-> r, card |-> card, input |-> s.input, sig |-> s.sig, pq |-> s.pq]

\* What `sign` and sign_ws_upgrade make
LEMMA SignRequestMakes ==
  ASSUME NEW r, HasHeaders(r), NEW card, NEW components, NEW params, NEW label,
         NEW key \in Nat \ {0},
         \A i \in DOMAIN components : components[i] \notin {"@query", "@target-uri"},
         params.expires \in Nat \ {0}, params.nonce # 0
  PROVE  LET s == SignRequest(r, components, params, label, key, Hybrid(card))
         IN /\ WellSigned(Record(r, card, s))
            /\ Saying(Record(r, card, s)) =
                 [by |-> s.sig.key, what |-> Stated(r, components),
                  until |-> params.expires, confirmed |-> s.pq # NoSig, both |-> FALSE]
<1> DEFINE s == SignRequest(r, components, params, label, key, Hybrid(card))
           m == Record(r, card, s)
           base == SignatureBase(r, components, params)
<1>1. /\ s.input.components = components /\ s.input.order = Order(params)
      /\ s.input.params = params
      /\ s.sig = [key |-> key, over |-> base]
      /\ s.pq = IF Hybrid(card) THEN [key |-> key, over |-> base] ELSE NoSig
  BY DEF SignRequest
<1> HIDE DEF s
<1>2. /\ m.request = r /\ m.card = card /\ m.input = s.input /\ m.sig = s.sig
      /\ m.pq = s.pq
  BY DEF Record
<1> HIDE DEF m
<1>3. m.sig.key = key
  BY <1>1, <1>2
<1>4. Base(m) = base
  BY <1>1, <1>2 DEF Base, SignatureBase
<1>5. ~ByTheProxy(m)
  BY <1>1, <1>2, NotProxyOrder DEF ByTheProxy
<1>6. Understood(m)
  BY <1>1, <1>2 DEF Understood
<1>7. WellSigned(m)
  BY <1>1, <1>2, <1>3, <1>4, <1>6 DEF WellSigned
<1>8. Saying(m) = [by |-> s.sig.key, what |-> Stated(r, components),
                   until |-> params.expires, confirmed |-> s.pq # NoSig, both |-> FALSE]
  BY <1>1, <1>2, <1>5 DEF Saying
<1> QED
  BY <1>7, <1>8 DEF m, s

\* What the proxy makes
LEMMA ProxyMakes ==
  ASSUME NEW r, HasHeaders(r), NEW card, NEW params, NEW key \in Nat \ {0},
         NEW hybrid, params.nonce # 0
  PROVE  LET s == ProxySigned(r, params, key, hybrid)
         IN /\ WellSigned(Record(r, card, s))
            /\ Saying(Record(r, card, s)) =
                 [by |-> s.sig.key, what |-> Stated(r, ProxyComponents),
                  until |-> Forever, confirmed |-> s.pq # NoSig, both |-> FALSE]
<1> DEFINE s == ProxySigned(r, params, key, hybrid)
           m == Record(r, card, s)
           base == [lines |-> Lines(r, ProxyComponents), label |-> "",
                    params |-> Written(params, ProxyOrder)]
<1>1. /\ s.input.components = ProxyComponents /\ s.input.order = ProxyOrder
      /\ s.input.params = params
      /\ s.sig = [key |-> key, over |-> base] /\ s.sig.key = key
  BY DEF ProxySigned
<1> HIDE DEF s
<1>2. /\ m.request = r /\ m.card = card /\ m.input = s.input /\ m.sig = s.sig
      /\ m.pq = s.pq
  BY DEF Record
<1> HIDE DEF m
<1>3. m.sig.key = key
  BY <1>1, <1>2
<1>4. Base(m) = base
  BY <1>1, <1>2 DEF Base
<1>5. ByTheProxy(m)
  BY <1>1, <1>2 DEF ByTheProxy
<1>6. WellSigned(m)
  BY <1>1, <1>2, <1>3, <1>4, <1>5 DEF WellSigned
<1>7. Saying(m) = [by |-> s.sig.key, what |-> Stated(r, ProxyComponents),
                   until |-> Forever, confirmed |-> s.pq # NoSig, both |-> FALSE]
  BY <1>1, <1>2, <1>5 DEF Saying
<1> QED
  BY <1>6, <1>7 DEF m, s

-----------------------------------------------------------------------------
(* The invariant is inductive *)

LEMMA SaidInit == Init => SaidInv
<1> SUFFICES ASSUME Init PROVE SaidInv
  OBVIOUS
<1>1. Typed
  BY SigningAssumption DEF Init, Typed
<1> QED
  BY <1>1 DEF Init, SaidInv, CommandRead, ChallengesNumbered, SignedSaid, MessagesSaid,
            ResponsesSaid

\* Nothing is unsaid: a step that makes nothing keeps what there is.
LEMMA NothingMade ==
  ASSUME SaidInv, UNCHANGED works, Typed', CommandRead'
  PROVE  SaidInv'
BY DEF works, SaidInv, ChallengesNumbered, SignedSaid, MessagesSaid, ResponsesSaid

\* What is published is said.
LEMMA PublishKeeps ==
  ASSUME SaidInv, NEW r, NEW card, NEW components, NEW until, NEW s,
         Publish(r, card, components, until, s), Make,
         WellSigned(Record(r, card, s)),
         Saying(Record(r, card, s)) =
           [by |-> s.sig.key, what |-> Stated(r, components), until |-> until,
            confirmed |-> s.pq # NoSig, both |-> FALSE],
         UNCHANGED <<now, files>>, command' \in {command, Nothing}
  PROVE  SaidInv'
<1> DEFINE m == Record(r, card, s)
<1>1. signed' = signed \cup {m} /\ said' = said \cup {Saying(m)}
  BY DEF Publish, Say, Record
<1>2. UNCHANGED <<messages, challenges, responses>> /\ said \subseteq said'
  BY <1>1 DEF Publish
<1> HIDE DEF m
<1>3. SignedSaid'
  BY <1>1, <1>2 DEF SaidInv, SignedSaid, m
<1>4. Typed' /\ ChallengesNumbered'
  BY <1>2 DEF SaidInv, Typed, ChallengesNumbered, Make, files
<1>5. MessagesSaid' /\ ResponsesSaid'
  BY <1>2 DEF SaidInv, MessagesSaid, ResponsesSaid
<1>6. CommandRead'
  BY <1>2 DEF SaidInv, CommandRead
<1> QED
  BY <1>3, <1>4, <1>5, <1>6 DEF SaidInv

LEMMA SignKeeps ==
  ASSUME SaidInv, Sign
  PROVE  SaidInv'
<1> DEFINE r == command.request
           card == command.card
           params == Params(card, now + Validity)
           s == SignRequest(r, Covered(r), params, "sig1", keyFile, Hybrid(card))
<1>1. CASE UNCHANGED works
  <2>1. command' = Nothing /\ UNCHANGED <<now, files>>
    BY DEF Sign
  <2>2. Typed' /\ CommandRead'
    BY <1>1, <2>1 DEF SaidInv, Typed, CommandRead, files, works
  <2> QED
    BY <1>1, <2>2, NothingMade
<1>2. CASE Make /\ Publish(r, card, Covered(r), now + Validity, s)
  <2>1. r \in HttpRequest
    BY SigningAssumption DEF Sign, SaidInv, CommandRead
  <2>2. keyFile \in Nat \ {0} /\ now \in Nat \ {0} /\ made \in Nat
    BY SigningAssumption DEF SaidInv, Typed
  <2>3. params.expires = now + Validity /\ params.nonce = made + 1
    BY DEF Params
  <2>4. params.expires \in Nat \ {0} /\ params.nonce # 0
    BY <2>2, <2>3, SigningAssumption
  <2> HIDE DEF params, r, card
  <2>5. /\ WellSigned(Record(r, card, s))
        /\ Saying(Record(r, card, s)) =
             [by |-> s.sig.key, what |-> Stated(r, Covered(r)),
              until |-> now + Validity, confirmed |-> s.pq # NoSig, both |-> FALSE]
    BY <2>1, <2>2, <2>3, <2>4, RequestHasHeaders, CoveredNames, SignRequestMakes
  <2> HIDE DEF s
  <2> QED
    BY <1>2, <2>5, PublishKeeps DEF Sign
<1> QED
  BY <1>1, <1>2 DEF Sign

LEMMA UpgradeKeeps ==
  ASSUME SaidInv, NEW q \in Sent, SignUpgrade(q)
  PROVE  SaidInv'
<1> DEFINE r == Upgrade(q)
           card == cardFile
           params == Params(card, now + Validity)
           s == SignRequest(r, UpgradeComponents, params, "ws-auth", keyFile, Hybrid(card))
<1>1. HasHeaders(r)
  <2>1. q \in HttpRequest
    BY SigningAssumption
  <2>2. \E a, b, c, d : r.headers = <<a, b, c, d>>
    BY <2>1 DEF Upgrade, HttpRequest
  <2> QED
    BY <2>2 DEF HasHeaders
<1>2. keyFile \in Nat \ {0} /\ now \in Nat \ {0} /\ made \in Nat
  BY SigningAssumption DEF SaidInv, Typed
<1>3. params.expires = now + Validity /\ params.nonce = made + 1
  BY DEF Params
<1>4. params.expires \in Nat \ {0} /\ params.nonce # 0
  BY <1>2, <1>3, SigningAssumption
<1>5. \A i \in DOMAIN UpgradeComponents :
        UpgradeComponents[i] \notin {"@query", "@target-uri"}
  BY DEF UpgradeComponents
<1>6. Make /\ Publish(r, card, UpgradeComponents, now + Validity, s)
  BY DEF SignUpgrade
<1> HIDE DEF params, r
<1>7. /\ WellSigned(Record(r, card, s))
      /\ Saying(Record(r, card, s)) =
           [by |-> s.sig.key, what |-> Stated(r, UpgradeComponents),
            until |-> now + Validity, confirmed |-> s.pq # NoSig, both |-> FALSE]
  BY <1>1, <1>2, <1>3, <1>4, <1>5, SignRequestMakes
<1> HIDE DEF s
<1> QED
  BY <1>6, <1>7, PublishKeeps DEF SignUpgrade

LEMMA ProxyKeeps ==
  ASSUME SaidInv, NEW r \in Sent, NEW k \in 1..keyFile, ProxySign(r, k)
  PROVE  SaidInv'
<1> DEFINE params == [Params(cardFile, 0) EXCEPT !.alg = "ed25519"]
           hybrid == cardFile.scheme # "ed25519"
           s == ProxySigned(r, params, k, hybrid)
<1>1. r \in HttpRequest /\ HasHeaders(r)
  BY SigningAssumption, RequestHasHeaders
<1>2. keyFile \in Nat \ {0} /\ made \in Nat
  BY DEF SaidInv, Typed
<1>3. k \in Nat \ {0}
  BY <1>2
<1>4. params.nonce = made + 1
  BY DEF Params
<1>5. params.nonce # 0
  BY <1>2, <1>4
<1>6. Make /\ Publish(r, cardFile, ProxyComponents, Forever, s)
  BY DEF ProxySign
<1> HIDE DEF params, hybrid
<1>7. /\ WellSigned(Record(r, cardFile, s))
      /\ Saying(Record(r, cardFile, s)) =
           [by |-> s.sig.key, what |-> Stated(r, ProxyComponents),
            until |-> Forever, confirmed |-> s.pq # NoSig, both |-> FALSE]
  BY <1>1, <1>3, <1>5, ProxyMakes
<1> HIDE DEF s
<1> QED
  BY <1>6, <1>7, PublishKeeps DEF ProxySign

LEMMA WsSignKeeps ==
  ASSUME SaidInv, NEW payload, WsSign(payload)
  PROVE  SaidInv'
<1> DEFINE msg == SignMessage(payload, made + 1, now, keyFile, Hybrid(cardFile))
           data == <<msg.payload, msg.seq, msg.time>>
<1>1. keyFile \in Nat \ {0}
  BY DEF SaidInv, Typed
<1>2. /\ msg.payload = payload /\ msg.seq = made + 1 /\ msg.time = now
      /\ msg.sig = [key |-> keyFile, over |-> data] /\ msg.sig.key = keyFile
  BY DEF SignMessage
<1>3. Hybrid(cardFile) = (msg.pq # NoSig)
  <2>1. CASE Hybrid(cardFile)
    BY <1>1, <2>1 DEF SignMessage, NoSig
  <2>2. CASE ~Hybrid(cardFile)
    BY <2>2 DEF SignMessage, Hybrid
  <2> QED
    BY <2>1, <2>2 DEF Hybrid
<1>4. /\ messages' = messages \cup {msg}
      /\ said' = said \cup {[by |-> keyFile, what |-> <<"message", payload, made + 1, now>>,
                              until |-> Forever, confirmed |-> Hybrid(cardFile),
                              both |-> FALSE]}
  BY DEF WsSign, Say
<1> HIDE DEF msg
<1>5. [by |-> keyFile, what |-> <<"message", payload, made + 1, now>>,
       until |-> Forever, confirmed |-> Hybrid(cardFile), both |-> FALSE]
        = [by |-> msg.sig.key, what |-> <<"message", msg.payload, msg.seq, msg.time>>,
           until |-> Forever, confirmed |-> msg.pq # NoSig, both |-> FALSE]
  BY <1>2, <1>3 DEF Hybrid
<1>6. MessagesSaid'
  BY <1>2, <1>4, <1>5 DEF SaidInv, MessagesSaid
<1>7. /\ UNCHANGED <<now, files, command, signed, challenges, responses>>
      /\ said \subseteq said' /\ made' = made + 1
  BY <1>4 DEF WsSign, Make
<1>8. Typed' /\ ChallengesNumbered' /\ CommandRead'
  BY <1>7 DEF SaidInv, Typed, ChallengesNumbered, CommandRead, files
<1>9. SignedSaid' /\ ResponsesSaid'
  BY <1>7 DEF SaidInv, SignedSaid, ResponsesSaid
<1> QED
  BY <1>6, <1>8, <1>9 DEF SaidInv

LEMMA ChallengeKeeps ==
  ASSUME SaidInv, NEW demand, NEW ttl, CreateChallenge(demand, ttl)
  PROVE  SaidInv'
<1> DEFINE ch == [id |-> made + 1, issued |-> now, expires |-> now + ttl,
                  scopes |-> demand.scopes,
                  minCrypto |-> IF demand.requirePQ THEN "hybrid" ELSE "none"]
<1>1. challenges' = challenges \cup {ch} /\ ch.id = made + 1
  BY DEF CreateChallenge
<1> HIDE DEF ch
<1>2. /\ UNCHANGED <<now, files, command, signed, messages, responses, said>>
      /\ made' = made + 1 /\ made \in Nat
  BY DEF CreateChallenge, Make, SaidInv, Typed
<1>3. ChallengesNumbered'
  <2>1. \A other \in challenges : other.id \in 1..made
    BY DEF SaidInv, ChallengesNumbered
  <2>2. ch.id \in 1..made' /\ 1..made \subseteq 1..made' /\ ch.id \notin 1..made
    BY <1>1, <1>2
  <2>3. \A other \in challenges' : other.id \in 1..made'
    BY <1>1, <2>1, <2>2
  <2>4. \A c, d \in challenges' : c.id = d.id => c = d
    BY <1>1, <2>1, <2>2 DEF SaidInv, ChallengesNumbered
  <2> QED
    BY <2>3, <2>4 DEF ChallengesNumbered
<1>4. Typed' /\ CommandRead' /\ SignedSaid' /\ MessagesSaid'
  BY <1>1, <1>2 DEF SaidInv, Typed, CommandRead, SignedSaid, MessagesSaid, files
<1>5. ResponsesSaid'
  BY <1>1, <1>2 DEF SaidInv, ResponsesSaid
<1> QED
  BY <1>3, <1>4, <1>5 DEF SaidInv

LEMMA RespondKeeps ==
  ASSUME SaidInv, Respond
  PROVE  SaidInv'
<1> DEFINE ch == command.challenge
           card == command.card
           sig == [key |-> keyFile, over |-> SignBytes(ch)]
           response == [id |-> ch.id, card |-> card, sig |-> sig,
                        pq |-> IF Hybrid(card) THEN sig ELSE NoSig]
           statement == [by |-> keyFile, what |-> <<"response", ch>>, until |-> ch.expires,
                         confirmed |-> Hybrid(card), both |-> Hybrid(card)]
<1>1. /\ UNCHANGED <<now, files, signed, messages, challenges, made>>
      /\ command' = Nothing /\ ch \in challenges
  BY DEF Respond, SaidInv, CommandRead
<1>2. \/ responses' = responses \cup {response} /\ said' = said \cup {statement}
      \/ UNCHANGED <<responses, said>>
  BY DEF Respond, Say
<1>3. /\ response.id = ch.id /\ response.card = card /\ response.sig = sig
      /\ response.pq = IF Hybrid(card) THEN sig ELSE NoSig
      /\ sig.key = keyFile /\ sig.over = SignBytes(ch)
  OBVIOUS
<1> HIDE DEF response, ch, card
<1>4. ResponsesSaid'
  <2>1. CASE UNCHANGED <<responses, said>>
    BY <1>1, <2>1 DEF SaidInv, ResponsesSaid
  <2>2. CASE responses' = responses \cup {response} /\ said' = said \cup {statement}
    <3>1. Responding(response, ch) = statement
      BY <1>3 DEF Responding
    <3>2. Responded(response, ch)
      BY <1>3 DEF Responded, SaidInv, Typed
    <3> HIDE DEF statement, sig
    <3> QED
      BY <1>1, <2>2, <3>1, <3>2 DEF SaidInv, ResponsesSaid
  <2> QED
    BY <1>2, <2>1, <2>2
<1>5. said \subseteq said'
  BY <1>2
<1>6. SignedSaid' /\ MessagesSaid'
  BY <1>1, <1>5 DEF SaidInv, SignedSaid, MessagesSaid
<1>7. Typed' /\ CommandRead' /\ ChallengesNumbered'
  BY <1>1 DEF SaidInv, Typed, CommandRead, ChallengesNumbered, files
<1> QED
  BY <1>4, <1>6, <1>7 DEF SaidInv

LEMMA SaidNext == SaidInv /\ [Next]_vars => SaidInv'
<1> SUFFICES ASSUME SaidInv, [Next]_vars PROVE SaidInv'
  OBVIOUS
<1>1. CASE Tick
  <2>1. Typed'
    BY <1>1, SigningAssumption DEF Tick, SaidInv, Typed, works, files
  <2> QED
    BY <1>1, <2>1, NothingMade DEF Tick, SaidInv, CommandRead, works
<1>2. CASE Rotates
  <2>1. UNCHANGED <<now, command, works>>
    BY <1>2 DEF Rotates, RotateKey, RotateCard
  <2>2. Typed'
    <3>1. CASE RotateKey
      BY <3>1 DEF RotateKey, SaidInv, Typed, works
    <3>2. ASSUME NEW ttl \in TTLs, RotateCard(ttl) PROVE Typed'
      <4>1. now + ttl \in Nat /\ cardFile.key + 1 \in Nat \ {0}
        BY SigningAssumption DEF SaidInv, Typed
      <4>2. cardFile' = [cardFile EXCEPT !.key = cardFile.key + 1, !.expires = now + ttl]
        BY <3>2 DEF RotateCard
      <4>3. cardFile' \in [key : Nat \ {0}, scheme : Schemes, expires : Nat]
        BY <4>1, <4>2 DEF SaidInv, Typed
      <4> QED
        BY <3>2, <4>3 DEF RotateCard, SaidInv, Typed, works
    <3> QED
      BY <1>2, <3>1, <3>2 DEF Rotates
  <2> QED
    BY <2>1, <2>2, NothingMade DEF SaidInv, CommandRead, works
<1>3. CASE Signs
  <2>1. ASSUME NEW r \in Sent, SignRead(r) PROVE SaidInv'
    <3>1. UNCHANGED <<now, files, works>> /\ command'.do = "sign" /\ command'.request = r
      BY <2>1 DEF SignRead
    <3> QED
      BY <3>1, NothingMade DEF SaidInv, Typed, CommandRead, files, works
  <2>2. ASSUME NEW payload \in Payloads, WsSign(payload) PROVE SaidInv'
    BY <2>2, WsSignKeeps
  <2> QED
    BY <1>3, <2>1, <2>2, SignKeeps, UpgradeKeeps, ProxyKeeps DEF Signs
<1>4. CASE Verifies
  <2>1. UNCHANGED <<now, files, command, works>>
    BY <1>4 DEF Verifies, VerifySig, ReceiveA2A, WsVerify
  <2> QED
    BY <2>1, NothingMade DEF SaidInv, Typed, CommandRead, files, works
<1>5. CASE Challenges
  <2>1. ASSUME NEW ch \in challenges, RespondRead(ch) PROVE SaidInv'
    <3>1. /\ UNCHANGED <<now, files, works>>
          /\ command'.do = "respond" /\ command'.challenge = ch
      BY <2>1 DEF RespondRead
    <3> QED
      BY <3>1, NothingMade DEF SaidInv, Typed, CommandRead, files, works
  <2>2. ASSUME NEW ch, NEW response, NEW pq, AcceptResponse(ch, response, pq) PROVE SaidInv'
    <3>1. UNCHANGED <<now, files, command, works>>
      BY <2>2 DEF AcceptResponse
    <3> QED
      BY <3>1, NothingMade DEF SaidInv, Typed, CommandRead, files, works
  <2> QED
    BY <1>5, <2>1, <2>2, ChallengeKeeps, RespondKeeps DEF Challenges
<1>6. CASE UNCHANGED vars
  BY <1>6, NothingMade DEF vars, SaidInv, Typed, CommandRead, files, works
<1> QED
  BY <1>1, <1>2, <1>3, <1>4, <1>5, <1>6 DEF Next

\* The invariant holds at all times.
THEOREM WhatIsSignedWasSaid == Spec => []SaidInv
<1> QED
  BY SaidInit, SaidNext, PTL DEF Spec

-----------------------------------------------------------------------------
(* Signing implements Authentic *)

\* A request that is verified, with the headers of m and a signature of n, states
\* what was signed in n, and its time has not run out.
LEMMA VerifiedWasSigned ==
  ASSUME SaidInv, NEW m \in signed, NEW n \in signed, NEW r, NEW card,
         Verified(r, m.input, n.sig, card)
  PROVE  /\ Saying(n) \in said /\ Saying(n).by = card.key
         /\ Saying(n).what = Stated(r, m.input.components)
         /\ now <= Saying(n).until
<1>1. WellSigned(m) /\ WellSigned(n) /\ Saying(n) \in said
  BY DEF SaidInv, SignedSaid
<1>2. n.sig = [key |-> card.key, over |-> Rebuilt(r, m.input)]
  BY DEF Verified, VerifyRequest
<1>3. n.sig.key = card.key /\ Base(n) = Rebuilt(r, m.input)
  BY <1>1, <1>2 DEF WellSigned
<1>4. /\ Lines(n.request, n.input.components) = Lines(r, m.input.components)
      /\ Written(n.input.params, n.input.order)
           = Written(m.input.params, Order(m.input.params))
  BY <1>3 DEF Base, Rebuilt, SignatureBase
<1>5. Stated(n.request, n.input.components) = Stated(r, m.input.components)
  BY <1>4, SameLines
<1>6. m.input.params.nonce # 0 /\ n.input.params.nonce # 0
  BY <1>1 DEF WellSigned
<1>7. ~ByTheProxy(n) /\ Understood(n)
  BY <1>1, <1>4, <1>6, NotAsTheProxy DEF ByTheProxy, WellSigned
<1>8. n.input.params.expires \in Nat \ {0} /\ n.input.order = Order(n.input.params)
  BY <1>7 DEF Understood
<1>9. m.input.params.expires = n.input.params.expires
  BY <1>4, <1>6, <1>8, SameParams
<1>10. now <= n.input.params.expires
  <2>1. ~Expired(m.input.params, now)
    BY DEF Verified
  <2>2. now \in Nat
    BY SigningAssumption DEF SaidInv, Typed
  <2> QED
    BY <1>8, <1>9, <2>1, <2>2 DEF Expired
<1> QED
  BY <1>1, <1>3, <1>5, <1>7, <1>10 DEF Saying

\* The A2A server, which puts the label into the base, accepts no signature.
LEMMA A2AAcceptsNone ==
  ASSUME SaidInv, NEW m \in signed, NEW key
  PROVE  ~VerifyA2A(m.request, m.input, m.sig, key)
<1>1. m.sig = [key |-> m.sig.key, over |-> Base(m)]
  BY DEF SaidInv, SignedSaid, WellSigned
<1>2. Base(m).label = "" /\ A2ABase(m.request, m.input).label = m.input.label
  BY DEF Base, A2ABase
<1>3. ASSUME VerifyA2A(m.request, m.input, m.sig, key) PROVE FALSE
  <2>1. m.input.label = "sig1" /\ m.sig = [key |-> key, over |-> A2ABase(m.request, m.input)]
    BY <1>3 DEF VerifyA2A
  <2>2. Base(m) = A2ABase(m.request, m.input)
    BY <1>1, <2>1
  <2> QED
    BY <1>2, <2>1, <2>2
<1> QED
  BY <1>3

\* Something that was said and still counts is taken.
LEMMA Taking ==
  ASSUME NEW s \in said, NEW confirmed \in BOOLEAN, now <= s.until,
         confirmed => s.confirmed, s.both => confirmed,
         Accept(s.by, s.what, confirmed), UNCHANGED <<now, said>>
  PROVE  Abstract!Take
BY DEF Abstract!Take, Accept

LEMMA SayingSteps ==
  ASSUME NEW k, NEW what, NEW until, NEW confirmed, NEW both,
         Say(k, what, until, confirmed, both), UNCHANGED <<now, taken>>
  PROVE  Abstract!Say
<1> DEFINE s == [by |-> k, what |-> what, until |-> until, confirmed |-> confirmed,
                 both |-> both]
<1>1. s \in said' /\ said' = said \cup {s}
  BY DEF Say
<1> HIDE DEF s
<1> QED
  BY <1>1 DEF Abstract!Say

LEMMA VerifySteps ==
  ASSUME SaidInv, NEW m \in signed, NEW n \in signed, NEW card, NEW r,
         NEW withPQ \in BOOLEAN, VerifySig(r, m, n, card, withPQ)
  PROVE  Abstract!Take
<1>1. Verified(r, m.input, n.sig, card)
  BY DEF VerifySig
<1>2. /\ Saying(n) \in said /\ Saying(n).by = card.key
      /\ Saying(n).what = Stated(r, m.input.components)
      /\ now <= Saying(n).until
  BY <1>1, VerifiedWasSigned
<1>3. (withPQ => Saying(n).confirmed) /\ ~Saying(n).both
  BY DEF VerifySig, VerifiedPQ, Saying
<1>4. /\ Accept(card.key, Stated(r, m.input.components), withPQ)
      /\ UNCHANGED <<now, said>>
  BY DEF VerifySig, works
<1> QED
  BY <1>2, <1>3, <1>4, Taking

\* A message without its second signature says what it said with it.
LEMMA MessageSteps ==
  ASSUME SaidInv, NEW msg \in messages, NEW pq \in Arriving(msg.pq), NEW card,
         WsVerify(msg, pq, card)
  PROVE  Abstract!Take
<1> DEFINE s == [by |-> msg.sig.key, what |-> <<"message", msg.payload, msg.seq, msg.time>>,
                 until |-> Forever, confirmed |-> msg.pq # NoSig, both |-> FALSE]
           confirmed == pq # NoSig /\ Hybrid(card)
<1>1. s \in said
  BY DEF SaidInv, MessagesSaid
<1>2. msg.sig.key = card.key /\ (pq # NoSig => msg.pq # NoSig)
  BY DEF WsVerify, VerifyMessage, Arriving
<1>3. /\ s.by = card.key /\ s.what = <<"message", msg.payload, msg.seq, msg.time>>
      /\ s.until = MaxNow /\ ~s.both
      /\ confirmed => s.confirmed
  BY <1>2 DEF Forever
<1>4. now <= MaxNow
  BY SigningAssumption DEF SaidInv, Typed
<1>5. /\ Accept(card.key, <<"message", msg.payload, msg.seq, msg.time>>, confirmed)
      /\ UNCHANGED <<now, said>>
  BY DEF WsVerify, works
<1>6. confirmed \in BOOLEAN
  OBVIOUS
<1> HIDE DEF s, confirmed
<1>7. /\ now <= s.until /\ (confirmed => s.confirmed) /\ (s.both => confirmed)
      /\ Accept(s.by, s.what, confirmed)
  BY <1>3, <1>4, <1>5, Zenon
<1> QED
  BY <1>1, <1>5, <1>6, <1>7, Taking, Zenon

\* A response counts for the challenge whose id it has, and a hybrid card's only
\* with both signatures.
LEMMA ResponseSteps ==
  ASSUME SaidInv, NEW ch \in challenges, NEW response \in responses,
         NEW pq \in Arriving(response.pq), AcceptResponse(ch, response, pq)
  PROVE  Abstract!Take
<1> DEFINE s == Responding(response, ch)
           confirmed == pq # NoSig
<1>1. /\ response.sig = [key |-> response.card.key, over |-> SignBytes(ch)]
      /\ Hybrid(response.card) => pq = [key |-> response.card.key, over |-> SignBytes(ch)]
      /\ now <= ch.expires /\ response.id = ch.id
  BY DEF AcceptResponse, VerifyResponse
<1>2. Responded(response, ch) /\ s \in said
  <2>1. PICK c \in challenges : Responded(response, c) /\ Responding(response, c) \in said
    BY DEF SaidInv, ResponsesSaid
  <2>2. c = ch
    BY <1>1, <2>1 DEF Responded, SaidInv, ChallengesNumbered
  <2> QED
    BY <2>1, <2>2
<1>3. response.sig.key = response.card.key /\ response.card.key \in Nat \ {0}
  BY <1>1, <1>2 DEF Responded
<1>4. /\ s.by = response.card.key /\ s.what = <<"response", ch>> /\ s.until = ch.expires
      /\ s.confirmed = Hybrid(response.card) /\ s.both = Hybrid(response.card)
  BY <1>3 DEF Responding
<1>5. confirmed = Hybrid(response.card)
  <2>1. ASSUME Hybrid(response.card) PROVE confirmed
    BY <1>1, <1>3, <2>1 DEF NoSig
  <2>2. ASSUME ~Hybrid(response.card) PROVE ~confirmed
    BY <1>2, <2>2 DEF Responded, Arriving
  <2> QED
    BY <2>1, <2>2 DEF Hybrid
<1>6. /\ Accept(response.card.key, <<"response", ch>>, confirmed)
      /\ UNCHANGED <<now, said>>
  BY DEF AcceptResponse, works
<1>7. confirmed \in BOOLEAN
  OBVIOUS
<1> HIDE DEF s, confirmed
<1>8. /\ now <= s.until /\ (confirmed => s.confirmed) /\ (s.both => confirmed)
      /\ Accept(s.by, s.what, confirmed)
  BY <1>1, <1>4, <1>5, <1>6, Zenon
<1> QED
  BY <1>2, <1>6, <1>7, <1>8, Taking, Zenon

LEMMA AuthenticStep == SaidInv /\ [Next]_vars => [Abstract!Next]_(Abstract!vars)
<1> SUFFICES ASSUME SaidInv, [Next]_vars PROVE Abstract!Next \/ UNCHANGED <<now, said, taken>>
  BY DEF Abstract!vars
<1>1. CASE Tick
  <2>1. now' > now /\ UNCHANGED <<said, taken>>
    BY <1>1, SigningAssumption DEF Tick, SaidInv, Typed, works
  <2> QED
    BY <2>1 DEF Abstract!Tick, Abstract!Next
<1>2. CASE Rotates
  BY <1>2 DEF Rotates, RotateKey, RotateCard, works
<1>3. CASE Signs
  <2>1. ASSUME NEW r, NEW card, NEW components, NEW until, NEW s,
               Publish(r, card, components, until, s), UNCHANGED <<now, taken>>
        PROVE  Abstract!Say
    BY <2>1, SayingSteps DEF Publish
  <2>2. CASE Sign
    <3>1. CASE UNCHANGED works
      BY <2>2, <3>1 DEF Sign, works
    <3>2. CASE ~UNCHANGED works
      BY <2>1, <2>2, <3>2 DEF Sign, Abstract!Next
    <3> QED
      BY <3>1, <3>2
  <2>3. ASSUME NEW r \in Sent, SignRead(r) PROVE UNCHANGED <<now, said, taken>>
    BY <2>3 DEF SignRead, works
  <2>4. ASSUME NEW r \in Sent, SignUpgrade(r) PROVE Abstract!Next
    BY <2>1, <2>4 DEF SignUpgrade, Abstract!Next
  <2>5. ASSUME NEW r \in Sent, NEW k \in 1..keyFile, ProxySign(r, k) PROVE Abstract!Next
    BY <2>1, <2>5 DEF ProxySign, Abstract!Next
  <2>6. ASSUME NEW payload \in Payloads, WsSign(payload) PROVE Abstract!Next
    BY <2>6, SayingSteps DEF WsSign, Abstract!Next
  <2> QED
    BY <1>3, <2>2, <2>3, <2>4, <2>5, <2>6 DEF Signs
<1>4. CASE Verifies
  <2>1. ASSUME NEW m \in signed, ReceiveA2A(m) PROVE UNCHANGED <<now, said, taken>>
    BY <2>1, A2AAcceptsNone DEF ReceiveA2A, works
  <2> QED
    BY <1>4, <2>1, VerifySteps, MessageSteps DEF Verifies, Abstract!Next
<1>5. CASE Challenges
  <2>1. ASSUME NEW demand, NEW ttl, CreateChallenge(demand, ttl)
        PROVE  UNCHANGED <<now, said, taken>>
    BY <2>1 DEF CreateChallenge
  <2>2. ASSUME NEW ch, RespondRead(ch) PROVE UNCHANGED <<now, said, taken>>
    BY <2>2 DEF RespondRead, works
  <2>3. CASE Respond
    <3>1. \/ UNCHANGED <<now, said, taken>>
          \/ /\ UNCHANGED <<now, taken>>
             /\ \E k, what, until, confirmed, both : Say(k, what, until, confirmed, both)
      BY <2>3 DEF Respond
    <3> QED
      BY <3>1, SayingSteps DEF Abstract!Next
  <2> QED
    BY <1>5, <2>1, <2>2, <2>3, ResponseSteps DEF Challenges, Abstract!Next
<1>6. CASE UNCHANGED vars
  BY <1>6 DEF vars, works
<1> QED
  BY <1>1, <1>2, <1>3, <1>4, <1>5, <1>6 DEF Next

\* For any requests, keys and rotations: what is accepted as a key's was signed with
\* that key, over exactly what was received, and still counts (httpsig.rs,
\* verify_request and verify_ws_message; challenge.rs, verify_response).
THEOREM AcceptedIsAuthentic == Spec => ImplementsAuthentic
<1>1. Init => Abstract!Init
  BY DEF Init, Abstract!Init
<1> QED
  BY <1>1, WhatIsSignedWasSaid, AuthenticStep, PTL DEF Spec, ImplementsAuthentic, Abstract!Spec

-----------------------------------------------------------------------------
(* What honest holders sign is accepted *)

\* A signed request, in any spelling, until it expires
LEMMA HonestRequest ==
  ASSUME SaidInv, NEW m \in signed, NEW r, HasHeaders(r),
         ~ByTheProxy(m), m.sig.key = m.card.key, Respelled(r, m.request),
         now <= m.input.params.expires
  PROVE  /\ Verified(r, m.input, m.sig, m.card)
         /\ Hybrid(m.card) => VerifiedPQ(r, m.input, m.pq, m.card)
<1>1. WellSigned(m) /\ Understood(m)
  BY DEF SaidInv, SignedSaid, WellSigned
<1>2. HasHeaders(m.request)
  BY <1>1 DEF WellSigned
<1>3. \A i \in DOMAIN m.input.components :
        Value(r, m.input.components[i]) = Value(m.request, m.input.components[i])
  BY <1>1, <1>2, SameValue DEF Understood
<1>4. Lines(r, m.input.components) = Lines(m.request, m.input.components)
  BY <1>3 DEF Lines
<1>5. Base(m) = Rebuilt(r, m.input)
  BY <1>1, <1>4 DEF Base, Rebuilt, SignatureBase, Understood
<1>6. m.sig = [key |-> m.card.key, over |-> Rebuilt(r, m.input)]
  BY <1>1, <1>5 DEF WellSigned
<1>7. Verified(r, m.input, m.sig, m.card)
  <2>1. now \in Nat /\ m.input.params.expires \in Nat
    BY <1>1, SigningAssumption DEF SaidInv, Typed, Understood
  <2>2. ~Expired(m.input.params, now)
    BY <2>1 DEF Expired
  <2> QED
    BY <1>6, <2>2 DEF Verified, VerifyRequest
<1>8. ASSUME Hybrid(m.card) PROVE VerifiedPQ(r, m.input, m.pq, m.card)
  <2>1. m.pq = m.sig
    BY <1>1, <1>8 DEF Understood
  <2>2. m.pq # NoSig
    BY <1>1, <2>1 DEF WellSigned, NoSig
  <2> QED
    BY <1>6, <1>8, <2>1, <2>2 DEF VerifiedPQ, VerifyRequest, Hybrid
<1> QED
  BY <1>7, <1>8

\* A response to a challenge, while the challenge and the card are valid
LEMMA HonestResponse ==
  ASSUME SaidInv, NEW ch \in challenges, NEW response \in responses,
         response.id = ch.id, response.sig.key = response.card.key,
         now <= ch.expires, now < response.card.expires, ch.scopes \subseteq Scopes,
         Hybrid(response.card) \/ ch.minCrypto = "none"
  PROVE  VerifyResponse(ch, response, response.pq)
<1>1. PICK c \in challenges : Responded(response, c)
  BY DEF SaidInv, ResponsesSaid
<1>2. c = ch
  BY <1>1 DEF Responded, SaidInv, ChallengesNumbered
<1>3. /\ response.sig = [key |-> response.card.key, over |-> SignBytes(ch)]
      /\ response.pq = IF Hybrid(response.card) THEN response.sig ELSE NoSig
  BY <1>1, <1>2 DEF Responded
<1> QED
  BY <1>3 DEF VerifyResponse

\* What an honest holder signs is accepted, in whatever spelling it arrives, up to
\* its last second (httpsig.rs, build_signature_base and verify_request;
\* challenge.rs, verify_response).
THEOREM HonestNeverRefused == Spec => []HonestIsAccepted
<1>1. SaidInv => HonestIsAccepted
  <2> SUFFICES ASSUME SaidInv PROVE HonestIsAccepted
    OBVIOUS
  <2>1. \A r \in Requests \cup {s.request : s \in signed} : HasHeaders(r)
    BY SigningAssumption, RequestHasHeaders DEF SaidInv, SignedSaid, WellSigned
  <2> QED
    BY <2>1, HonestRequest, HonestResponse DEF HonestIsAccepted, ByTheProxy
<1> QED
  BY <1>1, WhatIsSignedWasSaid, PTL
=============================================================================
