------------------------------ MODULE Signing -------------------------------
(***************************************************************************)
(* Who signs and who verifies: the commands `sign`, `verify-sig`,          *)
(* `challenge`, `respond` and `verify-response`, the proxy that signs what *)
(* it forwards, the A2A server, and users of the WebSocket functions, for  *)
(* one agent whose key may be rotated at any time.                         *)
(*                                                                         *)
(* A command reads the card and the key from two files, one after the      *)
(* other, and `rotate` writes them one after the other.  Verifiers hold    *)
(* some card of the agent, not always the newest, and what they are shown  *)
(* may be put together from several signed requests, or lack the second    *)
(* signature that was made.  The unit of time is the second.               *)
(***************************************************************************)
EXTENDS HttpSig, FiniteSets

CONSTANTS
  Requests,       \* the requests that are received
  Sent,           \* those that are signed
  Payloads,       \* the payloads of WebSocket messages
  Demands,        \* what challenges ask for: scopes, and perhaps a hybrid card
  Scopes,         \* the scopes of the card
  Schemes,        \* the crypto schemes the card may have
  Validity,       \* the seconds a signed request counts (300 in the code)
  TTLs,           \* the seconds challenges and cards are valid
  MaxNow,         \* bound: the time
  MaxMade,        \* bound: challenges and signatures that are made
  MaxResponses,   \* bound: responses to challenges
  MaxKeys,        \* bound: rotations
  Nothing

\* What a request has besides its headers
Derived == {"@method", "@target-uri", "@authority", "@path", "@query"}

\* The name of a header is a token, so it does not begin with "@".
HttpRequest ==
  [method : STRING, host : STRING, path : STRING, query : STRING,
   headers : Seq([name : STRING \ Derived, value : STRING])]

ASSUME SigningAssumption ==
  /\ Sent \subseteq Requests /\ Requests \subseteq HttpRequest
  /\ Validity \in Nat /\ TTLs \subseteq Nat
  /\ MaxNow \in Nat \ {0}
  /\ Schemes \subseteq {"ed25519", "ml-dsa-65", "hybrid"}

VARIABLES
  now,
  cardFile,       \* agent-card.json
  keyFile,        \* agent-key.pem: the number of the key
  cards,          \* the cards verifiers may have
  command,        \* the `sign` or `respond` that has read the card and not the key
  signed,         \* signed requests
  messages,       \* signed WebSocket messages
  challenges,
  responses,
  made,           \* how many were made; nonces and challenge ids are taken from it
  said, taken     \* history: what was signed, and what was accepted last

files == <<cardFile, keyFile, cards>>
works == <<signed, messages, challenges, responses, made, said>>
vars == <<now, files, command, works, taken>>

\* A statement that has no end
Forever == MaxNow

Hybrid(card) == card.scheme = "hybrid"

Init ==
  /\ now = 1
  /\ \E scheme \in Schemes, ttl \in TTLs :
       cardFile = [key |-> 1, scheme |-> scheme, expires |-> now + ttl]
  /\ keyFile = 1 /\ cards = {cardFile}
  /\ command = Nothing
  /\ signed = {} /\ messages = {} /\ challenges = {} /\ responses = {} /\ made = 0
  /\ said = {} /\ taken = Nothing

\* Something is made with a number of its own.
Make == made < MaxMade /\ made' = made + 1

\* A statement is made with the key k.
Say(k, what, until, confirmed, both) ==
  said' = said \cup {[by |-> k, what |-> what, until |-> until, confirmed |-> confirmed,
                      both |-> both]}

Accept(k, what, confirmed) ==
  taken' = [by |-> k, what |-> what, confirmed |-> confirmed]

\* The post-quantum signature is an optional field, which may be missing on arrival.
Arriving(pq) == {pq, NoSig}

\* What a signature over these components of a request says
Stated(r, components) ==
  <<"request", [c \in {components[i] : i \in DOMAIN components} |-> Value(r, c)]>>

Tick ==
  /\ now < MaxNow /\ now' = now + 1
  /\ UNCHANGED <<files, command, works, taken>>

-----------------------------------------------------------------------------
(* rotate *)

\* The new card is written; the old key must fit the old card.
RotateCard(ttl) ==
  /\ cardFile.key < MaxKeys
  /\ keyFile = cardFile.key
  /\ cardFile' = [cardFile EXCEPT !.key = @ + 1, !.expires = now + ttl]
  /\ cards' = cards \cup {cardFile'}
  /\ UNCHANGED <<now, keyFile, command, works, taken>>

\* Then the key that goes with it, unless the command is killed before: that leaves
\* a key that does not fit the card, and no further rotation.
RotateKey ==
  /\ keyFile # cardFile.key
  /\ keyFile' = cardFile.key
  /\ UNCHANGED <<now, cardFile, cards, command, works, taken>>

-----------------------------------------------------------------------------
(* Signed requests *)

\* execute_sign reads the card.
SignRead(r) ==
  /\ command = Nothing /\ made < MaxMade
  /\ command' = [do |-> "sign", request |-> r, card |-> cardFile]
  /\ UNCHANGED <<now, files, works, taken>>

Params(card, expires) ==
  [keyid |-> "agent", alg |-> IF Hybrid(card) THEN "hybrid" ELSE "ed25519",
   created |-> now, expires |-> expires, nonce |-> made + 1]

Publish(r, card, components, until, s) ==
  /\ signed' = signed \cup
       {[request |-> r, card |-> card, input |-> s.input, sig |-> s.sig, pq |-> s.pq]}
  /\ Say(s.sig.key, Stated(r, components), until, s.pq # NoSig, FALSE)
  /\ UNCHANGED <<messages, challenges, responses>>

\* It reads the key and signs; the key of an ML-DSA-65 card cannot be decoded here.
Sign ==
  /\ command # Nothing /\ command.do = "sign"
  /\ command' = Nothing
  /\ LET r == command.request  card == command.card
         s == SignRequest(r, Covered(r), Params(card, now + Validity), "sig1",
                          keyFile, Hybrid(card))
     IN \/ /\ card.scheme # "ml-dsa-65" /\ Make
           /\ Publish(r, card, Covered(r), now + Validity, s)
        \/ card.scheme = "ml-dsa-65" /\ UNCHANGED works
  /\ UNCHANGED <<now, files, taken>>

\* sign_ws_upgrade, by a user who has loaded the card and the key
SignUpgrade(r) ==
  LET u == Upgrade(r)
      s == SignRequest(u, UpgradeComponents, Params(cardFile, now + Validity), "ws-auth",
                       keyFile, Hybrid(cardFile))
  IN /\ Make
     /\ Publish(u, cardFile, UpgradeComponents, now + Validity, s)
     /\ UNCHANGED <<now, files, command, taken>>

\* The proxy signs a request it forwards, with a key k that it read from the file
\* when the agent was started; it says "ed25519" and no end, whatever the key is.
ProxySign(r, k) ==
  LET params == [Params(cardFile, 0) EXCEPT !.alg = "ed25519"]
  IN /\ Make
     /\ Publish(r, cardFile, ProxyComponents, Forever,
                ProxySigned(r, params, k, cardFile.scheme # "ed25519"))
     /\ UNCHANGED <<now, files, command, taken>>

\* verify-sig: the request, the Signature-Input header of one signed request and the
\* signatures of others; the second signature is optional.
Verified(r, input, sig, card) ==
  VerifyRequest(r, input, sig, card.key) /\ ~Expired(input.params, now)

VerifiedPQ(r, input, pq, card) ==
  card.scheme # "ed25519" /\ pq # NoSig /\ VerifyRequest(r, input, pq, card.key)

VerifySig(r, m, n, card, withPQ) ==
  /\ Verified(r, m.input, n.sig, card)
  /\ withPQ => VerifiedPQ(r, m.input, n.pq, card)
  /\ Accept(card.key, Stated(r, m.input.components), withPQ)
  /\ UNCHANGED <<now, files, command, works>>

\* The A2A server gets the request m with its headers, and reads the card from the
\* agent's directory.
ReceiveA2A(m) ==
  /\ IF VerifyA2A(m.request, m.input, m.sig, cardFile.key)
       THEN Accept(cardFile.key, Stated(m.request, m.input.components), FALSE)
       ELSE UNCHANGED taken
  /\ UNCHANGED <<now, files, command, works>>

-----------------------------------------------------------------------------
(* WebSocket messages *)

WsSign(payload) ==
  LET msg == SignMessage(payload, made + 1, now, keyFile, Hybrid(cardFile))
  IN /\ Make
     /\ messages' = messages \cup {msg}
     /\ Say(keyFile, <<"message", payload, made + 1, now>>, Forever, Hybrid(cardFile), FALSE)
     /\ UNCHANGED <<now, files, command, signed, challenges, responses, taken>>

WsVerify(msg, pq, card) ==
  /\ VerifyMessage(msg, pq, card.key, Hybrid(card))
  /\ Accept(card.key, <<"message", msg.payload, msg.seq, msg.time>>,
            pq # NoSig /\ Hybrid(card))
  /\ UNCHANGED <<now, files, command, works>>

-----------------------------------------------------------------------------
(* Challenge and response *)

CreateChallenge(demand, ttl) ==
  /\ Make
  /\ challenges' = challenges \cup
       {[id |-> made + 1, issued |-> now, expires |-> now + ttl, scopes |-> demand.scopes,
         minCrypto |-> IF demand.requirePQ THEN "hybrid" ELSE "none"]}
  /\ UNCHANGED <<now, files, command, signed, messages, responses, said, taken>>

\* challenge_to_sign_bytes: the id and the nonce, which are one here, and the times
\* in seconds; nothing for no minimum; and the scopes one after the other, so that
\* no scope and one empty scope are written alike.
SignBytes(ch) ==
  <<ch.id, ch.issued, ch.expires,
    IF ch.minCrypto = "none" THEN "" ELSE ch.minCrypto,
    IF ch.scopes = {""} THEN {} ELSE ch.scopes>>

\* execute_respond has read the challenge and the card.
RespondRead(ch) ==
  /\ command = Nothing /\ Cardinality(responses) < MaxResponses
  /\ command' = [do |-> "respond", challenge |-> ch, card |-> cardFile]
  /\ UNCHANGED <<now, files, works, taken>>

\* It reads the key; an expired challenge and an ML-DSA-65 card end the command.
Respond ==
  /\ command # Nothing /\ command.do = "respond"
  /\ command' = Nothing
  /\ LET ch == command.challenge  card == command.card
         sig == [key |-> keyFile, over |-> SignBytes(ch)]
         response == [id |-> ch.id, card |-> card, sig |-> sig,
                      pq |-> IF Hybrid(card) THEN sig ELSE NoSig]
     IN IF now <= ch.expires /\ card.scheme # "ml-dsa-65"
          THEN /\ responses' = responses \cup {response}
               /\ Say(keyFile, <<"response", ch>>, ch.expires, Hybrid(card), Hybrid(card))
          ELSE UNCHANGED <<responses, said>>
  /\ UNCHANGED <<now, files, signed, messages, challenges, made, taken>>

\* The seven checks of verify_response; the card comes with the response.
VerifyResponse(ch, response, pq) ==
  LET card == response.card
  IN /\ now <= ch.expires
     /\ response.id = ch.id
     /\ now < card.expires
     /\ response.sig = [key |-> card.key, over |-> SignBytes(ch)]
     /\ Hybrid(card) => pq = [key |-> card.key, over |-> SignBytes(ch)]
     /\ ch.scopes \subseteq Scopes
     /\ ch.minCrypto = "hybrid" => Hybrid(card)

AcceptResponse(ch, response, pq) ==
  /\ VerifyResponse(ch, response, pq)
  /\ Accept(response.card.key, <<"response", ch>>, pq # NoSig)
  /\ UNCHANGED <<now, files, command, works>>

-----------------------------------------------------------------------------
Rotates == RotateKey \/ \E ttl \in TTLs : RotateCard(ttl)

Signs ==
  \/ Sign
  \/ \E r \in Sent : SignRead(r) \/ SignUpgrade(r)
  \/ \E r \in Sent, k \in 1..keyFile : ProxySign(r, k)
  \/ \E payload \in Payloads : WsSign(payload)

Verifies ==
  \/ \E m, n \in signed, card \in cards, withPQ \in BOOLEAN :
       \E r \in Requests \cup {m.request} : VerifySig(r, m, n, card, withPQ)
  \/ \E m \in signed : ReceiveA2A(m)
  \/ \E msg \in messages, card \in cards :
       \E pq \in Arriving(msg.pq) : WsVerify(msg, pq, card)

Challenges ==
  \/ \E demand \in Demands, ttl \in TTLs : CreateChallenge(demand, ttl)
  \/ \E ch \in challenges : RespondRead(ch)
  \/ Respond
  \/ \E ch \in challenges, response \in responses :
       \E pq \in Arriving(response.pq) : AcceptResponse(ch, response, pq)

Next == Tick \/ Rotates \/ Signs \/ Verifies \/ Challenges

Spec == Init /\ [][Next]_vars

-----------------------------------------------------------------------------
(* Properties *)

Abstract == INSTANCE Authentic

(***************************************************************************)
(* A signed request, message or challenge response is accepted as a key's  *)
(* only if exactly that was signed with the key and the time has not run   *)
(* out; as confirmed by the post-quantum key only if that signed it too;   *)
(* and a hybrid card's response only if it is confirmed.  A hybrid card's  *)
(* request or message is taken without that, as the code does it           *)
(* (HybridNeedsBoth).  It holds whatever headers are put together,         *)
(* whichever card the verifier has, and wherever a rotation stands between *)
(* its two writes (httpsig.rs, sign.rs, challenge.rs, rotate.rs).  Of the  *)
(* A2A server it says nothing: it accepts no signature that is made here.  *)
(***************************************************************************)
ImplementsAuthentic == Abstract!Spec

\* Two spellings of one request: the case of the method and of header names
Respelled(r, s) ==
  /\ Upper(r.method) = Upper(s.method)
  /\ r.host = s.host /\ r.path = s.path
  /\ Len(r.headers) = Len(s.headers)
  /\ \A i \in DOMAIN r.headers :
       /\ Lower(r.headers[i].name) = Lower(s.headers[i].name)
       /\ r.headers[i].value = s.headers[i].value

(***************************************************************************)
(* What an honest holder signs is accepted: a request in whatever case it  *)
(* arrives, up to the second it expires in, and a response to a challenge  *)
(* whose demands the card meets, provided the signer did not read its card *)
(* and its key from different rotations.  The proxy's signatures, which    *)
(* the verifiers do not understand, are not among them.                    *)
(***************************************************************************)
HonestIsAccepted ==
  /\ \A m \in signed, r \in Requests \cup {s.request : s \in signed} :
       /\ m.input.order # ProxyOrder
       /\ m.sig.key = m.card.key
       /\ Respelled(r, m.request)
       /\ now <= m.input.params.expires
       => /\ Verified(r, m.input, m.sig, m.card)
          /\ Hybrid(m.card) => VerifiedPQ(r, m.input, m.pq, m.card)
  /\ \A ch \in challenges, response \in responses :
       /\ response.id = ch.id
       /\ response.sig.key = response.card.key
       /\ now <= ch.expires /\ now < response.card.expires
       /\ ch.scopes \subseteq Scopes
       /\ Hybrid(response.card) \/ ch.minCrypto = "none"
       => VerifyResponse(ch, response, response.pq)

-----------------------------------------------------------------------------
(* What the sources say and the code does not do *)

\* "both signatures must validate (AND, not OR)": nothing is accepted from the
\* holder of a hybrid card that the post-quantum key has not confirmed.
HybridNeedsBoth == Hybrid(cardFile) /\ taken # Nothing => taken.confirmed
=============================================================================
