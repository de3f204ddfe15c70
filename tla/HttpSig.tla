------------------------------ MODULE HttpSig -------------------------------
(***************************************************************************)
(* HTTP message signatures (grokingclawid-core/src/httpsig.rs), with the   *)
(* signer of the proxy (signer.rs) and the verifier of the A2A server      *)
(* (a2a.rs), which build their own signature bases.                        *)
(*                                                                         *)
(* A signature is the key that made it with what it was made over.  A      *)
(* signature base is what the text says: the components in their order     *)
(* with their values, and the parameters in their order.  Values are       *)
(* sequences of words.  An absent parameter is 0.                          *)
(***************************************************************************)
EXTENDS Naturals, Sequences

NoSig == [key |-> 0]

\* to_uppercase and to_lowercase, of the words that occur
Upper(method) == IF method = "get" THEN "GET" ELSE method
Lower(name) == IF name = "Digest" THEN "digest" ELSE name

\* The value of the first header of that name; a header that is missing counts as
\* an empty one.
First(found) == CHOOSE i \in found : \A j \in found : i <= j
MutantHeader(r, name) ==
  LET found == {i \in DOMAIN r.headers : r.headers[i].name = name}
  IN IF found = {} THEN "" ELSE r.headers[First(found)].value
Header(r, name) ==
  LET found == {i \in DOMAIN r.headers : Lower(r.headers[i].name) = Lower(name)}
  IN IF found = {} THEN "" ELSE r.headers[First(found)].value

Value(r, component) ==
  CASE component = "@method" -> <<Upper(r.method)>>
    [] component = "@target-uri" -> <<r.host, r.path, r.query>>
    [] component = "@authority" -> <<r.host>>
    [] component = "@path" -> <<r.path>>
    [] component = "@query" -> <<r.query>>
    [] OTHER -> <<Header(r, component)>>

Lines(r, components) == [i \in DOMAIN components |-> <<components[i], Value(r, components[i])>>]

\* The parameters that are there, in the order httpsig.rs writes them
Order(params) ==
  <<"keyid", "alg", "created">>
    \o (IF params.expires # 0 THEN <<"expires">> ELSE <<>>)
    \o (IF params.nonce # 0 THEN <<"nonce">> ELSE <<>>)

Written(params, order) == [i \in DOMAIN order |-> <<order[i], params[order[i]]>>]

\* build_signature_base; the label of the signature is not part of it.
SignatureBase(r, components, params) ==
  [lines |-> Lines(r, components), label |-> "",
   params |-> Written(params, Order(params))]

\* sign_request and sign_request_hybrid: the Signature-Input header and one or two
\* signatures over the same base
SignRequest(r, components, params, label, key, hybrid) ==
  LET base == SignatureBase(r, components, params)
  IN [input |-> [label |-> label, components |-> components,
                 order |-> Order(params), params |-> params],
      sig |-> [key |-> key, over |-> base],
      pq |-> IF hybrid THEN [key |-> key, over |-> base] ELSE NoSig]

\* verify_request takes the components and the parameters from the header and
\* writes the base again, in its own order.
Rebuilt(r, input) == SignatureBase(r, input.components, input.params)

VerifyRequest(r, input, sig, key) == sig = [key |-> key, over |-> Rebuilt(r, input)]

MutantExpired(params, now) == params.expires # 0 /\ now > params.expires + 1
Expired(params, now) == params.expires # 0 /\ now > params.expires

\* `sign` covers the method, the authority, the path and the headers it is given.
Covered(r) ==
  <<"@method", "@authority", "@path">>
    \o [i \in DOMAIN r.headers |-> Lower(r.headers[i].name)]

\* sign_ws_upgrade sends four headers of its own and covers two of them.
Upgrade(r) ==
  [r EXCEPT !.method = "GET",
            !.headers = <<[name |-> "host", value |-> r.host],
                          [name |-> "upgrade", value |-> "websocket"],
                          [name |-> "connection", value |-> "Upgrade"],
                          [name |-> "sec-websocket-version", value |-> "13"]>>]

UpgradeComponents ==
  <<"@method", "@authority", "@path", "upgrade", "sec-websocket-version">>

-----------------------------------------------------------------------------
(* The proxy and the A2A server *)

ProxyComponents == <<"@method", "@target-uri", "@authority">>
ProxyOrder == <<"created", "keyid", "nonce", "alg">>

\* RequestSigner::sign_request
ProxySigned(r, params, key, hybrid) ==
  LET base == [lines |-> Lines(r, ProxyComponents), label |-> "",
               params |-> Written(params, ProxyOrder)]
  IN [input |-> [label |-> "sig1", components |-> ProxyComponents,
                 order |-> ProxyOrder, params |-> params],
      sig |-> [key |-> key, over |-> base],
      pq |-> IF hybrid THEN [key |-> key, over |-> base] ELSE NoSig]

\* verify_request_signature of the A2A server puts the whole Signature-Input header
\* into the base, label included; it sees the path of the request as its URI, and
\* always three components.
A2ABase(r, input) ==
  [lines |-> <<<<"@method", <<r.method>>>>, <<"@target-uri", <<r.path, r.query>>>>,
               <<"@authority", <<r.host>>>>>>,
   label |-> input.label,
   params |-> Written(input.params, input.order)]

\* The label must be sig1.  A signature for post-quantum keys is looked for under a
\* name that no signer of the repository uses.
VerifyA2A(r, input, sig, key) ==
  input.label = "sig1" /\ sig = [key |-> key, over |-> A2ABase(r, input)]

-----------------------------------------------------------------------------
(* WebSocket messages *)

\* sign_ws_message: the payload, the sequence number and the time are signed.
SignMessage(payload, seq, time, key, hybrid) ==
  [payload |-> payload, seq |-> seq, time |-> time,
   sig |-> [key |-> key, over |-> <<payload, seq, time>>],
   pq |-> IF hybrid THEN [key |-> key, over |-> <<payload, seq, time>>] ELSE NoSig]

\* verify_ws_message: the second signature pq counts if there is one and the card
\* has a key for it; the order of messages is left to the caller.
VerifyMessage(msg, pq, key, hybrid) ==
  LET data == <<msg.payload, msg.seq, msg.time>>
  IN /\ msg.sig = [key |-> key, over |-> data]
     /\ pq # NoSig /\ hybrid => pq = [key |-> key, over |-> data]
=============================================================================
