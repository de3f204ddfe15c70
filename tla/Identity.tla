------------------------------ MODULE Identity ------------------------------
(***************************************************************************)
(* The life of an agent card: the commands issue, rotate, delegate, revoke *)
(* and verify of the CLI (commands/*.rs) on one directory with a card and  *)
(* a key, and the revocation registry (revocation.rs).                     *)
(*                                                                         *)
(* Each command is a process of its own that takes one step for each file  *)
(* or database it touches, any number of them may run at once, and one may *)
(* end after any step: killed, or because a write failed.                  *)
(*                                                                         *)
(* Keys are numbered in the order they are generated.  A card and a key    *)
(* file name the same key, its Ed25519 part and, in the schemes that have  *)
(* one, its ML-DSA-65 part.  A signature is known by what it was made      *)
(* over: the canonical JSON of the card, the JSON in the order of the      *)
(* fields, or something else; or it cannot be decoded.                     *)
(***************************************************************************)
EXTENDS Naturals, FiniteSets

CONSTANTS
  Procs,      \* processes that run commands
  Scopes,
  CardScopes, \* the sets of scopes that cards are issued with
  Schemes,    \* a subset of CryptoScheme
  MaxKeys,    \* bound on the keys generated
  MaxTime,    \* bound on the clock
  MaxTTL,     \* bound on a --ttl
  MaxTokens   \* bound on the delegation tokens written

ASSUME IdentityAssumption ==
  /\ Schemes \subseteq {"ed25519", "ml-dsa-65", "hybrid"}
  /\ CardScopes \subseteq SUBSET Scopes
  /\ MaxKeys \in Nat /\ MaxTime \in Nat /\ MaxTTL \in Nat
  /\ MaxTokens \in Nat

VARIABLES
  now,        \* the clock
  keys,       \* number of keys generated
  cardFile,   \* agent-card.json
  keyFile,    \* agent-key.pem
  tokens,     \* delegation tokens written
  revoked,    \* the revocation registry: ids, each with the key that signed
  audited,    \* number of audit entries of each id about keys and revocations
  run,        \* what each process is doing
  issued,     \* history: all cards written
  filed       \* history: all keys written to agent-key.pem

vars == <<now, keys, cardFile, keyFile, tokens, revoked, audited, run, issued, filed>>

Ids == 1..MaxKeys
Keys == 1..MaxKeys
Times == 0..MaxTime
Sigs == {"canonical", "fields", "other", "garbled"}

\* AgentCard; line is the key of the card that was first issued.
Card == [id: Ids, line: Ids, key: Keys, scheme: Schemes, scopes: SUBSET Scopes,
         issued: Times, expires: 0..(MaxTime + MaxTTL), sig: Sigs]
NoCard == [id |-> 0]

\* The key file has an Ed25519 part and, in two of the schemes, one for ML-DSA-65.
KeyFile == [key: Keys, pq: BOOLEAN]
NoKey == [key |-> 0, pq |-> FALSE]

HasPQ(card) == card.scheme # "ed25519"

\* A process: its command, its step, the id and the key it works with and the
\* document it has read or is to write.
Run == [cmd: {"issue", "rotate", "delegate", "revoke", "verify"},
        at: {"key", "card", "file", "token", "check", "insert", "audit", "judge"},
        id: Ids, key: 0..MaxKeys, doc: Card \cup {NoCard}]
Idle == [cmd |-> "none", at |-> "none", id |-> 0, key |-> 0, doc |-> NoCard]

Init ==
  /\ now = 0
  /\ keys = 0
  /\ cardFile = NoCard
  /\ keyFile = NoKey
  /\ tokens = {}
  /\ revoked = [id \in Ids |-> 0]
  /\ audited = [id \in Ids |-> [keys |-> 0, revoked |-> 0]]
  /\ run = [p \in Procs |-> Idle]
  /\ issued = {}
  /\ filed = {}

IsRevoked(id) == revoked[id] # 0

Set(p, r) == run' = [run EXCEPT ![p] = r]
Move(p, at) == Set(p, [run[p] EXCEPT !.at = at])
End(p) == Set(p, Idle)
At(p, at) == run[p].at = at

\* The key file can be decoded for the scheme of the card.
Decodes(card) == keyFile # NoKey /\ keyFile.pq = HasPQ(card)

-----------------------------------------------------------------------------
(* Commands *)

\* issue: the keys, the card and its signature are made before any write.
Issue(p, scheme, scopes, ttl) ==
  /\ run[p] = Idle
  /\ keys < MaxKeys
  /\ keys' = keys + 1
  /\ Set(p, [Idle EXCEPT !.cmd = "issue", !.at = "card", !.id = keys + 1,
       !.doc = [id |-> keys + 1, line |-> keys + 1, key |-> keys + 1, scheme |-> scheme,
                scopes |-> scopes, issued |-> now, expires |-> now + ttl, sig |-> "canonical"]])
  /\ UNCHANGED <<now, cardFile, keyFile, tokens, revoked, audited, issued, filed>>

\* The other commands start with the card.
ReadCard(p, cmd) ==
  /\ run[p] = Idle
  /\ cardFile # NoCard
  /\ Set(p, [Idle EXCEPT !.cmd = cmd, !.at = IF cmd = "verify" THEN "judge" ELSE "key",
                         !.id = cardFile.id, !.doc = cardFile])
  /\ UNCHANGED <<now, keys, cardFile, keyFile, tokens, revoked, audited, issued, filed>>

\* rotate: the key must be that of the card; a new key and a new signature, the
\* rest of the card is kept but for its times.
MutantRotated(card, key, ttl) ==
  [card EXCEPT !.id = key, !.key = key, !.issued = now, !.expires = now + ttl,
               !.sig = "canonical"]
Rotated(card, key, ttl) ==
  [card EXCEPT !.key = key, !.issued = now, !.expires = now + ttl, !.sig = "canonical"]

RotateKey(p, ttl) ==
  /\ At(p, "key") /\ run[p].cmd = "rotate"
  /\ Decodes(run[p].doc)
  /\ keyFile.key = run[p].doc.key
  /\ keys < MaxKeys
  /\ keys' = keys + 1
  /\ Set(p, [run[p] EXCEPT !.at = "card", !.doc = Rotated(@, keys + 1, ttl)])
  /\ UNCHANGED <<now, cardFile, keyFile, tokens, revoked, audited, issued, filed>>

WriteCard(p) ==
  /\ At(p, "card")
  /\ cardFile' = run[p].doc
  /\ issued' = issued \cup {run[p].doc}
  /\ Move(p, "file")
  /\ UNCHANGED <<now, keys, keyFile, tokens, revoked, audited, filed>>

MutantWriteKey(p) ==
  /\ At(p, "file")
  /\ Move(p, "audit")
  /\ UNCHANGED <<now, keys, cardFile, keyFile, tokens, revoked, audited, issued, filed>>
WriteKey(p) ==
  /\ At(p, "file")
  /\ keyFile' = [key |-> run[p].doc.key, pq |-> HasPQ(run[p].doc)]
  /\ filed' = filed \cup {run[p].doc.key}
  /\ Set(p, [run[p] EXCEPT !.at = "audit", !.doc = NoCard])
  /\ UNCHANGED <<now, keys, cardFile, tokens, revoked, audited, issued>>

\* delegate: the scopes, the time to live and the key are compared with the card.
MutantMayDelegate(card, ttl, scopes) ==
  /\ scopes \subseteq card.scopes
  /\ now + ttl <= card.expires
MayDelegate(card, ttl, scopes) ==
  /\ scopes \subseteq card.scopes
  /\ now + ttl <= card.expires
  /\ keyFile.key = card.key

DelegateKey(p, ttl, scopes) ==
  /\ At(p, "key") /\ run[p].cmd = "delegate"
  /\ Decodes(run[p].doc)
  /\ MayDelegate(run[p].doc, ttl, scopes)
  /\ Set(p, [run[p] EXCEPT !.at = "token", !.key = keyFile.key,
       !.doc = [@ EXCEPT !.scopes = scopes, !.expires = now + ttl]])
  /\ UNCHANGED <<now, keys, cardFile, keyFile, tokens, revoked, audited, issued, filed>>

WriteToken(p) ==
  /\ At(p, "token")
  /\ Cardinality(tokens) < MaxTokens
  /\ tokens' = tokens \cup {[signer |-> run[p].key, parent |-> run[p].id,
                             scopes |-> run[p].doc.scopes, expires |-> run[p].doc.expires]}
  /\ Set(p, [run[p] EXCEPT !.at = "audit", !.key = 0, !.doc = NoCard])
  /\ UNCHANGED <<now, keys, cardFile, keyFile, revoked, audited, issued, filed>>

\* revoke: any key will do.
RevokeKey(p) ==
  /\ At(p, "key") /\ run[p].cmd = "revoke"
  /\ Decodes(run[p].doc)
  /\ Set(p, [run[p] EXCEPT !.at = "check", !.key = keyFile.key, !.doc = NoCard])
  /\ UNCHANGED <<now, keys, cardFile, keyFile, tokens, revoked, audited, issued, filed>>

\* revoke_hybrid asks first whether the card is revoked and then inserts a row
\* under its id, the primary key.
CheckRevoked(p) ==
  /\ At(p, "check")
  /\ ~IsRevoked(run[p].id)
  /\ Move(p, "insert")
  /\ UNCHANGED <<now, keys, cardFile, keyFile, tokens, revoked, audited, issued, filed>>

MutantInsert(p) ==
  /\ At(p, "insert")
  /\ revoked' = [revoked EXCEPT ![run[p].id] = run[p].key]
  /\ Set(p, [run[p] EXCEPT !.at = "audit", !.key = 0])
  /\ UNCHANGED <<now, keys, cardFile, keyFile, tokens, audited, issued, filed>>
Insert(p) ==
  /\ At(p, "insert")
  /\ ~IsRevoked(run[p].id)
  /\ revoked' = [revoked EXCEPT ![run[p].id] = run[p].key]
  /\ Set(p, [run[p] EXCEPT !.at = "audit", !.key = 0])
  /\ UNCHANGED <<now, keys, cardFile, keyFile, tokens, audited, issued, filed>>

\* audit::record_entry, the last write of a command
Audit(p) ==
  /\ At(p, "audit")
  /\ audited' = CASE run[p].cmd \in {"issue", "rotate"} ->
                       [audited EXCEPT ![run[p].id].keys = @ + 1]
                  [] run[p].cmd = "revoke" -> [audited EXCEPT ![run[p].id].revoked = @ + 1]
                  [] OTHER -> audited
  /\ End(p)
  /\ UNCHANGED <<now, keys, cardFile, keyFile, tokens, revoked, issued, filed>>

\* verify says VALID; a registry that cannot be read counts as empty.
Accepts(card, readable) ==
  /\ card.sig = "canonical"
  /\ now < card.expires
  /\ now >= card.issued
  /\ ~(readable /\ IsRevoked(card.id))

Verify(p, readable) ==
  /\ At(p, "judge")
  /\ Accepts(run[p].doc, readable)
  /\ End(p)
  /\ UNCHANGED <<now, keys, cardFile, keyFile, tokens, revoked, audited, issued, filed>>

\* A command ends early: a check fails (verify says INVALID), a file or a
\* database cannot be read or written, or the process is killed, which may leave
\* half of the file it is writing.
Stop(p) ==
  /\ run[p] # Idle
  /\ End(p)
  /\ cardFile' \in {cardFile} \cup IF At(p, "card") THEN {NoCard} ELSE {}
  /\ keyFile' \in {keyFile} \cup IF At(p, "file") THEN {NoKey} ELSE {}
  /\ UNCHANGED <<now, keys, tokens, revoked, audited, issued, filed>>

Tick ==
  /\ now < MaxTime
  /\ now' = now + 1
  /\ UNCHANGED <<keys, cardFile, keyFile, tokens, revoked, audited, run, issued, filed>>

-----------------------------------------------------------------------------
Step(p) ==
  \/ \E scheme \in Schemes, scopes \in CardScopes, ttl \in 0..MaxTTL :
       Issue(p, scheme, scopes, ttl)
  \/ \E cmd \in {"rotate", "delegate", "revoke", "verify"} : ReadCard(p, cmd)
  \/ \E ttl \in 0..MaxTTL : RotateKey(p, ttl)
  \/ WriteCard(p) \/ WriteKey(p)
  \/ \E ttl \in 0..MaxTTL, scopes \in (SUBSET Scopes) \ {{}} :
       DelegateKey(p, ttl, scopes)
  \/ WriteToken(p)
  \/ RevokeKey(p) \/ CheckRevoked(p) \/ Insert(p)
  \/ \E readable \in BOOLEAN : Verify(p, readable)
  \/ Audit(p)
  \/ Stop(p)

Next == Tick \/ \E p \in Procs : Step(p)

Spec == Init /\ [][Next]_vars

-----------------------------------------------------------------------------
(* Properties *)

\* Every variable has its type.
TypeOK ==
  /\ now \in Times
  /\ keys \in 0..MaxKeys
  /\ cardFile \in Card \cup {NoCard}
  /\ keyFile \in KeyFile \cup {NoKey}
  /\ \A t \in tokens : t.signer \in Keys /\ t.parent \in Ids
  /\ revoked \in [Ids -> 0..MaxKeys]
  /\ audited \in [Ids -> [keys: Nat, revoked: Nat]]
  /\ run \in [Procs -> Run \cup {Idle}]
  /\ issued \subseteq Card
  /\ filed \subseteq Keys

\* The two invariants of delegate.rs, whatever rotations run meanwhile: the key
\* that signed a token is that of a card that has all scopes of the token and
\* does not expire before it.
TokensNarrow ==
  \A t \in tokens : \E c \in issued :
    /\ c.id = t.parent /\ c.key = t.signer
    /\ t.scopes \subseteq c.scopes
    /\ t.expires <= c.expires

\* A revoked card does not come back: verify, when it can read the registry,
\* accepts no card that descends by rotation from one that is revoked.
RevokedForGood ==
  [][\A p \in Procs : Verify(p, TRUE) =>
       \A c \in issued : c.line = run[p].doc.line => ~IsRevoked(c.id)]_vars

\* A revocation stays as it was first recorded, also when two are made at once.
RevocationStays ==
  [][\A id \in Ids : IsRevoked(id) => revoked'[id] = revoked[id]]_vars

\* The audit log claims nothing that was not done: an entry for each key that
\* replaced another at most, and one revocation for each revoked id at most.
AuditedIsDone ==
  \A id \in Ids :
    /\ audited[id].keys
         <= Cardinality({c.key : c \in {d \in issued : d.id = id /\ d.key \in filed}})
    /\ audited[id].revoked <= IF IsRevoked(id) THEN 1 ELSE 0

=============================================================================
