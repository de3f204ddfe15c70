--------------------------- MODULE IdentityProofs ---------------------------
(***************************************************************************)
(* Proofs about Identity, for any number of processes, keys and tokens.    *)
(***************************************************************************)
EXTENDS Identity, FiniteSetTheorems, TLAPS

-----------------------------------------------------------------------------
(* The inductive invariant *)

\* A process (as its record r) that has made a key and not filed it; one that is
\* to audit a key, or a revocation.
Making(r) == r.at \in {"card", "file"}
AuditsKey(r) == r.at = "audit" /\ r.cmd \in {"issue", "rotate"}
AuditsRevocation(r) == r.at = "audit" /\ r.cmd = "revoke"

\* Among the cards there is one that a token with these contents is narrower than.
Narrow(cards, signer, parent, scopes, expires) ==
  \E c \in cards : /\ c.id = parent /\ c.key = signer
                   /\ scopes \subseteq c.scopes
                   /\ expires <= c.expires

\* A rotation keeps the id, so that a line of cards has one.
CardsKeepId ==
  /\ \A c \in issued : c.line = c.id
  /\ cardFile = NoCard \/ cardFile \in issued

\* What a process has read was once written, and goes with its id ...
ReadWasIssued(r, cards) ==
  r.at \in {"key", "judge"} => r.doc \in cards /\ r.id = r.doc.id

\* ... a card and its key are written by who made them, and the key is new ...
MadeIsNew(r, cards, count, used) ==
  Making(r) =>
    /\ r.cmd \in {"issue", "rotate"}
    /\ r.doc \in Card
    /\ r.doc.line = r.doc.id /\ r.id = r.doc.id
    /\ r.doc.key \in 1..count /\ r.doc.key \notin used
    /\ r.at = "file" => r.doc \in cards

\* ... a token that is about to be written is narrower than a card ...
TokenIsNarrow(r, cards) ==
  r.at = "token" =>
    /\ r.cmd = "delegate" /\ r.key \in Keys /\ r.doc \in Card
    /\ Narrow(cards, r.key, r.id, r.doc.scopes, r.doc.expires)

\* ... and who revokes has a key.
RevokerHasKey(r) ==
  r.at \in {"check", "insert"} => r.cmd = "revoke" /\ r.key \in Keys

Fits(r, cards, count, used) ==
  /\ ReadWasIssued(r, cards)
  /\ MadeIsNew(r, cards, count, used)
  /\ TokenIsNarrow(r, cards)
  /\ RevokerHasKey(r)

AllFit == \A p \in Procs : Fits(run[p], issued, keys, filed)

\* No two processes have made the same key.
KeysDiffer ==
  /\ filed \subseteq 1..keys
  /\ \A p, q \in Procs :
       Making(run[p]) /\ Making(run[q]) /\ run[p].doc.key = run[q].doc.key => p = q

\* Of the processes that revoke one id, one gets as far as the audit entry.
RevokedOnce ==
  /\ \A p \in Procs : AuditsRevocation(run[p]) =>
       /\ IsRevoked(run[p].id) /\ audited[run[p].id].revoked = 0
       /\ \A q \in Procs : AuditsRevocation(run[q]) /\ run[q].id = run[p].id => q = p
  /\ \A id \in Ids : audited[id].revoked <= IF IsRevoked(id) THEN 1 ELSE 0

\* The keys of an id that were filed are at least as many as were audited and
\* are still to be audited.
Done(id) == {c.key : c \in {d \in issued : d.id = id /\ d.key \in filed}}
Auditors(id) == {p \in Procs : AuditsKey(run[p]) /\ run[p].id = id}

KeysAudited ==
  \A id \in Ids :
    /\ IsFiniteSet(Auditors(id))
    /\ audited[id].keys + Cardinality(Auditors(id)) <= Cardinality(Done(id))

IndInv ==
  /\ TypeOK
  /\ CardsKeepId
  /\ AllFit
  /\ KeysDiffer
  /\ TokensNarrow
  /\ RevokedOnce
  /\ KeysAudited

-----------------------------------------------------------------------------
(* Facts that several steps need *)

\* The filed keys of an id are finitely many.
LEMMA DoneIsFinite ==
  ASSUME issued \subseteq Card, NEW id \in Ids
  PROVE  IsFiniteSet(Done(id)) /\ Cardinality(Done(id)) \in Nat
<1>1. Done(id) \subseteq 1..MaxKeys
  BY DEF Done, Card, Keys
<1>2. IsFiniteSet(1..MaxKeys)
  BY IdentityAssumption, FS_Interval
<1> QED
  BY <1>1, <1>2, FS_Subset, FS_CardinalityType

\* More cards and more files do not make them fewer.
LEMMA DoneGrows ==
  ASSUME issued' \subseteq Card, NEW id \in Ids, issued \subseteq issued', filed \subseteq filed'
  PROVE  /\ Done(id) \subseteq Done(id)' /\ IsFiniteSet(Done(id)')
         /\ Cardinality(Done(id)) \in Nat /\ Cardinality(Done(id)') \in Nat
         /\ Cardinality(Done(id)) <= Cardinality(Done(id)')
<1>1. Done(id) \subseteq Done(id)'
  BY DEF Done
<1>2. IsFiniteSet(Done(id)')
  <2>1. Done(id)' \subseteq 1..MaxKeys
    BY DEF Done, Card, Keys
  <2>2. IsFiniteSet(1..MaxKeys)
    BY IdentityAssumption, FS_Interval
  <2> QED
    BY <2>1, <2>2, FS_Subset
<1> QED
  BY <1>1, <1>2, FS_Subset, FS_CardinalityType

\* What fits goes on fitting when cards are added and keys are made.
LEMMA FitsOn ==
  ASSUME NEW r, NEW cards, NEW more, cards \subseteq more, NEW used,
         NEW count \in Nat, NEW higher \in Nat, count <= higher,
         Fits(r, cards, count, used)
  PROVE  Fits(r, more, higher, used)
<1>1. ReadWasIssued(r, more) /\ RevokerHasKey(r)
  BY DEF Fits, ReadWasIssued
<1>2. MadeIsNew(r, more, higher, used)
  BY DEF Fits, MadeIsNew
<1>3. TokenIsNarrow(r, more)
  BY DEF Fits, TokenIsNarrow, Narrow
<1> QED
  BY <1>1, <1>2, <1>3 DEF Fits

\* A process sets its record.
LEMMA SetRun ==
  ASSUME TypeOK, NEW p \in Procs, NEW r, Set(p, r)
  PROVE  /\ run'[p] = r
         /\ \A q \in Procs : q # p => run'[q] = run[q]
         /\ r \in Run \cup {Idle} => run' \in [Procs -> Run \cup {Idle}]
BY DEF TypeOK, Set

\* A step after which the process is not to audit anything, and which leaves the
\* registry, the audit log and the filed keys alone.
LEMMA QuietStep ==
  ASSUME IndInv, NEW p \in Procs, NEW r, Set(p, r), TypeOK', CardsKeepId', TokensNarrow',
         Fits(r, issued', keys', filed'), issued \subseteq issued', keys <= keys',
         UNCHANGED <<revoked, audited, filed>>,
         ~AuditsKey(r), ~AuditsRevocation(r),
         Making(r) => \/ Making(run[p]) /\ r.doc.key = run[p].doc.key
                      \/ r.doc.key = keys + 1
  PROVE  IndInv'
<1> USE DEF IndInv
<1>1. /\ run'[p] = r
      /\ \A q \in Procs : q # p => run'[q] = run[q]
  BY SetRun
<1>2. keys \in Nat /\ keys' \in Nat
  BY DEF TypeOK
<1>3. AllFit'
  <2> SUFFICES ASSUME NEW q \in Procs PROVE Fits(run'[q], issued', keys', filed')
    BY DEF AllFit
  <2>1. CASE q = p
    BY <1>1, <2>1
  <2>2. CASE q # p
    BY <1>1, <1>2, <2>2, FitsOn DEF AllFit
  <2> QED
    BY <2>1, <2>2
<1>4. KeysDiffer'
  <2>1. \A q \in Procs : Making(run[q]) => run[q].doc.key \in 1..keys
    BY DEF AllFit, Fits, MadeIsNew
  <2>2. filed' \subseteq 1..keys'
    BY <1>2 DEF KeysDiffer
  <2> SUFFICES ASSUME NEW q \in Procs, NEW s \in Procs, Making(run'[q]), Making(run'[s]),
                      run'[q].doc.key = run'[s].doc.key, q # s
               PROVE  FALSE
    BY <2>2 DEF KeysDiffer, Making
  <2>3. CASE q # p /\ s # p
    BY <1>1, <2>3 DEF KeysDiffer
  <2>4. CASE q = p \/ s = p
    BY <1>1, <1>2, <2>1, <2>4 DEF KeysDiffer
  <2> QED
    BY <2>3, <2>4
<1>5. RevokedOnce'
  BY <1>1 DEF RevokedOnce, IsRevoked, AuditsRevocation
<1>6. KeysAudited'
  <2> SUFFICES ASSUME NEW id \in Ids
               PROVE  /\ IsFiniteSet(Auditors(id)')
                      /\ audited'[id].keys + Cardinality(Auditors(id)') <= Cardinality(Done(id)')
    BY DEF KeysAudited
  <2>1. Auditors(id)' \subseteq Auditors(id)
    BY <1>1 DEF Auditors, AuditsKey
  <2>2. /\ IsFiniteSet(Auditors(id)') /\ Cardinality(Auditors(id)') <= Cardinality(Auditors(id))
        /\ Cardinality(Auditors(id)') \in Nat /\ Cardinality(Auditors(id)) \in Nat
    BY <2>1, FS_Subset, FS_CardinalityType DEF KeysAudited
  <2>3. Cardinality(Done(id)) <= Cardinality(Done(id)')
        /\ Cardinality(Done(id)) \in Nat /\ Cardinality(Done(id)') \in Nat
    BY DoneGrows DEF TypeOK
  <2>4. audited[id].keys \in Nat /\ audited'[id].keys = audited[id].keys
    BY DEF TypeOK
  <2> QED
    BY <2>2, <2>3, <2>4 DEF KeysAudited
<1> QED
  BY <1>3, <1>4, <1>5, <1>6
-----------------------------------------------------------------------------
(* The steps *)

\* Initially there is nothing.
LEMMA InitInv == Init => IndInv
<1> SUFFICES ASSUME Init PROVE IndInv
  OBVIOUS
<1> USE IdentityAssumption DEF Init, Idle, NoCard, NoKey
<1>1. TypeOK
  BY DEF TypeOK, Times, Ids, Keys
<1>2. \A p \in Procs : run[p].at = "none"
  OBVIOUS
<1>3. CardsKeepId /\ KeysDiffer /\ TokensNarrow
  BY <1>2 DEF CardsKeepId, KeysDiffer, TokensNarrow, Making
<1>4. AllFit
  BY <1>2 DEF AllFit, Fits, ReadWasIssued, MadeIsNew, TokenIsNarrow, RevokerHasKey, Making
<1>5. RevokedOnce
  BY <1>2 DEF RevokedOnce, IsRevoked, Ids, AuditsRevocation
<1>6. KeysAudited
  <2> SUFFICES ASSUME NEW id \in Ids
               PROVE  /\ IsFiniteSet(Auditors(id))
                      /\ audited[id].keys + Cardinality(Auditors(id)) <= Cardinality(Done(id))
    BY DEF KeysAudited
  <2>1. Auditors(id) = {} /\ Done(id) = {} /\ audited[id].keys = 0
    BY <1>2 DEF Auditors, Done, AuditsKey
  <2> QED
    BY <2>1, FS_EmptySet
<1> QED
  BY <1>1, <1>3, <1>4, <1>5, <1>6 DEF IndInv

\* The record of a process that starts a command.
Started(cmd, at, id, doc) == [Idle EXCEPT !.cmd = cmd, !.at = at, !.id = id, !.doc = doc]

\* The records of processes, idle ones among them.
Wide == [cmd: {"none", "issue", "rotate", "delegate", "revoke", "verify"},
         at: {"none", "key", "card", "file", "token", "check", "insert", "audit", "judge"},
         id: Ids \cup {0}, key: 0..MaxKeys, doc: Card \cup {NoCard}]

\* A command that starts has what it starts with, and no key yet.
LEMMA StartedFields ==
  ASSUME NEW cmd \in {"issue", "rotate", "delegate", "revoke", "verify"},
         NEW at \in {"key", "card", "judge"}, NEW id \in Ids, NEW doc \in Card
  PROVE  /\ Started(cmd, at, id, doc) \in Run
         /\ Started(cmd, at, id, doc).cmd = cmd /\ Started(cmd, at, id, doc).at = at
         /\ Started(cmd, at, id, doc).id = id /\ Started(cmd, at, id, doc).doc = doc
<1> DEFINE r == [Idle EXCEPT !.cmd = cmd, !.at = at, !.id = id, !.doc = doc]
<1>1. Idle \in Wide
  BY IdentityAssumption DEF Idle, Wide
<1>2. r.cmd = cmd /\ r.at = at /\ r.id = id /\ r.doc = doc
  BY DEF Idle
<1>3. r \in Wide
  BY <1>1 DEF Wide
<1>4. Started(cmd, at, id, doc) = r
  BY DEF Started
<1> HIDE DEF r
<1>5. r \in Run
  BY <1>2, <1>3, IdentityAssumption DEF Wide, Run
<1> QED
  BY <1>2, <1>4, <1>5

\* issue makes the first card of a line.
LEMMA IssueStep ==
  ASSUME IndInv, NEW p \in Procs, NEW scheme \in Schemes, NEW scopes \in CardScopes,
         NEW ttl \in 0..MaxTTL, Issue(p, scheme, scopes, ttl)
  PROVE  IndInv'
<1> USE DEF IndInv
<1> DEFINE card == [id |-> keys + 1, line |-> keys + 1, key |-> keys + 1, scheme |-> scheme,
                    scopes |-> scopes, issued |-> now, expires |-> now + ttl,
                    sig |-> "canonical"]
           r == Started("issue", "card", keys + 1, card)
<1>1. /\ keys < MaxKeys /\ keys' = keys + 1
      /\ Set(p, r)
      /\ UNCHANGED <<now, cardFile, keyFile, tokens, revoked, audited, issued, filed>>
  BY DEF Issue, Started
<1>2. /\ keys \in Nat /\ keys' \in 0..MaxKeys /\ keys + 1 \in Ids
      /\ filed \subseteq 1..keys
  BY <1>1, IdentityAssumption DEF TypeOK, Ids, KeysDiffer
<1>3. card \in Card
  BY <1>2, IdentityAssumption DEF Card, TypeOK, Times, Sigs, Ids, Keys
<1>4. card.id = keys + 1 /\ card.line = keys + 1 /\ card.key = keys + 1
  OBVIOUS
<1> HIDE DEF card
<1>5. /\ r \in Run /\ r.cmd = "issue" /\ r.at = "card" /\ r.id = keys + 1 /\ r.doc = card
  BY <1>2, <1>3, StartedFields
<1> HIDE DEF r
<1>6. TypeOK'
  BY <1>1, <1>2, <1>5, SetRun DEF TypeOK
<1>7. CardsKeepId' /\ TokensNarrow'
  BY <1>1 DEF CardsKeepId, TokensNarrow
<1>8. Fits(r, issued', keys', filed')
  BY <1>1, <1>2, <1>3, <1>4, <1>5
     DEF Fits, ReadWasIssued, MadeIsNew, TokenIsNarrow, RevokerHasKey, Making
<1>9. ~AuditsKey(r) /\ ~AuditsRevocation(r) /\ r.doc.key = keys + 1
  BY <1>4, <1>5 DEF AuditsKey, AuditsRevocation
<1> QED
  BY <1>1, <1>2, <1>6, <1>7, <1>8, <1>9, QuietStep

\* A command reads the card.
LEMMA ReadCardStep ==
  ASSUME IndInv, NEW p \in Procs, NEW cmd \in {"rotate", "delegate", "revoke", "verify"},
         ReadCard(p, cmd)
  PROVE  IndInv'
<1> USE DEF IndInv
<1> DEFINE at == IF cmd = "verify" THEN "judge" ELSE "key"
           r == Started(cmd, at, cardFile.id, cardFile)
<1>1. /\ cardFile # NoCard /\ Set(p, r)
      /\ UNCHANGED <<now, keys, cardFile, keyFile, tokens, revoked, audited, issued, filed>>
  BY DEF ReadCard, Started
<1>2. cardFile \in issued /\ cardFile \in Card /\ cardFile.id \in Ids /\ keys \in Nat
  BY <1>1 DEF CardsKeepId, TypeOK, Card
<1>3. /\ r \in Run /\ r.at \in {"judge", "key"} /\ r.id = cardFile.id /\ r.doc = cardFile
  BY <1>2, StartedFields
<1> HIDE DEF r
<1>4. TypeOK'
  BY <1>1, <1>3, SetRun DEF TypeOK
<1>5. CardsKeepId' /\ TokensNarrow'
  BY <1>1 DEF CardsKeepId, TokensNarrow
<1>6. Fits(r, issued', keys', filed')
  BY <1>1, <1>2, <1>3
     DEF Fits, ReadWasIssued, MadeIsNew, TokenIsNarrow, RevokerHasKey, Making
<1>7. ~AuditsKey(r) /\ ~AuditsRevocation(r) /\ ~Making(r)
  BY <1>3 DEF AuditsKey, AuditsRevocation, Making
<1> QED
  BY <1>1, <1>2, <1>4, <1>5, <1>6, <1>7, QuietStep

\* What is known of a process that is doing something.
LEMMA RunFields ==
  ASSUME TypeOK, NEW p \in Procs, run[p].at # "none"
  PROVE  /\ run[p] \in Run
         /\ run[p].cmd \in {"issue", "rotate", "delegate", "revoke", "verify"}
         /\ run[p].id \in Ids /\ run[p].key \in 0..MaxKeys
         /\ run[p].doc \in Card \cup {NoCard}
         /\ run[p] = [cmd |-> run[p].cmd, at |-> run[p].at, id |-> run[p].id,
                      key |-> run[p].key, doc |-> run[p].doc]
BY DEF TypeOK, Run, Idle

\* rotate makes a key for the line of the card.
LEMMA RotateKeyStep ==
  ASSUME IndInv, NEW p \in Procs, NEW ttl \in 0..MaxTTL, RotateKey(p, ttl)
  PROVE  IndInv'
<1> USE DEF IndInv
<1> DEFINE old == run[p].doc
           card == Rotated(old, keys + 1, ttl)
           r == [run[p] EXCEPT !.at = "card", !.doc = card]
<1>1. /\ run[p].at = "key" /\ run[p].cmd = "rotate"
      /\ keys < MaxKeys /\ keys' = keys + 1
      /\ run' = [run EXCEPT ![p] = [run[p] EXCEPT !.at = "card", !.doc = card]]
      /\ UNCHANGED <<now, cardFile, keyFile, tokens, revoked, audited, issued, filed>>
  BY DEF RotateKey, At, Set
<1>2. /\ keys \in Nat /\ keys' \in 0..MaxKeys /\ keys + 1 \in Keys
      /\ filed \subseteq 1..keys
  BY <1>1, IdentityAssumption DEF TypeOK, Keys, KeysDiffer
<1>3. old \in issued /\ old \in Card /\ run[p].id = old.id /\ old.line = old.id
  BY <1>1 DEF AllFit, Fits, ReadWasIssued, TypeOK, CardsKeepId
<1>4. now + ttl \in 0..(MaxTime + MaxTTL) /\ now \in Times
  BY IdentityAssumption DEF TypeOK, Times
<1> HIDE DEF old
<1>5. /\ card \in Card /\ card.id = old.id /\ card.line = old.line /\ card.key = keys + 1
  BY <1>2, <1>3, <1>4 DEF Card, Rotated, Sigs
<1> HIDE DEF card
<1>6. Set(p, r)
  BY <1>1 DEF Set
<1>7. /\ r \in Run /\ r.cmd = "rotate" /\ r.at = "card" /\ r.id = old.id /\ r.doc = card
  BY <1>1, <1>3, <1>5, RunFields DEF Run
<1> HIDE DEF r
<1>8. TypeOK'
  BY <1>1, <1>2, <1>6, <1>7, SetRun DEF TypeOK
<1>9. CardsKeepId' /\ TokensNarrow'
  BY <1>1 DEF CardsKeepId, TokensNarrow
<1>10. Fits(r, issued', keys', filed')
  BY <1>1, <1>2, <1>3, <1>5, <1>7
     DEF Fits, ReadWasIssued, MadeIsNew, TokenIsNarrow, RevokerHasKey, Making
<1>11. ~AuditsKey(r) /\ ~AuditsRevocation(r) /\ r.doc.key = keys + 1
  BY <1>5, <1>7 DEF AuditsKey, AuditsRevocation
<1> QED
  BY <1>1, <1>2, <1>6, <1>8, <1>9, <1>10, <1>11, QuietStep

\* The card is written before its key.
LEMMA WriteCardStep ==
  ASSUME IndInv, NEW p \in Procs, WriteCard(p)
  PROVE  IndInv'
<1> USE DEF IndInv
<1> DEFINE r == [run[p] EXCEPT !.at = "file"]
<1>1. /\ run[p].at = "card" /\ Set(p, r)
      /\ cardFile' = run[p].doc /\ issued' = issued \cup {run[p].doc}
      /\ UNCHANGED <<now, keys, keyFile, tokens, revoked, audited, filed>>
  BY DEF WriteCard, At, Move
<1>2. /\ run[p].cmd \in {"issue", "rotate"} /\ run[p].doc \in Card
      /\ run[p].doc.line = run[p].doc.id /\ run[p].id = run[p].doc.id
      /\ run[p].doc.key \in 1..keys /\ run[p].doc.key \notin filed
  BY <1>1 DEF AllFit, Fits, MadeIsNew, Making
<1>3. /\ r \in Run /\ r.cmd = run[p].cmd /\ r.at = "file" /\ r.id = run[p].id
      /\ r.doc = run[p].doc
  BY <1>1, RunFields DEF Run
<1> HIDE DEF r
<1>4. TypeOK'
  BY <1>1, <1>2, <1>3, SetRun DEF TypeOK
<1>5. CardsKeepId' /\ TokensNarrow'
  BY <1>1, <1>2 DEF CardsKeepId, TokensNarrow
<1>6. Fits(r, issued', keys', filed')
  BY <1>1, <1>2, <1>3
     DEF Fits, ReadWasIssued, MadeIsNew, TokenIsNarrow, RevokerHasKey, Making
<1>7. /\ ~AuditsKey(r) /\ ~AuditsRevocation(r)
      /\ Making(run[p]) /\ r.doc.key = run[p].doc.key
  BY <1>1, <1>3 DEF AuditsKey, AuditsRevocation, Making
<1>8. issued \subseteq issued' /\ keys <= keys'
  BY <1>1 DEF TypeOK
<1> QED
  BY <1>1, <1>4, <1>5, <1>6, <1>7, <1>8, QuietStep

\* delegate compares the token with the card it has read and with the key.
LEMMA DelegateKeyStep ==
  ASSUME IndInv, NEW p \in Procs, NEW ttl \in 0..MaxTTL, NEW scopes \in SUBSET Scopes,
         DelegateKey(p, ttl, scopes)
  PROVE  IndInv'
<1> USE DEF IndInv
<1> DEFINE old == run[p].doc
           card == [old EXCEPT !.scopes = scopes, !.expires = now + ttl]
           r == [run[p] EXCEPT !.at = "token", !.key = keyFile.key, !.doc = card]
<1>1. /\ run[p].at = "key" /\ run[p].cmd = "delegate"
      /\ keyFile # NoKey /\ keyFile.key = old.key
      /\ scopes \subseteq old.scopes /\ now + ttl <= old.expires
      /\ run' = [run EXCEPT ![p] = [run[p] EXCEPT !.at = "token", !.key = keyFile.key,
                                                  !.doc = card]]
      /\ UNCHANGED <<now, keys, cardFile, keyFile, tokens, revoked, audited, issued, filed>>
  BY DEF DelegateKey, At, Set, Decodes, MayDelegate
<1>2. old \in issued /\ old \in Card /\ run[p].id = old.id
  BY <1>1 DEF AllFit, Fits, ReadWasIssued, TypeOK
<1>3. now + ttl \in 0..(MaxTime + MaxTTL)
  BY IdentityAssumption DEF TypeOK, Times
<1>4. keyFile.key \in Keys /\ keyFile.key \in 0..MaxKeys
  BY <1>1 DEF TypeOK, KeyFile, Keys
<1> HIDE DEF old
<1>5. card \in Card /\ card.scopes = scopes /\ card.expires = now + ttl
  BY <1>2, <1>3 DEF Card
<1> HIDE DEF card
<1>6. Set(p, r)
  BY <1>1 DEF Set
<1>7. /\ r \in Run /\ r.cmd = "delegate" /\ r.at = "token" /\ r.id = old.id
      /\ r.key = keyFile.key /\ r.doc = card
  BY <1>1, <1>2, <1>4, <1>5, RunFields DEF Run
<1> HIDE DEF r
<1>8. TypeOK'
  BY <1>1, <1>6, <1>7, SetRun DEF TypeOK
<1>9. CardsKeepId' /\ TokensNarrow'
  BY <1>1 DEF CardsKeepId, TokensNarrow
<1>10. Narrow(issued, r.key, r.id, r.doc.scopes, r.doc.expires)
  BY <1>1, <1>2, <1>5, <1>7 DEF Narrow
<1>11. Fits(r, issued', keys', filed')
  BY <1>1, <1>4, <1>5, <1>7, <1>10
     DEF Fits, ReadWasIssued, MadeIsNew, TokenIsNarrow, RevokerHasKey, Making
<1>12. ~AuditsKey(r) /\ ~AuditsRevocation(r) /\ ~Making(r)
  BY <1>7 DEF AuditsKey, AuditsRevocation, Making
<1>13. issued \subseteq issued' /\ keys <= keys'
  BY <1>1 DEF TypeOK
<1> QED
  BY <1>1, <1>6, <1>8, <1>9, <1>11, <1>12, <1>13, QuietStep

\* The token is written.
LEMMA WriteTokenStep ==
  ASSUME IndInv, NEW p \in Procs, WriteToken(p)
  PROVE  IndInv'
<1> USE DEF IndInv
<1> DEFINE r == [run[p] EXCEPT !.at = "audit", !.key = 0, !.doc = NoCard]
           t == [signer |-> run[p].key, parent |-> run[p].id,
                 scopes |-> run[p].doc.scopes, expires |-> run[p].doc.expires]
<1>1. /\ run[p].at = "token" /\ Set(p, r) /\ tokens' = tokens \cup {t}
      /\ UNCHANGED <<now, keys, cardFile, keyFile, revoked, audited, issued, filed>>
  BY DEF WriteToken, At
<1>2. /\ run[p].cmd = "delegate" /\ run[p].key \in Keys /\ run[p].id \in Ids
      /\ Narrow(issued, run[p].key, run[p].id, run[p].doc.scopes, run[p].doc.expires)
  BY <1>1, RunFields DEF AllFit, Fits, TokenIsNarrow
<1>3. /\ t.signer = run[p].key /\ t.parent = run[p].id
      /\ t.scopes = run[p].doc.scopes /\ t.expires = run[p].doc.expires
  OBVIOUS
<1> HIDE DEF t
<1>4. r \in Run /\ r.cmd = "delegate" /\ r.at = "audit"
  <2>1. run[p] \in Run /\ run[p].cmd = "delegate"
    BY <1>1, <1>2, RunFields
  <2>2. 0 \in 0..MaxKeys
    BY IdentityAssumption
  <2> QED
    BY <2>1, <2>2 DEF Run
<1> HIDE DEF r
<1>5. TypeOK'
  BY <1>1, <1>2, <1>3, <1>4, SetRun DEF TypeOK
<1>6. CardsKeepId'
  BY <1>1 DEF CardsKeepId
<1>7. TokensNarrow'
  BY <1>1, <1>2, <1>3 DEF TokensNarrow, Narrow
<1>8. Fits(r, issued', keys', filed')
  BY <1>4 DEF Fits, ReadWasIssued, MadeIsNew, TokenIsNarrow, RevokerHasKey, Making
<1>9. ~AuditsKey(r) /\ ~AuditsRevocation(r) /\ ~Making(r)
  BY <1>4 DEF AuditsKey, AuditsRevocation, Making
<1>10. issued \subseteq issued' /\ keys <= keys'
  BY <1>1 DEF TypeOK
<1> QED
  BY <1>1, <1>5, <1>6, <1>7, <1>8, <1>9, <1>10, QuietStep

\* revoke takes whatever key there is.
LEMMA RevokeKeyStep ==
  ASSUME IndInv, NEW p \in Procs, RevokeKey(p)
  PROVE  IndInv'
<1> USE DEF IndInv
<1> DEFINE r == [run[p] EXCEPT !.at = "check", !.key = keyFile.key, !.doc = NoCard]
<1>1. /\ run[p].at = "key" /\ run[p].cmd = "revoke" /\ keyFile # NoKey /\ Set(p, r)
      /\ UNCHANGED <<now, keys, cardFile, keyFile, tokens, revoked, audited, issued, filed>>
  BY DEF RevokeKey, At, Decodes
<1>2. keyFile.key \in Keys /\ keyFile.key \in 0..MaxKeys
  BY <1>1 DEF TypeOK, KeyFile, Keys
<1>3. r \in Run /\ r.cmd = "revoke" /\ r.at = "check" /\ r.key = keyFile.key
  BY <1>1, <1>2, RunFields DEF Run
<1> HIDE DEF r
<1>4. TypeOK'
  BY <1>1, <1>3, SetRun DEF TypeOK
<1>5. CardsKeepId' /\ TokensNarrow'
  BY <1>1 DEF CardsKeepId, TokensNarrow
<1>6. Fits(r, issued', keys', filed')
  BY <1>2, <1>3 DEF Fits, ReadWasIssued, MadeIsNew, TokenIsNarrow, RevokerHasKey, Making
<1>7. ~AuditsKey(r) /\ ~AuditsRevocation(r) /\ ~Making(r)
  BY <1>3 DEF AuditsKey, AuditsRevocation, Making
<1>8. issued \subseteq issued' /\ keys <= keys'
  BY <1>1 DEF TypeOK
<1> QED
  BY <1>1, <1>4, <1>5, <1>6, <1>7, <1>8, QuietStep

\* The registry is asked.
LEMMA CheckRevokedStep ==
  ASSUME IndInv, NEW p \in Procs, CheckRevoked(p)
  PROVE  IndInv'
<1> USE DEF IndInv
<1> DEFINE r == [run[p] EXCEPT !.at = "insert"]
<1>1. /\ run[p].at = "check" /\ Set(p, r)
      /\ UNCHANGED <<now, keys, cardFile, keyFile, tokens, revoked, audited, issued, filed>>
  BY DEF CheckRevoked, At, Move
<1>2. run[p].cmd = "revoke" /\ run[p].key \in Keys
  BY <1>1 DEF AllFit, Fits, RevokerHasKey
<1>3. r \in Run /\ r.cmd = "revoke" /\ r.at = "insert" /\ r.key = run[p].key
  BY <1>1, <1>2, RunFields DEF Run
<1> HIDE DEF r
<1>4. TypeOK'
  BY <1>1, <1>3, SetRun DEF TypeOK
<1>5. CardsKeepId' /\ TokensNarrow'
  BY <1>1 DEF CardsKeepId, TokensNarrow
<1>6. Fits(r, issued', keys', filed')
  BY <1>2, <1>3 DEF Fits, ReadWasIssued, MadeIsNew, TokenIsNarrow, RevokerHasKey, Making
<1>7. ~AuditsKey(r) /\ ~AuditsRevocation(r) /\ ~Making(r)
  BY <1>3 DEF AuditsKey, AuditsRevocation, Making
<1>8. issued \subseteq issued' /\ keys <= keys'
  BY <1>1 DEF TypeOK
<1> QED
  BY <1>1, <1>4, <1>5, <1>6, <1>7, <1>8, QuietStep

\* A command ends without writing, or leaves half a file.
LEMMA EndStep ==
  ASSUME IndInv, NEW p \in Procs, End(p),
         cardFile' \in {cardFile, NoCard}, keyFile' \in {keyFile, NoKey},
         UNCHANGED <<now, keys, tokens, revoked, audited, issued, filed>>
  PROVE  IndInv'
<1> USE DEF IndInv
<1>1. Set(p, Idle) /\ Idle.at = "none"
  BY DEF End, Idle
<1>2. TypeOK'
  BY <1>1, SetRun DEF TypeOK
<1>3. CardsKeepId' /\ TokensNarrow'
  BY DEF CardsKeepId, TokensNarrow
<1>4. Fits(Idle, issued', keys', filed')
  BY <1>1 DEF Fits, ReadWasIssued, MadeIsNew, TokenIsNarrow, RevokerHasKey, Making
<1>5. ~AuditsKey(Idle) /\ ~AuditsRevocation(Idle) /\ ~Making(Idle)
  BY <1>1 DEF AuditsKey, AuditsRevocation, Making
<1>6. issued \subseteq issued' /\ keys <= keys'
  BY DEF TypeOK
<1> QED
  BY <1>1, <1>2, <1>3, <1>4, <1>5, <1>6, QuietStep

\* The key is filed: its id has one more, and one more process is to audit it.
LEMMA WriteKeyStep ==
  ASSUME IndInv, NEW p \in Procs, WriteKey(p)
  PROVE  IndInv'
<1> USE DEF IndInv
<1> DEFINE r == [run[p] EXCEPT !.at = "audit", !.doc = NoCard]
           k == run[p].doc.key
<1>1. /\ run[p].at = "file" /\ Set(p, r)
      /\ keyFile' = [key |-> k, pq |-> HasPQ(run[p].doc)]
      /\ filed' = filed \cup {k}
      /\ UNCHANGED <<now, keys, cardFile, tokens, revoked, audited, issued>>
  BY DEF WriteKey, At
<1>2. /\ run[p].cmd \in {"issue", "rotate"} /\ run[p].doc \in Card /\ run[p].doc \in issued
      /\ run[p].id = run[p].doc.id /\ run[p].id \in Ids
      /\ k \in 1..keys /\ k \notin filed /\ k \in Keys
  BY <1>1, RunFields DEF AllFit, Fits, MadeIsNew, Making, Card
<1>3. keyFile' \in KeyFile
  BY <1>1, <1>2 DEF KeyFile, HasPQ
<1>4. r \in Run /\ r.cmd = run[p].cmd /\ r.at = "audit" /\ r.id = run[p].id
  BY <1>1, RunFields DEF Run
<1> HIDE DEF r
<1>5. TypeOK'
  BY <1>1, <1>2, <1>3, <1>4, SetRun DEF TypeOK
<1>6. CardsKeepId' /\ TokensNarrow'
  BY <1>1 DEF CardsKeepId, TokensNarrow
<1>7. /\ run'[p] = r
      /\ \A q \in Procs : q # p => run'[q] = run[q]
  BY <1>1, SetRun
<1>8. \A q \in Procs : q # p /\ Making(run[q]) => run[q].doc.key # k
  BY <1>1 DEF KeysDiffer, Making
<1>9. AllFit'
  <2> SUFFICES ASSUME NEW q \in Procs PROVE Fits(run'[q], issued', keys', filed')
    BY DEF AllFit
  <2>1. CASE q = p
    BY <1>4, <1>7, <2>1
       DEF Fits, ReadWasIssued, MadeIsNew, TokenIsNarrow, RevokerHasKey, Making
  <2>2. CASE q # p
    BY <1>1, <1>7, <1>8, <2>2 DEF AllFit, Fits, MadeIsNew
  <2> QED
    BY <2>1, <2>2
<1>10. KeysDiffer'
  BY <1>1, <1>2, <1>4, <1>7 DEF KeysDiffer, Making
<1>11. RevokedOnce'
  BY <1>1, <1>2, <1>4, <1>7 DEF RevokedOnce, IsRevoked, AuditsRevocation
<1>12. KeysAudited'
  <2> SUFFICES ASSUME NEW id \in Ids
               PROVE  /\ IsFiniteSet(Auditors(id)')
                      /\ audited'[id].keys + Cardinality(Auditors(id)') <= Cardinality(Done(id)')
    BY DEF KeysAudited
  <2>1. /\ audited[id].keys \in Nat /\ audited'[id].keys = audited[id].keys
        /\ IsFiniteSet(Auditors(id)) /\ Cardinality(Auditors(id)) \in Nat
        /\ audited[id].keys + Cardinality(Auditors(id)) <= Cardinality(Done(id))
    BY <1>1, FS_CardinalityType DEF TypeOK, KeysAudited
  <2>2. /\ IsFiniteSet(Done(id)') /\ Cardinality(Done(id)) \in Nat
        /\ Cardinality(Done(id)') \in Nat
        /\ Cardinality(Done(id)) <= Cardinality(Done(id)')
    BY <1>1, <1>5, DoneGrows DEF TypeOK
  <2>3. CASE id # run[p].id
    <3>1. Auditors(id)' = Auditors(id)
      BY <1>1, <1>4, <1>7, <2>3 DEF Auditors, AuditsKey
    <3> QED
      BY <2>1, <2>2, <3>1
  <2>4. CASE id = run[p].id
    <3>1. Auditors(id)' = Auditors(id) \cup {p} /\ p \notin Auditors(id)
      BY <1>1, <1>2, <1>4, <1>7, <2>4 DEF Auditors, AuditsKey
    <3>2. Done(id)' = Done(id) \cup {k} /\ k \notin Done(id)
      BY <1>1, <1>2, <2>4 DEF Done
    <3>3. IsFiniteSet(Done(id))
      BY DoneIsFinite DEF TypeOK
    <3>4. /\ IsFiniteSet(Auditors(id)')
          /\ Cardinality(Auditors(id)') = Cardinality(Auditors(id)) + 1
      BY <2>1, <3>1, FS_AddElement
    <3>5. Cardinality(Done(id)') = Cardinality(Done(id)) + 1
      BY <3>2, <3>3, FS_AddElement
    <3> QED
      BY <2>1, <2>2, <3>4, <3>5
  <2> QED
    BY <2>3, <2>4
<1> QED
  BY <1>5, <1>6, <1>9, <1>10, <1>11, <1>12

\* Only one of the processes that revoke an id inserts its row.
LEMMA InsertStep ==
  ASSUME IndInv, NEW p \in Procs, Insert(p)
  PROVE  IndInv'
<1> USE DEF IndInv
<1> DEFINE r == [run[p] EXCEPT !.at = "audit", !.key = 0]
           id == run[p].id
<1>1. /\ run[p].at = "insert" /\ revoked[id] = 0 /\ Set(p, r)
      /\ revoked' = [revoked EXCEPT ![id] = run[p].key]
      /\ UNCHANGED <<now, keys, cardFile, keyFile, tokens, audited, issued, filed>>
  BY DEF Insert, At, IsRevoked
<1>2. run[p].cmd = "revoke" /\ run[p].key \in Keys /\ id \in Ids
  BY <1>1, RunFields DEF AllFit, Fits, RevokerHasKey
<1>3. r \in Run /\ r.cmd = "revoke" /\ r.at = "audit" /\ r.id = id
  <2>1. run[p] \in Run /\ run[p].cmd = "revoke"
    BY <1>1, <1>2, RunFields
  <2>2. 0 \in 0..MaxKeys
    BY IdentityAssumption
  <2> QED
    BY <2>1, <2>2 DEF Run
<1> HIDE DEF r
<1>4. revoked' \in [Ids -> 0..MaxKeys] /\ revoked'[id] # 0
      /\ \A i \in Ids : i # id => revoked'[i] = revoked[i]
  BY <1>1, <1>2, IdentityAssumption DEF TypeOK, Keys
<1>5. TypeOK'
  BY <1>1, <1>3, <1>4, SetRun DEF TypeOK
<1>6. CardsKeepId' /\ TokensNarrow'
  BY <1>1 DEF CardsKeepId, TokensNarrow
<1>7. /\ run'[p] = r
      /\ \A q \in Procs : q # p => run'[q] = run[q]
  BY <1>1, SetRun
<1>8. AllFit'
  <2> SUFFICES ASSUME NEW q \in Procs PROVE Fits(run'[q], issued', keys', filed')
    BY DEF AllFit
  <2>1. CASE q = p
    BY <1>3, <1>7, <2>1
       DEF Fits, ReadWasIssued, MadeIsNew, TokenIsNarrow, RevokerHasKey, Making
  <2>2. CASE q # p
    BY <1>1, <1>7, <2>2 DEF AllFit
  <2> QED
    BY <2>1, <2>2
<1>9. KeysDiffer'
  BY <1>1, <1>3, <1>7 DEF KeysDiffer, Making
<1>10. RevokedOnce'
  <2>1. \A q \in Procs : AuditsRevocation(run[q]) => run[q].id \in Ids /\ run[q].id # id
    BY <1>1, RunFields DEF RevokedOnce, AuditsRevocation, IsRevoked
  <2>2. audited[id].revoked = 0
    <3>1. audited[id].revoked \in Nat
      BY <1>2 DEF TypeOK
    <3>2. audited[id].revoked <= 0
      BY <1>1, <1>2 DEF RevokedOnce, IsRevoked
    <3> QED
      BY <3>1, <3>2
  <2>3. \A i \in Ids : audited'[i].revoked <= IF revoked'[i] # 0 THEN 1 ELSE 0
    BY <1>1, <1>2, <1>4, <2>2 DEF RevokedOnce, IsRevoked
  <2>4. \A q \in Procs : AuditsRevocation(run'[q]) =>
          /\ revoked'[run'[q].id] # 0 /\ audited'[run'[q].id].revoked = 0
          /\ \A s \in Procs : AuditsRevocation(run'[s]) /\ run'[s].id = run'[q].id => s = q
    BY <1>1, <1>3, <1>4, <1>7, <2>1, <2>2 DEF RevokedOnce, AuditsRevocation, IsRevoked
  <2> QED
    BY <2>3, <2>4 DEF RevokedOnce, AuditsRevocation, IsRevoked
<1>11. KeysAudited'
  <2>1. \A i \in Ids : Auditors(i)' = Auditors(i) /\ Done(i)' = Done(i)
    BY <1>1, <1>3, <1>7 DEF Auditors, AuditsKey, Done
  <2> QED
    BY <1>1, <2>1 DEF KeysAudited
<1> QED
  BY <1>5, <1>6, <1>8, <1>9, <1>10, <1>11

\* The audit entry is written and the command ends.
LEMMA AuditStep ==
  ASSUME IndInv, NEW p \in Procs, Audit(p)
  PROVE  IndInv'
<1> USE DEF IndInv
<1> DEFINE id == run[p].id
<1>1. /\ run[p].at = "audit" /\ Set(p, Idle)
      /\ UNCHANGED <<now, keys, cardFile, keyFile, tokens, revoked, issued, filed>>
  BY DEF Audit, At, End
<1>2. run[p].cmd \in {"issue", "rotate", "delegate", "revoke", "verify"} /\ id \in Ids
  BY <1>1, RunFields
<1>3. /\ audited' \in [Ids -> [keys: Nat, revoked: Nat]]
      /\ \A i \in Ids :
           /\ audited'[i].keys = IF AuditsKey(run[p]) /\ i = id THEN audited[i].keys + 1
                                                               ELSE audited[i].keys
           /\ audited'[i].revoked = IF AuditsRevocation(run[p]) /\ i = id
                                      THEN audited[i].revoked + 1 ELSE audited[i].revoked
  <2>1. audited \in [Ids -> [keys: Nat, revoked: Nat]]
    BY DEF TypeOK
  <2>2. CASE run[p].cmd \in {"issue", "rotate"}
    <3>1. audited' = [audited EXCEPT ![id].keys = @ + 1]
      BY <2>2 DEF Audit
    <3> QED
      BY <1>1, <1>2, <2>1, <2>2, <3>1 DEF AuditsKey, AuditsRevocation
  <2>3. CASE run[p].cmd = "revoke"
    <3>1. audited' = [audited EXCEPT ![id].revoked = @ + 1]
      BY <2>3 DEF Audit
    <3> QED
      BY <1>1, <1>2, <2>1, <2>3, <3>1 DEF AuditsKey, AuditsRevocation
  <2>4. CASE run[p].cmd \in {"delegate", "verify"}
    <3>1. audited' = audited
      BY <2>4 DEF Audit
    <3> QED
      BY <1>1, <1>2, <2>1, <2>4, <3>1 DEF AuditsKey, AuditsRevocation
  <2> QED
    BY <1>2, <2>2, <2>3, <2>4
<1>4. TypeOK'
  BY <1>1, <1>3, SetRun DEF TypeOK
<1>5. CardsKeepId' /\ TokensNarrow'
  BY <1>1 DEF CardsKeepId, TokensNarrow
<1>6. /\ run'[p] = Idle /\ Idle.at = "none"
      /\ \A q \in Procs : q # p => run'[q] = run[q]
  BY <1>1, SetRun DEF Idle
<1>7. AllFit'
  <2> SUFFICES ASSUME NEW q \in Procs PROVE Fits(run'[q], issued', keys', filed')
    BY DEF AllFit
  <2>1. CASE q = p
    BY <1>6, <2>1 DEF Fits, ReadWasIssued, MadeIsNew, TokenIsNarrow, RevokerHasKey, Making
  <2>2. CASE q # p
    BY <1>1, <1>6, <2>2 DEF AllFit
  <2> QED
    BY <2>1, <2>2
<1>8. KeysDiffer'
  BY <1>1, <1>6 DEF KeysDiffer, Making
<1>9. RevokedOnce'
  <2>1. \A q \in Procs : AuditsRevocation(run'[q]) =>
          /\ q # p /\ run'[q] = run[q] /\ AuditsRevocation(run[q]) /\ run[q].id \in Ids
          /\ AuditsRevocation(run[p]) => run[q].id # id
    BY <1>6, RunFields DEF RevokedOnce, AuditsRevocation
  <2>2. \A q \in Procs : AuditsRevocation(run'[q]) =>
          audited'[run'[q].id].revoked = audited[run[q].id].revoked
    BY <1>3, <2>1
  <2>3. \A q \in Procs : AuditsRevocation(run'[q]) =>
          /\ revoked'[run'[q].id] # 0 /\ audited'[run'[q].id].revoked = 0
          /\ \A s \in Procs : AuditsRevocation(run'[s]) /\ run'[s].id = run'[q].id => s = q
    BY <1>1, <2>1, <2>2 DEF RevokedOnce, IsRevoked
  <2>4. \A i \in Ids : audited'[i].revoked <= IF revoked'[i] # 0 THEN 1 ELSE 0
    BY <1>1, <1>3 DEF RevokedOnce, IsRevoked
  <2> QED
    BY <2>3, <2>4 DEF RevokedOnce, AuditsRevocation, IsRevoked
<1>10. KeysAudited'
  <2> SUFFICES ASSUME NEW i \in Ids
               PROVE  /\ IsFiniteSet(Auditors(i)')
                      /\ audited'[i].keys + Cardinality(Auditors(i)') <= Cardinality(Done(i)')
    BY DEF KeysAudited
  <2>1. /\ audited[i].keys \in Nat
        /\ IsFiniteSet(Auditors(i)) /\ Cardinality(Auditors(i)) \in Nat
        /\ audited[i].keys + Cardinality(Auditors(i)) <= Cardinality(Done(i))
        /\ Cardinality(Done(i)) \in Nat /\ Done(i)' = Done(i)
    BY <1>1, FS_CardinalityType, DoneIsFinite DEF TypeOK, KeysAudited, Done
  <2>2. CASE AuditsKey(run[p]) /\ i = id
    <3>1. Auditors(i)' = Auditors(i) \ {p} /\ p \in Auditors(i)
      BY <1>6, <2>2 DEF Auditors, AuditsKey
    <3>2. /\ IsFiniteSet(Auditors(i)')
          /\ Cardinality(Auditors(i)') = Cardinality(Auditors(i)) - 1
      BY <2>1, <3>1, FS_RemoveElement
    <3>3. audited'[i].keys = audited[i].keys + 1
      BY <1>3, <2>2
    <3> QED
      BY <2>1, <3>2, <3>3
  <2>3. CASE ~(AuditsKey(run[p]) /\ i = id)
    <3>1. Auditors(i)' = Auditors(i)
      BY <1>6, <2>3 DEF Auditors, AuditsKey
    <3>2. audited'[i].keys = audited[i].keys
      BY <1>3, <2>3
    <3> QED
      BY <2>1, <3>1, <3>2
  <2> QED
    BY <2>2, <2>3
<1> QED
  BY <1>4, <1>5, <1>7, <1>8, <1>9, <1>10

\* Steps that change nothing but the clock.
LEMMA ClockStep ==
  ASSUME IndInv, now' \in Times,
         UNCHANGED <<keys, cardFile, keyFile, tokens, revoked, audited, run, issued, filed>>
  PROVE  IndInv'
<1> USE DEF IndInv
<1>1. TypeOK' /\ CardsKeepId' /\ TokensNarrow'
  BY DEF TypeOK, CardsKeepId, TokensNarrow
<1>2. AllFit' /\ KeysDiffer' /\ RevokedOnce'
  BY DEF AllFit, KeysDiffer, RevokedOnce, IsRevoked
<1>3. KeysAudited'
  BY DEF KeysAudited, Auditors, Done
<1> QED
  BY <1>1, <1>2, <1>3

\* Every step keeps the invariant.
LEMMA NextInv == IndInv /\ [Next]_vars => IndInv'
<1> SUFFICES ASSUME IndInv, [Next]_vars PROVE IndInv'
  OBVIOUS
<1>1. CASE Tick
  BY <1>1, ClockStep, IdentityAssumption DEF Tick, IndInv, TypeOK, Times
<1>2. CASE UNCHANGED vars
  BY <1>2, ClockStep DEF vars, IndInv, TypeOK
<1>3. ASSUME NEW p \in Procs, Step(p) PROVE IndInv'
  <2>1. CASE \E scheme \in Schemes, scopes \in CardScopes, ttl \in 0..MaxTTL :
               Issue(p, scheme, scopes, ttl)
    BY <2>1, IssueStep
  <2>2. CASE \E cmd \in {"rotate", "delegate", "revoke", "verify"} : ReadCard(p, cmd)
    BY <2>2, ReadCardStep
  <2>3. CASE \E ttl \in 0..MaxTTL : RotateKey(p, ttl)
    BY <2>3, RotateKeyStep
  <2>4. CASE WriteCard(p) \/ WriteKey(p)
    BY <2>4, WriteCardStep, WriteKeyStep
  <2>5. CASE \E ttl \in 0..MaxTTL, scopes \in (SUBSET Scopes) \ {{}} :
               DelegateKey(p, ttl, scopes)
    BY <2>5, DelegateKeyStep
  <2>6. CASE WriteToken(p)
    BY <2>6, WriteTokenStep
  <2>7. CASE RevokeKey(p) \/ CheckRevoked(p) \/ Insert(p)
    BY <2>7, RevokeKeyStep, CheckRevokedStep, InsertStep
  <2>8. CASE \E readable \in BOOLEAN : Verify(p, readable)
    BY <2>8, EndStep DEF Verify
  <2>9. CASE Audit(p)
    BY <2>9, AuditStep
  <2>10. CASE Stop(p)
    BY <2>10, EndStep DEF Stop
  <2> QED
    BY <1>3, <2>1, <2>2, <2>3, <2>4, <2>5, <2>6, <2>7, <2>8, <2>9, <2>10 DEF Step
<1> QED
  BY <1>1, <1>2, <1>3 DEF Next

-----------------------------------------------------------------------------
(* The theorems *)

\* The invariant holds at all times.
THEOREM IdentityInvariant == Spec => []IndInv
<1> QED
  BY InitInv, NextInv, PTL DEF Spec

\* Delegation never widens: whatever rotations, crashes and other delegations run
\* meanwhile, a token stays within a card of the key that signed it (delegate.rs).
THEOREM DelegationNarrows == Spec => []TokensNarrow
<1>1. IndInv => TokensNarrow
  BY DEF IndInv
<1> QED
  BY <1>1, IdentityInvariant, PTL

\* The audit log claims no key and no revocation that was not made: each command
\* writes its entry last (issue.rs, rotate.rs, revoke.rs).
THEOREM AuditClaimsNoMore == Spec => []AuditedIsDone
<1>1. IndInv => AuditedIsDone
  <2> SUFFICES ASSUME IndInv, NEW id \in Ids
               PROVE  /\ audited[id].keys <= Cardinality(Done(id))
                      /\ audited[id].revoked <= IF IsRevoked(id) THEN 1 ELSE 0
    BY DEF AuditedIsDone, Done
  <2>1. /\ audited[id].keys \in Nat /\ Cardinality(Auditors(id)) \in Nat
        /\ Cardinality(Done(id)) \in Nat
        /\ audited[id].keys + Cardinality(Auditors(id)) <= Cardinality(Done(id))
    BY FS_CardinalityType, DoneIsFinite DEF IndInv, TypeOK, KeysAudited
  <2> QED
    BY <2>1 DEF IndInv, RevokedOnce
<1> QED
  BY <1>1, IdentityInvariant, PTL

\* A revocation is recorded once and never replaced, however many revoke at once:
\* the id is the primary key of the registry (revocation.rs).
THEOREM RevocationIsFinal == Spec => RevocationStays
<1>1. IndInv /\ [Next]_vars => [\A id \in Ids : IsRevoked(id) => revoked'[id] = revoked[id]]_vars
  <2> SUFFICES ASSUME IndInv, Next, NEW id \in Ids, IsRevoked(id)
               PROVE  revoked'[id] = revoked[id]
    BY DEF vars
  <2>1. CASE \E p \in Procs : Insert(p)
    BY <2>1 DEF Insert, IndInv, TypeOK, IsRevoked
  <2>2. CASE ~\E p \in Procs : Insert(p)
    BY <2>2 DEF Next, Tick, Step, Issue, ReadCard, RotateKey, WriteCard, WriteKey, DelegateKey,
                WriteToken, RevokeKey, CheckRevoked, Audit, Verify, Stop
  <2> QED
    BY <2>1, <2>2
<1> QED
  BY <1>1, IdentityInvariant, PTL DEF Spec, RevocationStays

\* Revocation covers the line of the card: verify, with the registry at hand,
\* accepts no card that was rotated from a revoked one (rotate.rs keeps the id).
THEOREM RevocationCoversLine == Spec => RevokedForGood
<1>1. IndInv /\ [Next]_vars => [\A p \in Procs : Verify(p, TRUE) =>
                                \A c \in issued : c.line = run[p].doc.line => ~IsRevoked(c.id)]_vars
  <2> SUFFICES ASSUME IndInv, NEW p \in Procs, Verify(p, TRUE), NEW c \in issued,
                      c.line = run[p].doc.line
               PROVE  ~IsRevoked(c.id)
    BY DEF vars
  <2>1. run[p].doc \in issued /\ ~IsRevoked(run[p].doc.id)
    BY DEF Verify, At, Accepts, IndInv, AllFit, Fits, ReadWasIssued
  <2> QED
    BY <2>1 DEF IndInv, CardsKeepId
<1> QED
  BY <1>1, IdentityInvariant, PTL DEF Spec, RevokedForGood

=============================================================================
