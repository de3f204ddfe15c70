-------------------------- MODULE OAuthStoreProofs --------------------------
(***************************************************************************)
(* Proofs about OAuthStore, for any set of registrations and scopes.       *)
(***************************************************************************)
EXTENDS OAuthStore, TLAPS

-----------------------------------------------------------------------------
(* The operations on a store *)

\* No token without a registration.
Tidy(s) == \A i \in Ids : s.token[i] # 0 => i \in s.regs

\* The empty store.
LEMMA EmptyStore == Empty \in OAuthStore /\ Tidy(Empty)
BY OAuthAssumption DEF Empty, OAuthStore, Tidy

\* Registering a provider keeps tokens where they are.
LEMMA RegisterKeeps ==
  ASSUME NEW s \in OAuthStore, NEW i \in Ids, NEW p \in Ids \cup {NoId},
         NEW sc \in SUBSET Scopes
  PROVE  /\ RegisterProvider(s, i, p, sc) \in OAuthStore
         /\ Tidy(s) => Tidy(RegisterProvider(s, i, p, sc))
<1> DEFINE t == RegisterProvider(s, i, p, sc)
<1>1. /\ t.regs = s.regs \cup {i} /\ t.parent = [s.parent EXCEPT ![i] = p]
      /\ t.scopes = [s.scopes EXCEPT ![i] = sc] /\ t.token = s.token
  BY DEF RegisterProvider, OAuthStore
<1>2. t \in OAuthStore
  BY DEF RegisterProvider, OAuthStore
<1> QED
  BY <1>1, <1>2 DEF Tidy

\* Tokens are stored for a registration.
LEMMA StoreTokensKeeps ==
  ASSUME NEW s \in OAuthStore, NEW i \in Ids, NEW n \in 0..MaxTokens
  PROVE  /\ StoreTokens(s, i, n) \in OAuthStore
         /\ Tidy(s) /\ i \in s.regs => Tidy(StoreTokens(s, i, n))
<1> DEFINE t == StoreTokens(s, i, n)
<1>1. t.regs = s.regs /\ t.token = [s.token EXCEPT ![i] = n]
  BY DEF StoreTokens, OAuthStore
<1>2. t \in OAuthStore
  BY DEF StoreTokens, OAuthStore
<1>3. \A j \in Ids : j # i => t.token[j] = s.token[j]
  BY <1>1 DEF OAuthStore
<1> QED
  BY <1>1, <1>2, <1>3 DEF Tidy

\* A registration goes with its tokens.
LEMMA WithoutKeeps ==
  ASSUME NEW s \in OAuthStore, NEW r \in Ids
  PROVE  /\ Without(s, r) \in OAuthStore
         /\ Tidy(s) => Tidy(Without(s, r))
<1> DEFINE dead == Descendants(s, r) \cup {r}
<1>1. Forget(s, dead) \in OAuthStore
  BY OAuthAssumption DEF Forget, OAuthStore
<1>2. /\ Forget(s, dead).regs = s.regs \ dead
      /\ \A i \in Ids : Forget(s, dead).token[i] = IF i \in dead THEN 0 ELSE s.token[i]
  BY DEF Forget
<1>3. Tidy(s) => Tidy(Forget(s, dead))
  BY <1>2 DEF Tidy
<1> QED
  BY <1>1, <1>3 DEF Without

\* Files.
LEMMA Files ==
  /\ NoFile \in File /\ Torn \in File
  /\ \A s \in OAuthStore : Whole(s) \in File /\ Whole(s).store = s
  /\ NoFile.store = Empty /\ Torn.store = Empty
BY EmptyStore DEF NoFile, Torn, Whole, File

-----------------------------------------------------------------------------
(* Any number of clients *)

\* A request in progress is about a registration id.
JobNamesId == \A c \in Clients : pc[c] # "idle" => job[c].id \in Ids

\* What waits for tokens is registered in the copy they will go into.
AskedIsRegistered ==
  \A c \in Clients : pc[c] = "asked" => job[c].id \in copy[c].regs

\* Every store there is, in the files or in a request, has no token without a
\* registration.
AllTidy ==
  /\ Tidy(disk.store)
  /\ Tidy(tmp.store)
  /\ \A c \in Clients : Tidy(copy[c])

ManyInv == TypeOK /\ JobNamesId /\ AskedIsRegistered /\ AllTidy

\* The beginning of a request that takes over a good store.
LEMMA BeginKeeps ==
  ASSUME ManyInv, NEW c \in Clients, NEW i \in Ids, NEW s \in OAuthStore, Tidy(s),
         NEW op \in {"register", "grant", "revoke"}, NEW l \in PC,
         Begin(c, op, i, s, l), l = "asked" => i \in s.regs
  PROVE  ManyInv'
<1> USE DEF ManyInv
<1>1. TypeOK'
  BY DEF Begin, TypeOK, Job
<1>2. JobNamesId'
  BY DEF Begin, JobNamesId, TypeOK
<1>3. AskedIsRegistered'
  BY DEF Begin, AskedIsRegistered, TypeOK
<1>4. AllTidy'
  BY DEF Begin, AllTidy, TypeOK
<1> QED
  BY <1>1, <1>2, <1>3, <1>4

\* The arrival of tokens for a registration of the store they go into.
LEMMA GrantedKeeps ==
  ASSUME ManyInv, NEW c \in Clients, NEW s \in OAuthStore, Tidy(s),
         job[c].id \in Ids, job[c].id \in s.regs, Granted(c, s)
  PROVE  ManyInv'
<1> USE DEF ManyInv
<1> DEFINE t == StoreTokens(s, job[c].id, issued + 1)
<1>1. issued + 1 \in 0..MaxTokens
  BY OAuthAssumption DEF TypeOK, Granted
<1>2. t \in OAuthStore /\ Tidy(t)
  BY <1>1, StoreTokensKeeps
<1>3. copy' = [copy EXCEPT ![c] = t]
  BY DEF Granted
<1> HIDE DEF t
<1>4. TypeOK'
  BY <1>1, <1>2, <1>3 DEF Granted, TypeOK, PC
<1>5. JobNamesId'
  BY DEF Granted, JobNamesId, TypeOK
<1>6. AskedIsRegistered'
  BY <1>3 DEF Granted, AskedIsRegistered, TypeOK
<1>7. AllTidy'
  BY <1>2, <1>3 DEF Granted, AllTidy, TypeOK
<1> QED
  BY <1>4, <1>5, <1>6, <1>7

\* Requests that begin.
LEMMA BeginStep ==
  ASSUME ManyInv, NEW c \in Clients, NEW i \in Ids,
         \/ \E p \in Ids \cup {NoId}, sc \in SUBSET Scopes : Register(c, i, p, sc)
         \/ Callback(c, i) \/ Exchange(c, i) \/ Refresh(c, i) \/ Authorize(c, i)
         \/ Revoke(c, i)
  PROVE  ManyInv'
<1>1. Stored \in OAuthStore /\ Tidy(Stored)
  BY DEF ManyInv, TypeOK, File, AllTidy, Stored
<1>2. ASSUME NEW p \in Ids \cup {NoId}, NEW sc \in SUBSET Scopes, Register(c, i, p, sc)
      PROVE  ManyInv'
  <2>1. /\ RegisterProvider(Stored, i, p, sc) \in OAuthStore
        /\ Tidy(RegisterProvider(Stored, i, p, sc))
    BY <1>1, RegisterKeeps
  <2> QED
    BY <1>2, <2>1, BeginKeeps DEF Register, PC
<1>3. CASE Callback(c, i) \/ Exchange(c, i)
  BY <1>1, <1>3, BeginKeeps DEF Callback, Exchange, PC
<1>4. CASE Refresh(c, i)
  BY <1>1, <1>4, BeginKeeps DEF Refresh, PC
<1>5. CASE Authorize(c, i)
  BY <1>1, <1>5, BeginKeeps DEF Authorize, PC
<1>6. CASE Revoke(c, i)
  BY <1>1, <1>6, BeginKeeps DEF Revoke, PC
<1> QED
  BY <1>2, <1>3, <1>4, <1>5, <1>6

\* Requests that go on or end.
LEMMA RequestStep ==
  ASSUME ManyInv, NEW c \in Clients,
         \/ Answer(c) \/ Reload(c) \/ Refused(c) \/ Removed(c)
         \/ Create(c) \/ Write(c) \/ WriteThrough(c) \/ WriteFailed(c) \/ Rename(c)
  PROVE  ManyInv'
<1> USE DEF ManyInv
<1>0. /\ copy[c] \in OAuthStore /\ Tidy(copy[c])
      /\ Stored \in OAuthStore /\ Tidy(Stored)
  BY DEF TypeOK, File, AllTidy, Stored
<1>1. CASE Answer(c)
  BY <1>0, <1>1, GrantedKeeps DEF Answer, JobNamesId, AskedIsRegistered
<1>2. CASE Reload(c)
  BY <1>0, <1>2, GrantedKeeps DEF Reload, JobNamesId
<1>3. ASSUME Drop(c), pc'[c] = "idle",
             \A d \in Clients : pc'[d] = "asked" => pc[d] = "asked",
             \A d \in Clients : pc'[d] # "idle" => pc[d] # "idle",
             pc' \in [Clients -> PC], UNCHANGED issued,
             disk' \in File, tmp' \in File, Tidy(disk'.store), Tidy(tmp'.store)
      PROVE  ManyInv'
  <2>1. TypeOK'
    BY <1>3, EmptyStore DEF TypeOK, Drop, Job, NoJob
  <2>2. JobNamesId'
    BY <1>3 DEF JobNamesId, Drop, TypeOK
  <2>3. AskedIsRegistered'
    BY <1>3 DEF AskedIsRegistered, Drop, TypeOK
  <2>4. AllTidy'
    BY <1>3, EmptyStore DEF AllTidy, Drop, TypeOK
  <2> QED
    BY <2>1, <2>2, <2>3, <2>4
<1>4. CASE Refused(c)
  <2>1. /\ Drop(c) /\ pc' = [pc EXCEPT ![c] = "idle"]
        /\ UNCHANGED <<disk, tmp, issued>>
    BY <1>4 DEF Refused, Fail
  <2> QED
    BY <1>3, <2>1 DEF TypeOK, AllTidy, PC
<1>5. CASE WriteFailed(c)
  <2>1. /\ Drop(c) /\ pc' = [pc EXCEPT ![c] = "idle"]
        /\ UNCHANGED <<disk, issued>> /\ tmp' \in {tmp, Torn}
    BY <1>5 DEF WriteFailed, Fail
  <2>2. tmp' \in File /\ Tidy(tmp'.store)
    BY <2>1, Files, EmptyStore DEF TypeOK, AllTidy
  <2> QED
    BY <1>3, <2>1, <2>2 DEF TypeOK, AllTidy, PC
<1>6. CASE Rename(c)
  <2>1. /\ Drop(c) /\ disk' = tmp /\ tmp' = NoFile /\ UNCHANGED issued
        /\ pc' = [d \in Clients |->
                   IF d = c THEN "idle"
                   ELSE IF pc[d] = "write" THEN "through"
                   ELSE IF pc[d] = "through" THEN "unlinked"
                   ELSE pc[d]]
    BY <1>6 DEF Rename
  <2>2. /\ tmp' \in File /\ Tidy(tmp'.store)
        /\ disk' \in File /\ Tidy(disk'.store)
    BY <2>1, Files, EmptyStore DEF TypeOK, AllTidy
  <2>3. pc' \in [Clients -> PC]
    BY <2>1 DEF TypeOK, PC
  <2> QED
    BY <1>3, <2>1, <2>2, <2>3 DEF TypeOK
<1>7. CASE Removed(c)
  <2>1. Without(copy[c], job[c].id) \in OAuthStore /\ Tidy(Without(copy[c], job[c].id))
    BY <1>0, <1>7, WithoutKeeps DEF Removed, JobNamesId
  <2>2. TypeOK'
    BY <1>7, <2>1 DEF Removed, TypeOK, PC
  <2>3. JobNamesId' /\ AskedIsRegistered'
    BY <1>7 DEF Removed, JobNamesId, AskedIsRegistered, TypeOK
  <2>4. AllTidy'
    BY <1>7, <2>1 DEF Removed, AllTidy, TypeOK
  <2> QED
    BY <2>2, <2>3, <2>4
<1>8. ASSUME UNCHANGED <<job, copy, issued>>, NEW l \in PC, l # "asked",
             pc[c] # "idle", pc' = [pc EXCEPT ![c] = l],
             disk' \in File, tmp' \in File, Tidy(disk'.store), Tidy(tmp'.store)
      PROVE  ManyInv'
  BY <1>8 DEF TypeOK, JobNamesId, AskedIsRegistered, AllTidy
<1>9. Whole(copy[c]) \in File /\ Tidy(Whole(copy[c]).store)
      /\ Torn \in File /\ Tidy(Torn.store)
  BY <1>0, Files, EmptyStore
<1>10. CASE Create(c)
  BY <1>8, <1>9, <1>10 DEF Create, TypeOK, AllTidy, PC
<1>11. CASE Write(c)
  BY <1>8, <1>9, <1>11 DEF Write, TypeOK, AllTidy, PC
<1>12. CASE WriteThrough(c)
  BY <1>8, <1>9, <1>12 DEF WriteThrough, TypeOK, AllTidy, PC
<1> QED
  BY <1>1, <1>2, <1>4, <1>5, <1>6, <1>7, <1>10, <1>11, <1>12

\* Every step keeps the invariant.
LEMMA ManyStep == ManyInv /\ [Next]_vars => ManyInv'
<1> SUFFICES ASSUME ManyInv, [Next]_vars PROVE ManyInv'
  OBVIOUS
<1>1. CASE Crash
  <2>1. TypeOK'
    BY <1>1, EmptyStore DEF Crash, ManyInv, TypeOK, Job, NoJob, PC
  <2>2. JobNamesId' /\ AskedIsRegistered'
    BY <1>1 DEF Crash, JobNamesId, AskedIsRegistered
  <2>3. AllTidy'
    BY <1>1, EmptyStore DEF Crash, ManyInv, AllTidy
  <2> QED
    BY <2>1, <2>2, <2>3 DEF ManyInv
<1>2. CASE UNCHANGED vars
  BY <1>2 DEF vars, ManyInv, TypeOK, JobNamesId, AskedIsRegistered, AllTidy
<1>3. ASSUME NEW c \in Clients, Overflow(c) PROVE ManyInv'
  BY <1>1, <1>3 DEF Overflow
<1> QED
  BY <1>1, <1>2, <1>3, BeginStep, RequestStep DEF Next

\* The invariant holds initially.
LEMMA ManyInit == Init => ManyInv
<1> SUFFICES ASSUME Init PROVE ManyInv
  OBVIOUS
<1>1. TypeOK
  BY Files, EmptyStore, OAuthAssumption DEF Init, TypeOK, PC, Job, NoJob
<1>2. JobNamesId /\ AskedIsRegistered
  BY DEF Init, JobNamesId, AskedIsRegistered
<1>3. AllTidy
  BY Files, EmptyStore DEF Init, AllTidy
<1> QED
  BY <1>1, <1>2, <1>3 DEF ManyInv

\* Every variable keeps its type.
THEOREM TypeCorrect == Spec => []TypeOK
<1>1. ManyInv => TypeOK
  BY DEF ManyInv
<1> QED
  BY <1>1, ManyInit, ManyStep, PTL DEF Spec

\* However many requests interleave, and wherever the daemon ends, the store
\* has no token without a registration.
THEOREM TokensAlwaysBelong == Spec => []TokensBelong
<1>1. ManyInv => TokensBelong
  BY DEF ManyInv, AllTidy, Tidy, TokensBelong, Stored
<1> QED
  BY <1>1, ManyInit, ManyStep, PTL DEF Spec

-----------------------------------------------------------------------------
(* One client *)

\* Requests do not overlap.
SingleClient == \A c, d \in Clients : c = d

\* Store t is what one operation of the registry makes of store s.
Outcome(s, t) ==
  \E i \in Ids :
    \/ \E p \in Ids \cup {NoId}, sc \in SUBSET Scopes :
         i \notin s.regs /\ t = RegisterProvider(s, i, p, sc)
    \/ \E n \in 1..MaxTokens : i \in s.regs /\ t = StoreTokens(s, i, n)
    \/ i \in s.regs /\ t = Without(s, i)

\* The request holds the store as it is on disk while it waits, and then what
\* one operation makes of it; when it renames, the temporary file is its copy.
UpToDate(c) ==
  /\ pc[c] \notin {"through", "unlinked"}
  /\ pc[c] \in {"asked", "revoking"} => copy[c] = Stored /\ job[c].id \in Stored.regs
  /\ pc[c] \in {"create", "write", "rename"} => Outcome(Stored, copy[c])
  /\ pc[c] = "rename" => tmp = Whole(copy[c])

OneInv == ManyInv /\ Readable /\ \A c \in Clients : UpToDate(c)

\* A step that leaves the store alone is none of the registry.
LEMMA SameStore == UNCHANGED disk => UNCHANGED Stored
BY DEF Stored

\* The registry takes a step when the store becomes an outcome of one.
LEMMA OutcomeIsStep ==
  ASSUME Outcome(Stored, Stored') PROVE Registry!Next
<1>1. PICK i \in Ids :
        \/ \E p \in Ids \cup {NoId}, sc \in SUBSET Scopes :
             i \notin Stored.regs /\ Stored' = RegisterProvider(Stored, i, p, sc)
        \/ \E n \in 1..MaxTokens : i \in Stored.regs /\ Stored' = StoreTokens(Stored, i, n)
        \/ i \in Stored.regs /\ Stored' = Without(Stored, i)
  BY DEF Outcome
<1>2. \/ \E p \in Ids \cup {NoId}, sc \in SUBSET Scopes : Registry!Register(i, p, sc)
      \/ \E n \in 1..MaxTokens : Registry!Grant(i, n)
      \/ Registry!Revoke(i)
  BY <1>1 DEF Registry!Register, Registry!Grant, Registry!Revoke,
              Registry!RegisterProvider, Registry!StoreTokens, Registry!Without,
              Registry!Forget, Registry!Descendants, Registry!ClosedUnderChildren,
              RegisterProvider, StoreTokens, Without,
              Forget, Descendants, ClosedUnderChildren
<1> QED
  BY <1>1, <1>2 DEF Registry!Next

\* Each step of a client keeps the invariant, and is a step of the registry
\* or none.
LEMMA OneClientStep ==
  ASSUME SingleClient
  PROVE  OneInv /\ [Next]_vars => OneInv' /\ [Registry!Next]_Stored
<1> SUFFICES ASSUME OneInv, [Next]_vars
             PROVE  /\ Readable' /\ \A c \in Clients : UpToDate(c)'
                    /\ [Registry!Next]_Stored
  BY ManyStep DEF OneInv
<1> USE DEF OneInv
<1> DEFINE Kept == /\ Readable' /\ \A c \in Clients : UpToDate(c)'
                   /\ UNCHANGED Stored
<1>1. ASSUME NEW c \in Clients, NEW op, NEW i, NEW s, NEW l,
             Begin(c, op, i, s, l),
             \/ l \in {"asked", "revoking"} /\ s = Stored /\ i \in Stored.regs
             \/ l = "create" /\ Outcome(Stored, s)
             \/ l = "credentials"
      PROVE  Kept
  <2>1. Readable' /\ UNCHANGED Stored
    BY <1>1 DEF Begin, Readable, Stored
  <2>2. UpToDate(c)'
    BY <1>1, <2>1 DEF Begin, UpToDate, ManyInv, TypeOK
  <2> QED
    BY <2>1, <2>2 DEF SingleClient
<1>2. ASSUME NEW c \in Clients, NEW i \in Ids,
             NEW p \in Ids \cup {NoId}, NEW sc \in SUBSET Scopes, Register(c, i, p, sc)
      PROVE  Kept
  <2>1. Outcome(Stored, RegisterProvider(Stored, i, p, sc))
    BY <1>2 DEF Outcome, Register
  <2> QED
    BY <1>1, <1>2, <2>1 DEF Register
<1>3. ASSUME NEW c \in Clients, NEW i \in Ids,
             \/ Callback(c, i) \/ Exchange(c, i) \/ Refresh(c, i) \/ Authorize(c, i)
             \/ Revoke(c, i)
      PROVE  Kept
  BY <1>1, <1>3 DEF Callback, Exchange, Refresh, Authorize, Revoke
<1>4. ASSUME NEW c \in Clients, NEW s, Granted(c, s), s = Stored,
             job[c].id \in Stored.regs, job[c].id \in Ids
      PROVE  Kept
  <2>1. Readable' /\ UNCHANGED Stored
    BY <1>4 DEF Granted, Readable, Stored
  <2>2. issued + 1 \in 1..MaxTokens
    BY <1>4, OAuthAssumption DEF Granted, ManyInv, TypeOK
  <2>3. Outcome(Stored, StoreTokens(Stored, job[c].id, issued + 1))
    BY <1>4, <2>2 DEF Outcome
  <2>4. pc'[c] = "create" /\ copy'[c] = StoreTokens(Stored, job[c].id, issued + 1)
    BY <1>4 DEF Granted, ManyInv, TypeOK
  <2>5. UpToDate(c)'
    BY <2>1, <2>3, <2>4 DEF UpToDate
  <2> QED
    BY <2>1, <2>5 DEF SingleClient
<1>5. ASSUME NEW c \in Clients, Answer(c) PROVE Kept
  BY <1>4, <1>5 DEF Answer, UpToDate, ManyInv, JobNamesId
<1>6. ASSUME NEW c \in Clients, Reload(c) PROVE Kept
  BY <1>4, <1>6 DEF Reload, ManyInv, JobNamesId
<1>7. ASSUME NEW c \in Clients, Refused(c) \/ WriteFailed(c) PROVE Kept
  <2>1. pc'[c] = "idle" /\ UNCHANGED disk
    BY <1>7 DEF Refused, WriteFailed, Fail, ManyInv, TypeOK
  <2>2. UpToDate(c)' /\ Readable' /\ UNCHANGED Stored
    BY <2>1 DEF UpToDate, Readable, Stored
  <2> QED
    BY <2>2 DEF SingleClient
<1>8. ASSUME NEW c \in Clients, Removed(c) PROVE Kept
  <2>1. Outcome(Stored, Without(copy[c], job[c].id))
    BY <1>8 DEF Removed, UpToDate, Outcome, ManyInv, JobNamesId
  <2>2. /\ pc'[c] = "create" /\ copy'[c] = Without(copy[c], job[c].id)
        /\ UNCHANGED disk
    BY <1>8 DEF Removed, ManyInv, TypeOK
  <2>3. UpToDate(c)' /\ Readable' /\ UNCHANGED Stored
    BY <2>1, <2>2 DEF UpToDate, Readable, Stored
  <2> QED
    BY <2>3 DEF SingleClient
<1>9. ASSUME NEW c \in Clients, Create(c) PROVE Kept
  <2>1. pc[c] = "create" /\ pc'[c] = "write" /\ UNCHANGED <<disk, copy>>
    BY <1>9 DEF Create, ManyInv, TypeOK
  <2>2. UpToDate(c)' /\ Readable' /\ UNCHANGED Stored
    BY <2>1 DEF UpToDate, Readable, Stored
  <2> QED
    BY <2>2 DEF SingleClient
<1>10. ASSUME NEW c \in Clients, Write(c) PROVE Kept
  <2>1. ~Shared(c)
    BY DEF Shared, SingleClient
  <2>2. /\ pc[c] = "write" /\ pc'[c] = "rename" /\ UNCHANGED <<disk, copy>>
        /\ tmp' = Whole(copy[c])
    BY <1>10, <2>1 DEF Write, ManyInv, TypeOK
  <2>3. UpToDate(c)' /\ Readable' /\ UNCHANGED Stored
    BY <2>2 DEF UpToDate, Readable, Stored
  <2> QED
    BY <2>3 DEF SingleClient
<1>11. ASSUME NEW c \in Clients, WriteThrough(c) PROVE Kept
  BY <1>11 DEF WriteThrough, UpToDate
<1>12. ASSUME NEW c \in Clients, Rename(c)
       PROVE  /\ Readable' /\ \A d \in Clients : UpToDate(d)'
              /\ Registry!Next
  <2>1. /\ disk' = Whole(copy[c]) /\ pc'[c] = "idle" /\ Outcome(Stored, copy[c])
    BY <1>12 DEF Rename, UpToDate
  <2>2. copy[c] \in OAuthStore
    BY DEF ManyInv, TypeOK
  <2>3. Readable' /\ Stored' = copy[c]
    BY <2>1, <2>2, Files DEF Readable, Stored, Whole
  <2>4. Registry!Next
    BY <2>1, <2>3, OutcomeIsStep
  <2>5. UpToDate(c)'
    BY <2>1 DEF UpToDate
  <2> QED
    BY <2>3, <2>4, <2>5 DEF SingleClient
<1>13. CASE Crash
  BY <1>13 DEF Crash, UpToDate, Readable, Stored
<1>14. CASE UNCHANGED vars
  BY <1>14 DEF vars, UpToDate, Readable, Stored
<1>15. ASSUME NEW c \in Clients, Overflow(c) PROVE Kept
  BY <1>13, <1>15 DEF Overflow, Crash, UpToDate, Readable, Stored
<1> QED
  BY <1>2, <1>3, <1>5, <1>6, <1>7, <1>8, <1>9, <1>10, <1>11, <1>12, <1>13,
     <1>14, <1>15 DEF Next

\* The invariant of one client holds initially.
LEMMA OneClientInit == Init => OneInv
BY ManyInit DEF Init, OneInv, Readable, UpToDate, NoFile

\* While requests do not overlap the store can always be loaded, wherever the
\* daemon ends and whatever write fails.
THEOREM OneClientReadable ==
  ASSUME SingleClient
  PROVE  Spec => []StoreReadable
<1>1. OneInv /\ [Next]_vars => OneInv'
  BY OneClientStep
<1>2. OneInv => StoreReadable
  BY DEF OneInv, StoreReadable
<1> QED
  BY <1>1, <1>2, OneClientInit, PTL DEF Spec

\* While requests do not overlap each of them takes effect at once or not at
\* all.
THEOREM OneClientRegistry ==
  ASSUME SingleClient
  PROVE  Spec => ImplementsRegistry
<1>1. OneInv /\ [Next]_vars => OneInv' /\ [Registry!Next]_Stored
  BY OneClientStep
<1>2. Init => Registry!Init
  BY DEF Init, Registry!Init, Stored, NoFile, Empty, Registry!Empty
<1> QED
  BY <1>1, <1>2, OneClientInit, PTL DEF Spec, ImplementsRegistry, Registry!Spec
=============================================================================
