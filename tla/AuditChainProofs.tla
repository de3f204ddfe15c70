-------------------------- MODULE AuditChainProofs --------------------------
(***************************************************************************)
(* Proofs about AuditChain, for any set of contents and any bound.         *)
(***************************************************************************)
EXTENDS AuditChain, SequenceTheorems, WellFoundedInduction, TLAPS

\* At most one connection writes to the database.
SingleWriter == \A v, w \in Writers : v = w

-----------------------------------------------------------------------------
(* Types *)

\* A new row is an entry, and the last hash of a log is a hash.
LEMMA EntryType ==
  /\ \A h \in Hash, c \in Contents : NewEntry(h, c) \in Entry
  /\ \A entries \in Seq(Entry) : LastHash(entries) \in Hash
<1>1. ASSUME NEW h \in Hash, NEW c \in Contents PROVE NewEntry(h, c) \in Entry
  BY DEF NewEntry, Entry, ChainHash, Hash
<1>2. ASSUME NEW entries \in Seq(Entry) PROVE LastHash(entries) \in Hash
  <2>1. CASE entries = << >>
    BY <2>1 DEF LastHash, Genesis, Hash
  <2>2. CASE entries # << >>
    <3>1. entries[Len(entries)] \in Entry
      BY <2>2
    <3> QED
      BY <2>2, <3>1 DEF LastHash, Entry
  <2> QED
    BY <2>1, <2>2
<1> QED
  BY <1>1, <1>2

\* Types are kept by every step.
LEMMA TypeStep == TypeOK /\ [Next]_vars => TypeOK'
<1> SUFFICES ASSUME TypeOK, [Next]_vars PROVE TypeOK'
  OBVIOUS
<1>1. ASSUME NEW w \in Writers, Select(w) PROVE TypeOK'
  BY <1>1, EntryType DEF TypeOK, Select
<1>2. ASSUME NEW w \in Writers, Insert(w) PROVE TypeOK'
  <2>1. PICK c \in Contents : /\ log' = Append(log, NewEntry(prev[w], c))
                              /\ written' = Append(written, NewEntry(prev[w], c))
    BY <1>2 DEF Insert
  <2>2. NewEntry(prev[w], c) \in Entry
    BY EntryType DEF TypeOK
  <2> QED
    BY <1>2, <2>1, <2>2 DEF TypeOK, Insert
<1>3. ASSUME NEW w \in Writers, GiveUp(w) PROVE TypeOK'
  BY <1>3 DEF TypeOK, GiveUp
<1>4. CASE UNCHANGED vars
  BY <1>4 DEF TypeOK, vars
<1> QED
  BY <1>1, <1>2, <1>3, <1>4 DEF Next

\* Every variable keeps its type.
THEOREM TypeCorrect == Spec => []TypeOK
<1>1. Init => TypeOK
  BY DEF Init, TypeOK, Genesis, Hash
<1> QED
  BY <1>1, TypeStep, PTL DEF Spec

-----------------------------------------------------------------------------
(* Any number of writers *)

\* What a writer holds between SELECT and INSERT is the genesis value or the
\* hash of an entry that is in the log.
HeldIsRecorded ==
  changes = 0 =>
    \A w \in busy : prev[w] = Genesis \/ \E j \in DOMAIN log : log[j].hash = prev[w]

RecordedInv == TypeOK /\ HeldIsRecorded /\ NoDanglingLink

\* The invariant holds initially.
LEMMA RecordedInit == Init => RecordedInv
BY DEF Init, RecordedInv, TypeOK, HeldIsRecorded, NoDanglingLink, Genesis, Hash

\* Every step keeps it: a record hangs on what its SELECT found.
LEMMA RecordedStep == RecordedInv /\ [Next]_vars => RecordedInv'
<1> SUFFICES ASSUME RecordedInv, [Next]_vars PROVE HeldIsRecorded' /\ NoDanglingLink'
  BY TypeStep DEF RecordedInv
<1> USE DEF RecordedInv
<1>1. ASSUME NEW w \in Writers, Select(w) PROVE HeldIsRecorded' /\ NoDanglingLink'
  <2>1. LastHash(log) = Genesis \/ \E j \in DOMAIN log : log[j].hash = LastHash(log)
    <3>1. CASE log = << >>
      BY <3>1 DEF LastHash
    <3>2. CASE log # << >>
      <4>1. Len(log) \in DOMAIN log /\ LastHash(log) = log[Len(log)].hash
        BY <3>2 DEF LastHash, TypeOK
      <4> QED
        BY <4>1
    <3> QED
      BY <3>1, <3>2
  <2>2. HeldIsRecorded'
    BY <1>1, <2>1 DEF Select, HeldIsRecorded, TypeOK
  <2> QED
    BY <1>1, <2>2 DEF Select, NoDanglingLink
<1>2. ASSUME NEW w \in Writers, Insert(w) PROVE HeldIsRecorded' /\ NoDanglingLink'
  <2>1. PICK c \in Contents : log' = Append(log, NewEntry(prev[w], c))
    BY <1>2 DEF Insert
  <2>2. log \in Seq(Entry) /\ Len(log) \in Nat
    BY DEF TypeOK
  <2>3. /\ DOMAIN log' = 1..(Len(log) + 1)
        /\ \A i \in DOMAIN log : i \in DOMAIN log' /\ log'[i] = log[i]
        /\ log'[Len(log) + 1] = NewEntry(prev[w], c)
        /\ DOMAIN log = 1..Len(log)
    BY <2>1, <2>2
  <2>4. HeldIsRecorded'
    BY <1>2, <2>3 DEF Insert, HeldIsRecorded
  <2>5. NewEntry(prev[w], c).prev = prev[w]
    BY DEF NewEntry
  <2>6. \/ changes # 0
        \/ prev[w] = Genesis
        \/ \E j \in 1..Len(log) : log'[j].hash = prev[w]
    BY <1>2, <2>3 DEF Insert, HeldIsRecorded
  <2>7. ASSUME changes = 0, NEW i \in DOMAIN log'
        PROVE  \/ log'[i].prev = Genesis
               \/ \E j \in 1..(i - 1) : log'[j].hash = log'[i].prev
    <3>1. CASE i \in DOMAIN log
      <4>1. log'[i] = log[i] /\ \A j \in 1..(i - 1) : log'[j] = log[j]
        BY <2>2, <2>3, <3>1
      <4> QED
        BY <2>7, <3>1, <4>1 DEF NoDanglingLink
    <3>2. CASE i = Len(log) + 1
      BY <2>2, <2>3, <2>5, <2>6, <2>7, <3>2
    <3> QED
      BY <2>2, <2>3, <3>1, <3>2
  <2> QED
    BY <1>2, <2>4, <2>7 DEF NoDanglingLink, Insert
<1>3. ASSUME NEW w \in Writers, GiveUp(w) PROVE HeldIsRecorded' /\ NoDanglingLink'
  BY <1>3 DEF GiveUp, HeldIsRecorded, NoDanglingLink
<1>4. CASE UNCHANGED vars
  BY <1>4 DEF vars, HeldIsRecorded, NoDanglingLink
<1> QED
  BY <1>1, <1>2, <1>3, <1>4 DEF Next

\* Whatever a row is changed to, types are kept and the change is counted.
LEMMA OverwriteType ==
  ASSUME TypeOK, NEW i \in DOMAIN log, NEW e \in Rewritten(i), Overwrite(i, e)
  PROVE  TypeOK' /\ changes' # 0 /\ Len(log') = Len(log)
<1>1. log \in Seq(Entry) /\ log[i] \in Entry /\ Genesis \in Hash
  BY DEF TypeOK, Genesis, Hash
<1>2. PICK c \in Contents, h \in {Genesis} \cup {log[j].hash : j \in DOMAIN log} :
        e = [content |-> c, prev |-> h, hash |-> log[i].hash] \/ e = NewEntry(h, c)
  BY DEF Rewritten
<1>3. h \in Hash
  <2>1. \A j \in DOMAIN log : log[j].hash \in Hash
    <3>1. \A j \in DOMAIN log : log[j] \in Entry
      BY <1>1
    <3> QED
      BY <3>1 DEF Entry
  <2> QED
    BY <1>1, <2>1
<1>4. e \in Entry
  BY <1>1, <1>2, <1>3, EntryType DEF Entry
<1>5. log' = [log EXCEPT ![i] = e] /\ changes' = changes + 1
  BY DEF Overwrite
<1>6. log' \in Seq(Entry) /\ Len(log') = Len(log)
  BY <1>1, <1>4, <1>5
<1> QED
  BY <1>5, <1>6 DEF Overwrite, TypeOK

\* So everything said of a log that nobody has changed is kept.
LEMMA OverwriteKeepsRecords ==
  ASSUME RecordedInv, NEW i \in DOMAIN log, NEW e \in Rewritten(i), Overwrite(i, e)
  PROVE  RecordedInv'
BY OverwriteType DEF RecordedInv, HeldIsRecorded, NoDanglingLink

\* However many connections write, no entry hangs on a hash that no earlier entry
\* has, for as long as nobody changes a row.
THEOREM NeverDangling == OverwrittenSpec => []NoDanglingLink
<1>1. RecordedInv /\ [OverwrittenNext]_vars => RecordedInv'
  BY RecordedStep, OverwriteKeepsRecords DEF OverwrittenNext
<1>2. RecordedInv => NoDanglingLink
  BY DEF RecordedInv
<1> QED
  BY <1>1, <1>2, RecordedInit, PTL DEF OverwrittenSpec

-----------------------------------------------------------------------------
(* Chains *)

\* verify_chain over all rows, by position.
Linked(entries) ==
  /\ entries # << >> => entries[1].prev = Genesis
  /\ \A i \in 2..Len(entries) :
       /\ entries[i].prev = entries[i - 1].hash
       /\ entries[i].hash = ChainHash(entries[i].prev, entries[i].content)

\* Over all rows, the row selected before row i is row i - 1.
LEMMA WholeChain ==
  ASSUME NEW entries \in Seq(Entry)
  PROVE  Verifies(entries) <=> Linked(entries)
<1>1. Len(entries) \in Nat /\ DOMAIN entries = 1..Len(entries)
  OBVIOUS
<1> DEFINE rows == DOMAIN entries
<1>2. \A i \in rows : Before(rows, i) = 1..(i - 1)
  BY <1>1 DEF Before
<1>3. ASSUME Linked(entries), NEW i \in rows
      PROVE  \/ Before(rows, i) = {} /\ entries[i].prev = Genesis
             \/ \E k \in Before(rows, i) :
                  /\ \A j \in Before(rows, i) : j <= k
                  /\ entries[i].prev = entries[k].hash
                  /\ entries[i].hash = ChainHash(entries[i].prev, entries[i].content)
  <2>1. CASE i = 1
    BY <1>1, <1>2, <1>3, <2>1 DEF Linked
  <2>2. CASE i # 1
    <3>1. i \in 2..Len(entries) /\ i - 1 \in Before(rows, i)
      BY <1>1, <1>2, <2>2
    <3>2. \A j \in Before(rows, i) : j <= i - 1
      BY <1>1, <1>2
    <3> QED
      BY <1>3, <3>1, <3>2 DEF Linked
  <2> QED
    BY <2>1, <2>2
<1>4. ASSUME Verifies(entries) PROVE Linked(entries)
  <2>1. ASSUME entries # << >> PROVE entries[1].prev = Genesis
    <3>1. 1 \in rows /\ Before(rows, 1) = {}
      BY <1>1, <1>2, <2>1
    <3> QED
      BY <1>4, <3>1 DEF Verifies, VerifyChain
  <2>2. ASSUME NEW i \in 2..Len(entries)
        PROVE  /\ entries[i].prev = entries[i - 1].hash
               /\ entries[i].hash = ChainHash(entries[i].prev, entries[i].content)
    <3>1. i \in rows /\ i - 1 \in Before(rows, i)
      BY <1>1, <1>2
    <3>2. PICK k \in Before(rows, i) :
            /\ \A j \in Before(rows, i) : j <= k
            /\ entries[i].prev = entries[k].hash
            /\ entries[i].hash = ChainHash(entries[i].prev, entries[i].content)
      BY <1>4, <3>1 DEF Verifies, VerifyChain
    <3>3. i - 1 <= k /\ k \in 1..(i - 1)
      BY <1>2, <3>1, <3>2
    <3>4. k = i - 1
      BY <3>3
    <3> QED
      BY <3>2, <3>4
  <2> QED
    BY <2>1, <2>2 DEF Linked
<1> QED
  BY <1>3, <1>4 DEF Verifies, VerifyChain

\* Appending an entry that carries the last hash keeps a chain valid and
\* appends its content to the head.
LEMMA AppendKeepsChain ==
  ASSUME NEW entries \in Seq(Entry), Linked(entries), NEW c \in Contents
  PROVE  LET longer == Append(entries, NewEntry(LastHash(entries), c))
         IN  /\ Linked(longer)
             /\ LastHash(longer) = Append(LastHash(entries), c)
<1> DEFINE e == NewEntry(LastHash(entries), c)
           longer == Append(entries, e)
<1>1. e \in Entry /\ e.prev = LastHash(entries)
      /\ e.hash = ChainHash(e.prev, c) /\ e.content = c
  BY EntryType DEF NewEntry
<1> HIDE DEF e
<1>2. /\ Len(entries) \in Nat /\ DOMAIN entries = 1..Len(entries)
      /\ longer # << >> /\ Len(longer) = Len(entries) + 1
      /\ longer[Len(entries) + 1] = e
      /\ \A i \in 1..Len(entries) : longer[i] = entries[i]
  BY <1>1
<1>3. LastHash(longer) = Append(LastHash(entries), c)
  BY <1>1, <1>2 DEF LastHash, ChainHash
<1>4. CASE entries = << >>
  <2>1. Len(entries) = 0 /\ LastHash(entries) = Genesis
    BY <1>4 DEF LastHash
  <2> QED
    BY <1>1, <1>2, <1>3, <2>1 DEF Linked, e
<1>5. CASE entries # << >>
  <2>1. Len(entries) >= 1 /\ LastHash(entries) = entries[Len(entries)].hash
    BY <1>2, <1>5 DEF LastHash
  <2>2. longer[1].prev = Genesis
    BY <1>2, <1>5, <2>1 DEF Linked
  <2>3. ASSUME NEW i \in 2..Len(longer)
        PROVE  /\ longer[i].prev = longer[i - 1].hash
               /\ longer[i].hash = ChainHash(longer[i].prev, longer[i].content)
    <3>1. CASE i <= Len(entries)
      BY <1>2, <1>5, <3>1 DEF Linked
    <3>2. CASE i = Len(entries) + 1
      BY <1>1, <1>2, <2>1, <3>2
    <3> QED
      BY <1>2, <3>1, <3>2
  <2>4. Linked(longer)
    BY <2>2, <2>3 DEF Linked
  <2> QED
    BY <1>3, <2>4 DEF e
<1> QED
  BY <1>4, <1>5

\* The head of the chain commits to as many contents as there are entries.
HeadIsComplete == Len(LastHash(log)) = Len(log)

\* Of the values a writer may hold, the last hash is the only one that no entry
\* of a valid chain hangs on.
LEMMA UnusedIsLast ==
  ASSUME NEW entries \in Seq(Entry), Linked(entries), NEW h,
         h = Genesis \/ \E j \in DOMAIN entries : entries[j].hash = h,
         \A i \in DOMAIN entries : entries[i].prev # h
  PROVE  h = LastHash(entries)
<1>0. Len(entries) \in Nat /\ DOMAIN entries = 1..Len(entries)
  OBVIOUS
<1>1. CASE entries = << >>
  BY <1>1 DEF LastHash
<1>2. CASE entries # << >>
  <2>1. 1 \in DOMAIN entries /\ entries[1].prev = Genesis
    BY <1>0, <1>2 DEF Linked
  <2>2. PICK j \in DOMAIN entries : entries[j].hash = h
    BY <2>1
  <2>3. j = Len(entries)
    <3>1. SUFFICES ASSUME j # Len(entries) PROVE FALSE
      OBVIOUS
    <3>2. j + 1 \in 2..Len(entries) /\ (j + 1) - 1 = j /\ j + 1 \in DOMAIN entries
      BY <1>0, <3>1
    <3>3. entries[j + 1].prev = entries[j].hash
      BY <1>2, <3>2 DEF Linked
    <3> QED
      BY <2>2, <3>2, <3>3
  <2> QED
    BY <1>2, <2>2, <2>3 DEF LastHash
<1> QED
  BY <1>1, <1>2

-----------------------------------------------------------------------------
(* Rows that are changed *)

\* As many rows are in the log as were inserted, and the same ones as long as
\* nobody changes any.
RowsAsWritten ==
  /\ Len(log) = Len(written)
  /\ changes = 0 => log = written

ChangedInv == TypeOK /\ RowsAsWritten

\* The invariant holds initially.
LEMMA ChangedInit == Init => ChangedInv
BY DEF Init, ChangedInv, RowsAsWritten, TypeOK, Genesis, Hash

\* Every step keeps it: an insertion appends the same row to both.
LEMMA ChangedStep == ChangedInv /\ [OverwrittenNext]_vars => ChangedInv'
<1> SUFFICES ASSUME ChangedInv, [OverwrittenNext]_vars PROVE ChangedInv'
  OBVIOUS
<1>1. CASE [Next]_vars
  <2>1. TypeOK'
    BY <1>1, TypeStep DEF ChangedInv
  <2>2. CASE UNCHANGED <<log, written, changes>>
    BY <2>1, <2>2 DEF ChangedInv, RowsAsWritten
  <2>3. ASSUME NEW w \in Writers, Insert(w) PROVE RowsAsWritten'
    <3>1. PICK c \in Contents : /\ log' = Append(log, NewEntry(prev[w], c))
                                /\ written' = Append(written, NewEntry(prev[w], c))
      BY <2>3 DEF Insert
    <3>2. /\ NewEntry(prev[w], c) \in Entry
          /\ log \in Seq(Entry) /\ written \in Seq(Entry)
      BY EntryType DEF ChangedInv, TypeOK
    <3>3. Len(log') = Len(log) + 1 /\ Len(written') = Len(written) + 1
      BY <3>1, <3>2, AppendProperties
    <3> QED
      BY <2>3, <3>1, <3>3 DEF ChangedInv, RowsAsWritten, Insert
  <2> QED
    BY <1>1, <2>1, <2>2, <2>3 DEF Next, Select, GiveUp, vars, ChangedInv
<1>2. ASSUME NEW i \in DOMAIN log, NEW e \in Rewritten(i), Overwrite(i, e)
      PROVE  ChangedInv'
  BY <1>2, OverwriteType DEF ChangedInv, RowsAsWritten, Overwrite
<1> QED
  BY <1>1, <1>2 DEF OverwrittenNext

\* A hash comes from one link and one content only.
LEMMA SameHash ==
  ASSUME NEW e \in Entry, NEW f \in Entry, e.hash = f.hash,
         e.hash = ChainHash(e.prev, e.content), f.hash = ChainHash(f.prev, f.content)
  PROVE  e.prev = f.prev /\ e.content = f.content
<1>1. Append(e.prev, e.content) = Append(f.prev, f.content)
  BY DEF ChainHash
<1> QED
  BY <1>1, AppendInjective DEF Entry, Hash

\* Chains of one length that end in the same hash have the same hashes: otherwise,
\* of the last rows whose hashes differ, the hash of the next row gives them away.
LEMMA HeadFixesHashes ==
  ASSUME NEW s \in Seq(Entry), NEW t \in Seq(Entry), Len(s) = Len(t),
         Linked(s), Linked(t), LastHash(s) = LastHash(t)
  PROVE  \A i \in 1..Len(s) : s[i].hash = t[i].hash
<1> DEFINE n == Len(s)
           Differ == {k \in Nat : k < n /\ s[n - k].hash # t[n - k].hash}
<1>1. n \in Nat /\ DOMAIN s = 1..n /\ DOMAIN t = 1..n
  OBVIOUS
<1>2. \A i \in 1..n : s[i] \in Entry /\ t[i] \in Entry
  BY <1>1
<1> HIDE DEF n
<1>3. SUFFICES ASSUME Differ # {} PROVE FALSE
  <2>1. SUFFICES ASSUME NEW i \in 1..n, s[i].hash # t[i].hash PROVE Differ # {}
    BY <1>3 DEF n
  <2>2. n - i \in Nat /\ n - i < n /\ n - (n - i) = i
    BY <1>1
  <2>3. n - i \in Differ
    BY <2>1, <2>2
  <2> QED
    BY <2>3
<1>4. PICK k \in Differ : \A m \in Differ : ~(m < k)
  <2>1. IsWellFoundedOn(OpToRel(<, Nat), Nat)
    BY NatLessThanWellFounded
  <2>2. PICK k \in Differ : \A m \in Differ : ~(<<m, k>> \in OpToRel(<, Nat))
    BY <1>3, <2>1, WFMin
  <2> QED
    BY <2>2 DEF OpToRel
<1>5. CASE k = 0
  <2>1. n >= 1 /\ n - k = n /\ s # << >> /\ t # << >> /\ Len(t) = n
    BY <1>1, <1>4, <1>5 DEF n
  <2>2. s[n].hash = t[n].hash
    BY <2>1 DEF LastHash, n
  <2> QED
    BY <1>4, <2>1, <2>2
<1>6. CASE k # 0
  <2> DEFINE i == n - k + 1
  <2>1. /\ k - 1 \in Nat /\ k - 1 < k /\ k - 1 < n
        /\ n - (k - 1) = i /\ i - 1 = n - k
        /\ i \in 2..n /\ i \in 1..n
    BY <1>1, <1>4, <1>6
  <2> HIDE DEF i
  <2>2. s[i].hash = t[i].hash
    BY <1>4, <2>1
  <2>3. /\ s[i].hash = ChainHash(s[i].prev, s[i].content) /\ s[i].prev = s[i - 1].hash
        /\ t[i].hash = ChainHash(t[i].prev, t[i].content) /\ t[i].prev = t[i - 1].hash
    BY <2>1 DEF Linked, n
  <2>4. s[i].prev = t[i].prev
    <3>1. s[i] \in Entry /\ t[i] \in Entry
      BY <1>2, <2>1
    <3> QED
      BY <2>2, <2>3, <3>1, SameHash
  <2> QED
    BY <1>4, <2>1, <2>3, <2>4
<1> QED
  BY <1>5, <1>6

\* Whatever the rows are changed to, a log that verifies and ends in the hash that was
\* kept says from its second entry on what was recorded: hash by hash from the end,
\* equal hashes come only from equal links and contents.
THEOREM TamperingIsSeen == OverwrittenSpec => []HeadCommits
<1>1. ChangedInv => HeadCommits
  <2> SUFFICES ASSUME ChangedInv, Verifies(log), Verifies(written),
                      LastHash(log) = LastHash(written), NEW i \in 2..Len(log)
               PROVE  log[i] = written[i]
    BY DEF HeadCommits
  <2>1. log \in Seq(Entry) /\ written \in Seq(Entry) /\ Len(log) = Len(written)
    BY DEF ChangedInv, TypeOK, RowsAsWritten
  <2>2. Linked(log) /\ Linked(written)
    BY <2>1, WholeChain
  <2>3. i \in 1..Len(log) /\ log[i] \in Entry /\ written[i] \in Entry
    BY <2>1
  <2>4. log[i].hash = written[i].hash
    BY <2>1, <2>2, <2>3, HeadFixesHashes
  <2>5. /\ log[i].hash = ChainHash(log[i].prev, log[i].content)
        /\ written[i].hash = ChainHash(written[i].prev, written[i].content)
    BY <2>1, <2>2 DEF Linked
  <2>6. log[i].prev = written[i].prev /\ log[i].content = written[i].content
    BY <2>3, <2>4, <2>5, SameHash
  <2> QED
    BY <2>3, <2>4, <2>6 DEF Entry
<1> QED
  BY <1>1, ChangedInit, ChangedStep, PTL DEF OverwrittenSpec

-----------------------------------------------------------------------------
(* Forks *)

\* Without a change and a fork the rows are a chain whose head has everything.
ForkedOrValid ==
  changes = 0 /\ Unforked(log) => Linked(log) /\ Len(LastHash(log)) = Len(log)

ManyInv == RecordedInv /\ ForkedOrValid

\* The invariant holds initially.
LEMMA ManyInit == Init => ManyInv
BY RecordedInit DEF Init, ManyInv, ForkedOrValid, Linked, LastHash, Genesis

\* An insertion that forks nothing used the last hash, whenever that was selected: it
\* appends to the chain, and is a step of the ledger.
LEMMA InsertExtends ==
  ASSUME ManyInv, NEW w \in Writers, Insert(w), changes = 0, Unforked(log')
  PROVE  /\ Linked(log') /\ Len(LastHash(log')) = Len(log')
         /\ Ledger!Next
<1>1. TypeOK /\ HeldIsRecorded /\ ForkedOrValid
  BY DEF ManyInv, RecordedInv
<1>2. PICK c \in Contents : log' = Append(log, NewEntry(prev[w], c))
  BY DEF Insert
<1>3. /\ Len(log) \in Nat /\ DOMAIN log = 1..Len(log)
      /\ DOMAIN log' = 1..(Len(log) + 1)
      /\ \A i \in DOMAIN log : i \in DOMAIN log' /\ log'[i] = log[i]
      /\ log'[Len(log) + 1].prev = prev[w]
  BY <1>1, <1>2 DEF TypeOK, NewEntry
<1>4. Unforked(log)
  BY <1>3 DEF Unforked
<1>5. \A i \in DOMAIN log : log[i].prev # prev[w]
  BY <1>3 DEF Unforked
<1>6. /\ log \in Seq(Entry) /\ Linked(log)
      /\ Len(LastHash(log)) = Len(log)
  BY <1>1, <1>4 DEF TypeOK, ForkedOrValid
<1>7. prev[w] = Genesis \/ \E j \in DOMAIN log : log[j].hash = prev[w]
  BY <1>1 DEF Insert, HeldIsRecorded
<1>8. prev[w] = LastHash(log)
  BY <1>5, <1>6, <1>7, UnusedIsLast
<1>9. Linked(log') /\ LastHash(log') = Append(LastHash(log), c)
  BY <1>2, <1>6, <1>8, AppendKeepsChain
<1>10. LastHash(log) \in Seq(Contents)
  BY <1>6, EntryType DEF Hash
<1>11. Len(LastHash(log')) = Len(log')
  <2>1. Len(log') = Len(log) + 1
    BY <1>2, <1>6, <1>8, EntryType
  <2>2. Len(LastHash(log')) = Len(LastHash(log)) + 1
    BY <1>9, <1>10
  <2> QED
    BY <1>6, <2>1, <2>2
<1>12. Len(LastHash(log)) < MaxEntries
  BY <1>6 DEF Insert
<1> QED
  BY <1>9, <1>11, <1>12 DEF Ledger!Next, Ledger!Record

\* Every step keeps the invariant, and is one of the ledger if it forks and changes
\* nothing.
LEMMA ManyStep ==
  ManyInv /\ [OverwrittenNext]_vars
    => /\ ManyInv'
       /\ changes' = 0 /\ Unforked(log') => [Ledger!Next]_(LastHash(log))
<1> SUFFICES ASSUME ManyInv, [OverwrittenNext]_vars
             PROVE  /\ ManyInv'
                    /\ changes' = 0 /\ Unforked(log') => [Ledger!Next]_(LastHash(log))
  OBVIOUS
<1>1. RecordedInv'
  BY RecordedStep, OverwriteKeepsRecords DEF ManyInv, OverwrittenNext
<1>2. CASE UNCHANGED <<log, changes>>
  BY <1>1, <1>2 DEF ManyInv, ForkedOrValid
<1>3. ASSUME NEW w \in Writers, Insert(w)
      PROVE  /\ ForkedOrValid'
             /\ changes' = 0 /\ Unforked(log') => Ledger!Next
  <2>1. changes' = changes
    BY <1>3 DEF Insert
  <2> QED
    BY <1>3, <2>1, InsertExtends DEF ForkedOrValid
<1>4. ASSUME NEW i \in DOMAIN log, NEW e \in Rewritten(i), Overwrite(i, e)
      PROVE  changes' # 0
  BY <1>4, OverwriteType DEF ManyInv, RecordedInv
<1> QED
  BY <1>1, <1>2, <1>3, <1>4
     DEF OverwrittenNext, Next, Select, GiveUp, vars, ManyInv, ForkedOrValid

\* Of an unforked chain a selection verifies exactly when it is the beginning of it:
\* no two rows hang on one hash, so each row but the first needs the row before it.
LEMMA ValidSelection ==
  ASSUME NEW entries \in Seq(Entry), Linked(entries), Unforked(entries),
         NEW rows \in SUBSET (DOMAIN entries)
  PROVE  VerifyChain(entries, rows) <=> \A i \in rows : i = 1 \/ i - 1 \in rows
<1>1. Len(entries) \in Nat /\ DOMAIN entries = 1..Len(entries)
  OBVIOUS
<1>2. ASSUME VerifyChain(entries, rows), NEW i \in rows, i # 1
      PROVE  i - 1 \in rows
  <2>1. i \in DOMAIN entries /\ 1 \in DOMAIN entries /\ entries # << >>
    BY <1>1
  <2>2. entries[i].prev # Genesis
    BY <1>2, <2>1 DEF Linked, Unforked
  <2>3. PICK k \in Before(rows, i) : entries[i].prev = entries[k].hash
    BY <1>2, <2>2 DEF VerifyChain
  <2>4. k \in rows /\ k < i /\ k \in 1..Len(entries) /\ i \in 1..Len(entries)
    BY <1>1, <2>3 DEF Before
  <2>5. k + 1 \in 2..Len(entries) /\ (k + 1) - 1 = k /\ k + 1 \in DOMAIN entries
    BY <1>1, <2>4
  <2>6. entries[k + 1].prev = entries[k].hash
    BY <2>5 DEF Linked
  <2>7. k + 1 = i
    BY <2>1, <2>3, <2>5, <2>6 DEF Unforked
  <2> QED
    BY <2>4, <2>7
<1>3. ASSUME \A i \in rows : i = 1 \/ i - 1 \in rows, NEW i \in rows
      PROVE  \/ Before(rows, i) = {} /\ entries[i].prev = Genesis
             \/ \E k \in Before(rows, i) :
                  /\ \A j \in Before(rows, i) : j <= k
                  /\ entries[i].prev = entries[k].hash
                  /\ entries[i].hash = ChainHash(entries[i].prev, entries[i].content)
  <2>0. i \in 1..Len(entries) /\ rows \subseteq 1..Len(entries) /\ entries # << >>
    BY <1>1
  <2>1. CASE i = 1
    <3>1. Before(rows, i) = {}
      BY <1>1, <2>0, <2>1 DEF Before
    <3> QED
      BY <2>0, <2>1, <3>1 DEF Linked
  <2>2. CASE i # 1
    <3>1. i - 1 \in Before(rows, i) /\ i \in 2..Len(entries)
      BY <1>1, <1>3, <2>0, <2>2 DEF Before
    <3>2. \A j \in Before(rows, i) : j <= i - 1
      BY <1>1, <2>0 DEF Before
    <3> QED
      BY <3>1, <3>2 DEF Linked
  <2> QED
    BY <2>1, <2>2
<1> QED
  BY <1>2, <1>3 DEF VerifyChain

\* However many connections write, query_audit says chain_valid of a log that nobody
\* changed and no two records raced in exactly when it selects the log's first rows.
THEOREM ChainStaysValid == OverwrittenSpec => []ChainValid
<1>1. ManyInv => ChainValid
  <2> SUFFICES ASSUME ManyInv, changes = 0, Unforked(log), NEW rows \in Selections(log)
               PROVE  VerifyChain(log, rows) <=> \A i \in rows : i = 1 \/ i - 1 \in rows
    BY DEF ChainValid
  <2>1. log \in Seq(Entry) /\ Linked(log)
    BY DEF ManyInv, RecordedInv, TypeOK, ForkedOrValid
  <2>2. rows \in SUBSET (DOMAIN log)
    BY DEF Selections, RowsOf
  <2> QED
    BY <2>1, <2>2, ValidSelection
<1>2. ManyInv /\ [OverwrittenNext]_vars => ManyInv'
  BY ManyStep
<1> QED
  BY <1>1, <1>2, ManyInit, PTL DEF OverwrittenSpec

\* However many connections write, the head of the log is a ledger that only grows,
\* as long as nobody changes a row and no two records raced.
THEOREM LedgerIsKept == OverwrittenSpec => LedgerKept
<1>1. ManyInv /\ [OverwrittenNext]_vars
        => /\ ManyInv'
           /\ [changes' = 0 /\ Unforked(log') => [Ledger!Next]_(LastHash(log))]_vars
  BY ManyStep
<1> QED
  BY <1>1, ManyInit, PTL DEF OverwrittenSpec, LedgerKept

-----------------------------------------------------------------------------
(* One writer *)

\* What the writer holds is still the last hash when it inserts.
HeldIsLast == \A w \in busy : prev[w] = LastHash(log)

\* The invariant of a single writer: an insertion finds the log as the
\* selection left it.
SingleInv == TypeOK /\ HeldIsLast /\ HeadIsComplete /\ Linked(log)

\* One writer keeps the invariant, and each of its steps is a step of the
\* ledger.
LEMMA SingleWriterStep ==
  ASSUME SingleWriter
  PROVE  SingleInv /\ [Next]_vars => SingleInv' /\ [Ledger!Next]_(LastHash(log))
<1> SUFFICES ASSUME SingleInv, [Next]_vars
             PROVE  /\ HeldIsLast' /\ HeadIsComplete' /\ Linked(log)'
                    /\ [Ledger!Next]_(LastHash(log))
  BY TypeStep DEF SingleInv
<1> USE DEF SingleInv
<1>1. ASSUME NEW w \in Writers, Select(w)
      PROVE  /\ HeldIsLast' /\ HeadIsComplete' /\ Linked(log)'
             /\ UNCHANGED LastHash(log)
  BY <1>1 DEF Select, HeldIsLast, HeadIsComplete, TypeOK
<1>2. ASSUME NEW w \in Writers, Insert(w)
      PROVE  HeldIsLast' /\ HeadIsComplete' /\ Linked(log)' /\ Ledger!Next
  <2>1. PICK c \in Contents : log' = Append(log, NewEntry(prev[w], c))
    BY <1>2 DEF Insert
  <2>2. prev[w] = LastHash(log)
    BY <1>2 DEF Insert, HeldIsLast
  <2>3. Linked(log)' /\ LastHash(log)' = Append(LastHash(log), c)
    BY <2>1, <2>2, AppendKeepsChain DEF TypeOK
  <2>4. busy' = {}
    BY <1>2 DEF Insert, SingleWriter, TypeOK
  <2>5. LastHash(log) \in Seq(Contents)
    BY EntryType DEF TypeOK, Hash
  <2>6. HeadIsComplete'
    <3>1. Len(log') = Len(log) + 1
      BY <2>1, EntryType DEF TypeOK
    <3>2. Len(LastHash(log)') = Len(LastHash(log)) + 1
      BY <2>3, <2>5
    <3> QED
      BY <3>1, <3>2 DEF HeadIsComplete
  <2>7. Len(LastHash(log)) < MaxEntries
    BY <1>2 DEF Insert, HeadIsComplete
  <2> QED
    BY <2>3, <2>4, <2>6, <2>7 DEF HeldIsLast, Ledger!Next, Ledger!Record
<1>3. ASSUME NEW w \in Writers, GiveUp(w)
      PROVE  /\ HeldIsLast' /\ HeadIsComplete' /\ Linked(log)'
             /\ UNCHANGED LastHash(log)
  BY <1>3 DEF GiveUp, HeldIsLast, HeadIsComplete
<1>4. CASE UNCHANGED vars
  BY <1>4 DEF vars, HeldIsLast, HeadIsComplete
<1> QED
  BY <1>1, <1>2, <1>3, <1>4 DEF Next

\* The invariant of a single writer holds initially.
LEMMA SingleWriterInit == Init => SingleInv
BY DEF Init, SingleInv, TypeOK, HeldIsLast, HeadIsComplete,
       Linked, LastHash, Genesis, Hash

\* As long as one connection writes, the log verifies after every record and
\* between any two statements.
THEOREM OneWriterVerifies ==
  ASSUME SingleWriter
  PROVE  Spec => []Verifies(log)
<1>1. SingleInv /\ [Next]_vars => SingleInv'
  BY SingleWriterStep
<1>2. SingleInv => Verifies(log)
  BY WholeChain DEF SingleInv, TypeOK
<1> QED
  BY <1>1, <1>2, SingleWriterInit, PTL DEF Spec

\* As long as one connection writes, the log implements the ledger: the last
\* hash commits to all that was recorded, and only ever grows by one entry.
THEOREM OneWriterKeepsTheLedger ==
  ASSUME SingleWriter
  PROVE  Spec => ImplementsLedger
<1>1. SingleInv /\ [Next]_vars => SingleInv' /\ [Ledger!Next]_(LastHash(log))
  BY SingleWriterStep
<1>2. Init => Ledger!Init
  BY DEF Init, Ledger!Init, LastHash, Genesis
<1> QED
  BY <1>1, <1>2, SingleWriterInit, PTL DEF Spec, ImplementsLedger, Ledger!Spec

=============================================================================
