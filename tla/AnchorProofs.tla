---------------------------- MODULE AnchorProofs ----------------------------
(***************************************************************************)
(* Proofs about Anchor, for any number of agents, entries and anchors, any *)
(* batch size and any limit on the queue.                                  *)
(***************************************************************************)
EXTENDS Anchor, FiniteSetTheorems, SequenceTheorems, TLAPS

-----------------------------------------------------------------------------
(* Sets of numbers in order *)

Rank(rows, k) == Cardinality({j \in rows : j <= k})

\* The ranks of the elements of a finite set of numbers are 1 to its size, each once.
LEMMA RankBijection ==
  ASSUME NEW rows \in SUBSET Nat, IsFiniteSet(rows)
  PROVE  /\ Cardinality(rows) \in Nat
         /\ \A k \in rows : Rank(rows, k) \in 1..Cardinality(rows)
         /\ \A n \in 1..Cardinality(rows) : \E k \in rows : Rank(rows, k) = n
<1> DEFINE upto(k) == {j \in rows : j <= k}
           size == Cardinality(rows)
           rank == [k \in rows |-> Rank(rows, k)]
<1>1. size \in Nat
  BY FS_CardinalityType
<1>2. \A k \in rows : IsFiniteSet(upto(k)) /\ Rank(rows, k) = Cardinality(upto(k))
                      /\ Cardinality(upto(k)) \in Nat /\ Cardinality(upto(k)) <= size
  BY FS_Subset, FS_CardinalityType DEF Rank
<1>3. \A k \in rows : Rank(rows, k) \in 1..size
  <2> SUFFICES ASSUME NEW k \in rows PROVE Cardinality(upto(k)) \in 1..size
    BY <1>2
  <2>1. k \in upto(k)
    OBVIOUS
  <2>2. Cardinality(upto(k)) # 0
    BY <1>2, <2>1, FS_EmptySet
  <2> QED
    BY <1>1, <1>2, <2>2
<1>4. \A k, l \in rows : k < l => Rank(rows, k) # Rank(rows, l)
  <2> SUFFICES ASSUME NEW k \in rows, NEW l \in rows, k < l,
                      Cardinality(upto(k)) = Cardinality(upto(l))
               PROVE  FALSE
    BY <1>2
  <2>1. upto(k) \subseteq upto(l)
    <3> SUFFICES ASSUME NEW j \in rows, j <= k PROVE j <= l
      OBVIOUS
    <3>1. j \in Nat /\ k \in Nat /\ l \in Nat
      OBVIOUS
    <3> QED
      BY <3>1
  <2>2. upto(k) = upto(l)
    BY <1>2, <2>1, FS_Subset
  <2>3. l \in upto(l) /\ l \notin upto(k)
    OBVIOUS
  <2> QED
    BY <2>2, <2>3
<1>5. rank \in Injection(rows, 1..size)
  BY <1>3, <1>4 DEF Injection, IsInjective
<1>6. IsFiniteSet(1..size) /\ Cardinality(1..size) = size
  BY <1>1, FS_Interval
<1>7. rank \in Surjection(rows, 1..size)
  BY <1>5, <1>6, FS_Injection
<1> QED
  BY <1>1, <1>3, <1>7 DEF Surjection

\* A finite set of numbers that is not empty has a greatest element.
LEMMA Greatest ==
  ASSUME NEW rows \in SUBSET Nat, IsFiniteSet(rows), rows # {}
  PROVE  \E k \in rows : \A j \in rows : j <= k
<1>1. Cardinality(rows) \in Nat /\ Cardinality(rows) # 0
  BY FS_CardinalityType, FS_EmptySet
<1>2. PICK k \in rows : Rank(rows, k) = Cardinality(rows)
  BY <1>1, RankBijection
<1>3. {j \in rows : j <= k} = rows
  BY <1>2, FS_Subset DEF Rank
<1> QED
  BY <1>3

\* ORDER BY id returns each row once.
LEMMA InOrderOnce ==
  ASSUME NEW rows \in SUBSET Nat, IsFiniteSet(rows)
  PROVE  /\ InOrder(rows) \in Seq(rows)
         /\ \A m, n \in DOMAIN InOrder(rows) : InOrder(rows)[m] = InOrder(rows)[n] => m = n
<1> DEFINE size == Cardinality(rows)
<1>1. size \in Nat /\ \A n \in 1..size : \E k \in rows : Rank(rows, k) = n
  BY RankBijection
<1>2. InOrder(rows) = [n \in 1..size |-> CHOOSE k \in rows : Rank(rows, k) = n]
  BY DEF InOrder, Rank
<1>3. \A n \in 1..size : InOrder(rows)[n] \in rows /\ Rank(rows, InOrder(rows)[n]) = n
  BY <1>1, <1>2
<1>4. DOMAIN InOrder(rows) = 1..size /\ InOrder(rows) = [n \in 1..size |-> InOrder(rows)[n]]
  BY <1>2
<1>5. InOrder(rows) \in Seq(rows)
  BY <1>1, <1>3, <1>4, IsASeq
<1> QED
  BY <1>3, <1>4, <1>5

-----------------------------------------------------------------------------
(* The queue: what is submitted and counted *)

\* What the cycle has gathered is recorded.
Recorded(e) == e \in Entries /\ e[2] \in DOMAIN logs[e[1]]

EntriesRecorded ==
  /\ \A a \in Agents : Len(logs[a]) <= MaxEntries
  /\ \A n \in DOMAIN fresh : Recorded(fresh[n])

\* What the cycle is about to submit is waiting, and is there once.
QueueWaits ==
  /\ \A n \in DOMAIN queue : Waiting(queue[n])
  /\ \A m, n \in DOMAIN queue : queue[m] = queue[n] => m = n

\* Between the transaction and the update the answer is a transaction that no
\* submitted anchor names.
AnswerIsNew ==
  pc = "submitted" =>
    /\ queue # << >> /\ answer \in DOMAIN ledger
    /\ \A i \in DOMAIN anchors : anchors[i].status = "submitted" => anchors[i].digest # answer

WaitingSet == {i \in DOMAIN anchors : Waiting(i)}

\* pending_count lags behind an anchor that was saved and one that was updated.
Counted ==
  /\ pc = "saved" => pending < Cardinality(WaitingSet)
  /\ pc = "updated" => pending <= Cardinality(WaitingSet) + 1
  /\ pc \notin {"saved", "updated"} => pending <= Cardinality(WaitingSet)

QueueInv ==
  /\ TypeOK
  /\ EntriesRecorded
  /\ QueueWaits
  /\ AnswerIsNew
  /\ SubmittedHasTransaction
  /\ Counted

\* update_anchor_status changes the status and the digest of one anchor and nothing
\* else.
LEMMA UpdateRow ==
  ASSUME TypeOK, Head(queue) \in DOMAIN anchors,
         NEW status \in Statuses, NEW digest \in Nat, Update(status, digest)
  PROVE  /\ anchors' \in Seq(Anchors) /\ DOMAIN anchors' = DOMAIN anchors
         /\ anchors'[Head(queue)].status = status
         /\ anchors'[Head(queue)].digest = digest
         /\ anchors'[Head(queue)].batch = anchors[Head(queue)].batch
         /\ anchors'[Head(queue)].last = anchors[Head(queue)].last
         /\ \A i \in DOMAIN anchors : i # Head(queue) => anchors'[i] = anchors[i]
<1> DEFINE h == Head(queue)
           row == [anchors[h] EXCEPT !.status = status, !.digest = digest]
<1>1. anchors \in Seq(Anchors) /\ h \in DOMAIN anchors
  BY DEF TypeOK
<1>2. anchors[h] \in Anchors
  BY <1>1, ElementOfSeq, LenProperties
<1>3. /\ row \in Anchors /\ row.status = status /\ row.digest = digest
      /\ row.batch = anchors[h].batch /\ row.last = anchors[h].last
  BY <1>2 DEF Anchors
<1>4. anchors' = [anchors EXCEPT ![h] = row]
  BY DEF Update
<1> HIDE DEF row, h
<1>5. DOMAIN anchors = 1..Len(anchors) /\ Len(anchors) \in Nat
  BY <1>1, LenProperties
<1>6. anchors' \in Seq(Anchors) /\ Len(anchors') = Len(anchors)
  BY <1>1, <1>3, <1>4, <1>5, ExceptSeq
<1>7. DOMAIN anchors' = DOMAIN anchors
  BY <1>4
<1> QED
  BY <1>1, <1>3, <1>4, <1>6, <1>7 DEF h

\* There are finitely many anchors.
LEMMA AnchorsFinite ==
  ASSUME NEW table \in Seq(Anchors), NEW some \in SUBSET DOMAIN table
  PROVE  /\ IsFiniteSet(some) /\ Cardinality(some) \in Nat
         /\ some \in SUBSET Nat /\ DOMAIN table = 1..Len(table) /\ Len(table) \in Nat
<1>1. DOMAIN table = 1..Len(table) /\ Len(table) \in Nat
  BY LenProperties
<1>2. IsFiniteSet(1..Len(table))
  BY <1>1, FS_Interval
<1> QED
  BY <1>1, <1>2, FS_Subset, FS_CardinalityType

\* The rows that read_audit_hashes returns are entries of the agent that are newer
\* than the watermark, each once.
LEMMA NewEntriesOnce ==
  ASSUME TypeOK, EntriesRecorded, NEW a \in Agents
  PROVE  /\ NewEntries(a) \in Seq(Entries)
         /\ \A n \in DOMAIN NewEntries(a) :
              /\ NewEntries(a)[n][1] = a
              /\ NewEntries(a)[n][2] \in DOMAIN logs[a]
              /\ logs[a][NewEntries(a)[n][2]] > since
         /\ \A m, n \in DOMAIN NewEntries(a) : NewEntries(a)[m] = NewEntries(a)[n] => m = n
<1> DEFINE rows == {k \in DOMAIN logs[a] : logs[a][k] > since}
           order == InOrder(rows)
<1>1. DOMAIN logs[a] = 1..Len(logs[a]) /\ Len(logs[a]) \in Nat /\ Len(logs[a]) <= MaxEntries
  BY LenProperties DEF TypeOK, EntriesRecorded
<1>2. rows \in SUBSET Nat /\ IsFiniteSet(rows) /\ rows \subseteq 1..MaxEntries
  <2>1. IsFiniteSet(1..Len(logs[a]))
    BY <1>1, FS_Interval
  <2>2. rows \subseteq 1..Len(logs[a])
    BY <1>1
  <2>3. 1..Len(logs[a]) \subseteq 1..MaxEntries
    BY <1>1, AnchorAssumption
  <2> QED
    BY <2>1, <2>2, <2>3, FS_Subset
<1>3. /\ order \in Seq(rows)
      /\ \A m, n \in DOMAIN order : order[m] = order[n] => m = n
  BY <1>2, InOrderOnce
<1>4. NewEntries(a) = [n \in DOMAIN order |-> <<a, order[n]>>]
  BY DEF NewEntries
<1>5. \A n \in DOMAIN order : order[n] \in rows
  BY <1>3, LenProperties
<1>6. DOMAIN order = 1..Len(order) /\ Len(order) \in Nat
  BY <1>3, LenProperties
<1> HIDE DEF order
<1>7. NewEntries(a) \in Seq(Entries)
  <2>1. \A n \in 1..Len(order) : <<a, order[n]>> \in Entries
    BY <1>2, <1>5, <1>6 DEF Entries
  <2> QED
    BY <1>4, <1>6, <2>1, IsASeq
<1>8. DOMAIN NewEntries(a) = DOMAIN order
      /\ \A n \in DOMAIN order : NewEntries(a)[n] = <<a, order[n]>>
  BY <1>4
<1> QED
  BY <1>3, <1>5, <1>7, <1>8

\* Steps that leave the anchors as they are, and the queue or empty it.
LEMMA AsideStep ==
  ASSUME QueueInv, TypeOK', EntriesRecorded', UNCHANGED <<anchors, ledger>>,
         queue' \in {queue, << >>},
         \/ UNCHANGED <<pc, queue, answer, pending>>
         \/ /\ pc' \notin {"saved", "submitted", "updated"}
            /\ \/ pending' = 0
               \/ pending' = pending /\ pc \notin {"saved", "updated"}
  PROVE  QueueInv'
<1> USE DEF QueueInv
<1>1. QueueWaits' /\ AnswerIsNew' /\ SubmittedHasTransaction'
  BY DEF QueueWaits, AnswerIsNew, SubmittedHasTransaction, Waiting
<1>2. WaitingSet' = WaitingSet
  BY DEF WaitingSet, Waiting
<1>3. Cardinality(WaitingSet) \in Nat
  BY AnchorsFinite DEF TypeOK, WaitingSet
<1>4. Counted'
  BY <1>2, <1>3 DEF Counted
<1> QED
  BY <1>1, <1>4

\* save_anchor adds one that waits.
LEMMA SaveQueue ==
  ASSUME QueueInv, Save, TypeOK', EntriesRecorded'
  PROVE  QueueInv'
<1> USE DEF QueueInv
<1> DEFINE row == [batch |-> Chunk, last |-> LastOf(Chunk), status |-> "pending",
                   digest |-> None]
           top == Len(anchors) + 1
<1>1. /\ pc = "read" /\ anchors' = Append(anchors, row) /\ pending' = pending
      /\ pc' = "saved" /\ UNCHANGED <<logs, ledger, queue>>
  BY DEF Save
<1>2. row.status = "pending"
  OBVIOUS
<1> HIDE DEF row
<1>3. /\ anchors \in Seq(Anchors) /\ DOMAIN anchors = 1..Len(anchors) /\ Len(anchors) \in Nat
  BY LenProperties DEF TypeOK
<1>4. /\ DOMAIN anchors' = 1..top /\ anchors'[top] = row /\ Len(anchors') = top
      /\ \A i \in DOMAIN anchors : anchors'[i] = anchors[i]
  <2>1. anchors' \in Seq(Anchors)
    BY DEF TypeOK
  <2> QED
    BY <1>1, <1>3, <2>1, LenProperties
<1>5. \A i \in DOMAIN anchors : (Waiting(i))' <=> Waiting(i)
  BY <1>4 DEF Waiting
<1>6. QueueWaits'
  <2>1. \A n \in DOMAIN queue : queue[n] \in DOMAIN anchors
    BY LenProperties DEF TypeOK
  <2> QED
    BY <1>1, <1>4, <2>1 DEF QueueWaits, Waiting
<1>7. AnswerIsNew' /\ SubmittedHasTransaction'
  <2>1. ASSUME NEW i \in DOMAIN anchors', anchors'[i].status = "submitted"
        PROVE  i \in DOMAIN anchors /\ anchors'[i] = anchors[i]
    BY <1>2, <1>3, <1>4, <2>1
  <2> QED
    BY <1>1, <2>1 DEF AnswerIsNew, SubmittedHasTransaction
<1>8. Counted'
  <2>1. WaitingSet' = WaitingSet \cup {top} /\ top \notin WaitingSet
    BY <1>2, <1>3, <1>4 DEF WaitingSet, Waiting
  <2>2. IsFiniteSet(WaitingSet) /\ Cardinality(WaitingSet) \in Nat
    BY <1>3, AnchorsFinite DEF WaitingSet
  <2>3. Cardinality(WaitingSet') = Cardinality(WaitingSet) + 1
    BY <2>1, <2>2, FS_AddElement
  <2>4. pending \in Nat /\ pending <= Cardinality(WaitingSet)
    BY <1>1 DEF Counted, TypeOK
  <2>5. pending' < Cardinality(WaitingSet')
    BY <1>1, <2>2, <2>3, <2>4
  <2> QED
    BY <1>1, <2>5 DEF Counted
<1> QED
  BY <1>6, <1>7, <1>8

\* An anchor is counted after it was saved, and no longer after it was updated.
LEMMA CountQueue ==
  ASSUME QueueInv, Count \/ Uncount
  PROVE  QueueInv'
<1> USE DEF QueueInv
<1>1. /\ UNCHANGED <<now, logs, anchors, ledger, online, since, unread, fresh, queue, answer>>
      /\ pc' \in {"list", "read", "submit"}
      /\ \/ pc = "saved" /\ pending' = pending + 1
         \/ pc = "updated" /\ pending' = IF pending > 0 THEN pending - 1 ELSE 0
  BY DEF Count, Uncount
<1>2. TypeOK' /\ EntriesRecorded' /\ QueueWaits' /\ AnswerIsNew' /\ SubmittedHasTransaction'
  <2>1. pending' \in Nat
    BY <1>1 DEF TypeOK
  <2>2. TypeOK'
    BY <1>1, <2>1 DEF TypeOK
  <2> QED
    BY <1>1, <2>2 DEF EntriesRecorded, Recorded, QueueWaits, AnswerIsNew,
                      SubmittedHasTransaction, Waiting
<1>3. WaitingSet' = WaitingSet /\ Cardinality(WaitingSet) \in Nat
  BY <1>1, AnchorsFinite DEF TypeOK, WaitingSet, Waiting
<1>4. Counted'
  <2>1. pending \in Nat
    BY DEF TypeOK
  <2>2. pending' <= Cardinality(WaitingSet)
    BY <1>1, <1>3, <2>1 DEF Counted
  <2> QED
    BY <1>1, <1>3, <2>2 DEF Counted
<1> QED
  BY <1>2, <1>4

\* The head of the queue and the rest of it.
LEMMA QueueHead ==
  ASSUME QueueInv, queue # << >>
  PROVE  /\ Head(queue) \in DOMAIN anchors /\ Waiting(Head(queue))
         /\ Tail(queue) \in Seq(DOMAIN anchors)
         /\ \A n \in DOMAIN Tail(queue) :
              /\ Waiting(Tail(queue)[n]) /\ Tail(queue)[n] # Head(queue)
              /\ Tail(queue)[n] \in DOMAIN anchors
         /\ \A m, n \in DOMAIN Tail(queue) : Tail(queue)[m] = Tail(queue)[n] => m = n
<1> USE DEF QueueInv
<1>1. queue \in Seq(DOMAIN anchors)
  BY DEF TypeOK
<1>2. /\ DOMAIN queue = 1..Len(queue) /\ Len(queue) \in Nat \ {0}
      /\ Head(queue) = queue[1] /\ \A n \in DOMAIN queue : queue[n] \in DOMAIN anchors
  BY <1>1, LenProperties, EmptySeq
<1>3. /\ Tail(queue) \in Seq(DOMAIN anchors) /\ Len(Tail(queue)) = Len(queue) - 1
      /\ DOMAIN Tail(queue) = 1..(Len(queue) - 1)
      /\ \A n \in 1..(Len(queue) - 1) : Tail(queue)[n] = queue[n + 1]
  BY <1>1, HeadTailProperties, LenProperties
<1>4. \A n \in DOMAIN Tail(queue) : n + 1 \in DOMAIN queue /\ n + 1 # 1
                                    /\ Tail(queue)[n] = queue[n + 1]
  BY <1>2, <1>3
<1>5. 1 \in DOMAIN queue
  BY <1>2
<1>6. \A n \in DOMAIN Tail(queue) : /\ Waiting(Tail(queue)[n]) /\ Tail(queue)[n] # Head(queue)
                                    /\ Tail(queue)[n] \in DOMAIN anchors
  BY <1>2, <1>4, <1>5 DEF QueueWaits
<1>7. \A m, n \in DOMAIN Tail(queue) : Tail(queue)[m] = Tail(queue)[n] => m = n
  BY <1>3, <1>4 DEF QueueWaits
<1> QED
  BY <1>2, <1>3, <1>5, <1>6, <1>7 DEF QueueWaits

\* get_pending_anchors queues anchors that wait, each once.
LEMMA ListQueue ==
  ASSUME QueueInv, List
  PROVE  QueueInv'
<1> USE DEF QueueInv
<1> DEFINE all == InOrder(WaitingSet)
           top == IF Len(all) < PendingLimit THEN Len(all) ELSE PendingLimit
<1>1. /\ pc' = "submit" /\ queue' = SubSeq(all, 1, top)
      /\ UNCHANGED <<now, logs, anchors, ledger, online, since, unread, fresh, answer,
                     pending>>
      /\ pc = "list"
  BY DEF List, WaitingSet
<1>2. IsFiniteSet(WaitingSet) /\ WaitingSet \in SUBSET Nat /\ Cardinality(WaitingSet) \in Nat
  BY AnchorsFinite DEF WaitingSet, TypeOK
<1>3. /\ all \in Seq(WaitingSet)
      /\ \A m, n \in DOMAIN all : all[m] = all[n] => m = n
  BY <1>2, InOrderOnce
<1>4. DOMAIN all = 1..Len(all) /\ Len(all) \in Nat /\ \A n \in DOMAIN all : all[n] \in WaitingSet
  BY <1>3, LenProperties
<1> HIDE DEF all
<1>5. top \in 0..Len(all)
  BY <1>4, AnchorAssumption
<1> HIDE DEF top
<1>6. /\ queue' \in Seq(WaitingSet) /\ DOMAIN queue' = 1..top
      /\ \A n \in 1..top : queue'[n] = all[n]
  <2>1. \A n \in 1..top : all[n] \in WaitingSet
    BY <1>4, <1>5
  <2>2. /\ queue' \in Seq(WaitingSet) /\ Len(queue') = top
        /\ \A n \in 1..top : queue'[n] = all[1 + n - 1]
    BY <1>1, <1>5, <2>1, SubSeqProperties
  <2> QED
    BY <1>5, <2>2, LenProperties
<1>7. \A n \in DOMAIN queue' : n \in DOMAIN all /\ queue'[n] = all[n]
  BY <1>4, <1>5, <1>6
<1>8. QueueWaits'
  BY <1>1, <1>3, <1>4, <1>7 DEF QueueWaits, WaitingSet, Waiting
<1>9. TypeOK'
  <2>1. queue' \in Seq(DOMAIN anchors)
    BY <1>6, SeqMonotonic DEF WaitingSet
  <2> QED
    BY <1>1, <2>1 DEF TypeOK
<1>10. EntriesRecorded' /\ AnswerIsNew' /\ SubmittedHasTransaction' /\ Counted'
  BY <1>1 DEF EntriesRecorded, Recorded, AnswerIsNew, SubmittedHasTransaction,
              Counted, WaitingSet, Waiting
<1> QED
  BY <1>8, <1>9, <1>10

\* A transaction is appended to the ledger; those before it stay.
LEMMA LedgerGrows ==
  ASSUME TypeOK, ledger' \in {ledger} \cup Executed
  PROVE  /\ ledger' \in Seq(Transactions) /\ DOMAIN ledger \subseteq DOMAIN ledger'
         /\ ledger' \in Executed =>
              /\ Len(ledger') \in DOMAIN ledger' /\ Len(ledger') \notin DOMAIN ledger
              /\ Len(ledger') \in Nat
<1>1. ledger \in Seq(Transactions) /\ DOMAIN ledger = 1..Len(ledger) /\ Len(ledger) \in Nat
  BY LenProperties DEF TypeOK
<1>2. ASSUME ledger' \in Executed
      PROVE  ledger' \in Seq(Transactions) /\ Len(ledger') = Len(ledger) + 1
  <2>1. PICK ok \in BOOLEAN : ledger' = Append(ledger, [amount |-> 1, ok |-> ok])
    BY <1>2 DEF Executed
  <2>2. [amount |-> 1, ok |-> ok] \in Transactions
    BY DEF Transactions
  <2> QED
    BY <1>1, <2>1, <2>2, AppendProperties
<1>3. ledger' \in Executed => DOMAIN ledger' = 1..(Len(ledger) + 1)
  BY <1>2, LenProperties
<1> QED
  BY <1>1, <1>2, <1>3

\* A transaction is executed; the anchor is not updated yet.
LEMMA SubmitQueue ==
  ASSUME QueueInv, Submit
  PROVE  QueueInv'
<1> USE DEF QueueInv
<1>1. /\ pc = "submit" /\ queue # << >> /\ ledger' \in Executed /\ answer' = Len(ledger')
      /\ pc' = "submitted"
      /\ UNCHANGED <<now, logs, anchors, online, since, unread, fresh, queue, pending>>
  BY DEF Submit
<1>2. /\ ledger' \in Seq(Transactions) /\ DOMAIN ledger \subseteq DOMAIN ledger'
      /\ answer' \in DOMAIN ledger' /\ answer' \notin DOMAIN ledger /\ answer' \in Nat
  BY <1>1, LedgerGrows
<1>3. TypeOK'
  BY <1>1, <1>2 DEF TypeOK
<1>4. AnswerIsNew' /\ SubmittedHasTransaction'
  BY <1>1, <1>2 DEF AnswerIsNew, SubmittedHasTransaction
<1>5. EntriesRecorded' /\ QueueWaits' /\ Counted'
  BY <1>1 DEF EntriesRecorded, Recorded, QueueWaits, Counted, WaitingSet, Waiting
<1> QED
  BY <1>3, <1>4, <1>5

\* The status of the head of the queue is set, and the queue goes on.
LEMMA UpdateQueue ==
  ASSUME QueueInv, queue # << >>, pc \in {"submit", "submitted"},
         NEW status \in {"submitted", "failed"}, NEW digest \in Nat,
         Update(status, digest), ledger' \in Seq(Transactions),
         DOMAIN ledger \subseteq DOMAIN ledger',
         \/ /\ status = "submitted" /\ pc' = "updated" /\ digest \in DOMAIN ledger'
            /\ \A i \in DOMAIN anchors :
                 anchors[i].status = "submitted" => anchors[i].digest # digest
         \/ status = "failed" /\ pc' = "submit",
         answer' \in Nat, UNCHANGED <<now, logs, online, since, unread, fresh, pending>>
  PROVE  QueueInv'
<1> USE DEF QueueInv
<1> DEFINE h == Head(queue)
<1>1. /\ h \in DOMAIN anchors /\ Waiting(h) /\ Tail(queue) \in Seq(DOMAIN anchors)
      /\ \A n \in DOMAIN Tail(queue) :
           /\ Waiting(Tail(queue)[n]) /\ Tail(queue)[n] # h /\ Tail(queue)[n] \in DOMAIN anchors
      /\ \A m, n \in DOMAIN Tail(queue) : Tail(queue)[m] = Tail(queue)[n] => m = n
  BY QueueHead
<1>2. /\ anchors' \in Seq(Anchors) /\ DOMAIN anchors' = DOMAIN anchors
      /\ anchors'[h].status = status /\ anchors'[h].digest = digest
      /\ \A i \in DOMAIN anchors : i # h => anchors'[i] = anchors[i]
  BY <1>1, UpdateRow DEF Statuses
<1>3. queue' = Tail(queue)
  BY DEF Update
<1> HIDE DEF h
<1>4. TypeOK'
  BY <1>1, <1>2, <1>3 DEF TypeOK
<1>5. QueueWaits'
  BY <1>1, <1>2, <1>3 DEF QueueWaits, Waiting
<1>6. EntriesRecorded' /\ AnswerIsNew'
  BY DEF EntriesRecorded, Recorded, AnswerIsNew
<1>7. SubmittedHasTransaction'
  <2> DEFINE S == {i \in DOMAIN anchors : anchors[i].status = "submitted"}
             T == {i \in DOMAIN anchors' : anchors'[i].status = "submitted"}
  <2>1. /\ \A i \in S : anchors[i].digest \in DOMAIN ledger
        /\ \A i, j \in S : anchors[i].digest = anchors[j].digest => i = j
    BY DEF SubmittedHasTransaction
  <2>2. ASSUME NEW i \in T
        PROVE  \/ i \in S /\ anchors'[i] = anchors[i]
               \/ i = h /\ status = "submitted" /\ anchors'[i].digest = digest
    BY <1>2
  <2>3. ASSUME NEW i \in T PROVE anchors'[i].digest \in DOMAIN ledger'
    BY <2>1, <2>2
  <2>4. ASSUME NEW i \in T, NEW j \in T, anchors'[i].digest = anchors'[j].digest
        PROVE  i = j
    <3>1. CASE i = h /\ j = h
      BY <3>1
    <3>2. CASE i # h /\ j # h
      BY <2>1, <2>2, <2>4, <3>2
    <3>3. CASE i = h /\ j # h
      BY <1>2, <2>2, <2>4, <3>3
    <3>4. CASE i # h /\ j = h
      BY <1>2, <2>2, <2>4, <3>4
    <3> QED
      BY <3>1, <3>2, <3>3, <3>4
  <2> QED
    BY <2>3, <2>4 DEF SubmittedHasTransaction
<1>8. Counted'
  <2>1. IsFiniteSet(WaitingSet) /\ Cardinality(WaitingSet) \in Nat /\ h \in WaitingSet
    BY <1>1, AnchorsFinite DEF WaitingSet, TypeOK
  <2>2. pending \in Nat /\ pending <= Cardinality(WaitingSet) /\ pending' = pending
    BY DEF Counted, TypeOK
  <2>3. CASE status = "failed"
    <3>1. WaitingSet' = WaitingSet
      <4>1. ASSUME NEW i \in DOMAIN anchors
            PROVE  anchors'[i].status \in {"pending", "failed"} <=> Waiting(i)
        <5>1. CASE i = h
          BY <1>1, <1>2, <2>3, <5>1
        <5>2. CASE i # h
          BY <1>2, <5>2 DEF Waiting
        <5> QED
          BY <5>1, <5>2
      <4> QED
        BY <1>2, <4>1 DEF WaitingSet, Waiting
    <3> QED
      BY <2>2, <2>3, <3>1 DEF Counted
  <2>4. CASE status = "submitted"
    <3>1. WaitingSet' = WaitingSet \ {h}
      BY <1>2, <2>4 DEF WaitingSet, Waiting
    <3>2. Cardinality(WaitingSet') = Cardinality(WaitingSet) - 1
      BY <2>1, <3>1, FS_RemoveElement
    <3>3. pending' <= Cardinality(WaitingSet') + 1
      BY <2>1, <2>2, <3>2
    <3> QED
      BY <2>4, <3>3 DEF Counted
  <2> QED
    BY <2>3, <2>4
<1> QED
  BY <1>4, <1>5, <1>6, <1>7, <1>8

\* The greatest timestamp of a batch of recorded entries is one, and none is later.
LEMMA LastOfBatch ==
  ASSUME TypeOK, NEW batch \in Seq(Entries), batch # << >>,
         \A n \in DOMAIN batch : Recorded(batch[n])
  PROVE  /\ LastOf(batch) \in Times
         /\ \A n \in DOMAIN batch : Stamp(batch[n]) <= LastOf(batch)
<1> DEFINE stamps == {Stamp(batch[n]) : n \in DOMAIN batch}
<1>1. stamps \subseteq Times
  BY LenProperties DEF TypeOK, Recorded, Stamp, Entries
<1>2. IsFiniteSet(stamps)
  <2>1. IsFiniteSet(1..MaxTime)
    BY AnchorAssumption, FS_Interval
  <2> QED
    BY <1>1, <2>1, FS_Subset DEF Times
<1>3. stamps # {}
  BY EmptySeq, LenProperties
<1>4. stamps \in SUBSET Nat
  BY <1>1 DEF Times
<1>5. \E t \in stamps : \A u \in stamps : u <= t
  BY <1>2, <1>3, <1>4, Greatest
<1>6. LastOf(batch) \in stamps /\ \A u \in stamps : u <= LastOf(batch)
  BY <1>5 DEF LastOf
<1> QED
  BY <1>1, <1>6

\* Arithmetic of positions.
LEMMA Positions ==
  ASSUME NEW len \in Nat, NEW size \in 0..len
  PROVE  /\ len - (size + 1) + 1 = len - size
         /\ (IF size + 1 <= len THEN len - (size + 1) + 1 ELSE 0) = len - size
         /\ \A n \in 1..(len - size) : (size + 1) + n - 1 = size + n /\ size + n \in 1..len
         /\ \A n \in (size + 1)..len : n \in 1..len
OBVIOUS

\* The rest of a sequence after some of its elements.
LEMMA SuffixProperties ==
  ASSUME NEW S, NEW s \in Seq(S), NEW size \in 0..Len(s),
         NEW rest, rest = SubSeq(s, size + 1, Len(s))
  PROVE  /\ rest \in Seq(S) /\ Len(rest) = Len(s) - size
         /\ \A n \in 1..(Len(s) - size) : rest[n] = s[size + n]
<1> DEFINE len == Len(s)
<1>1. len \in Nat /\ \A n \in 1..len : s[n] \in S
  BY LenProperties
<1>2. /\ len - (size + 1) + 1 = len - size
      /\ (IF size + 1 <= len THEN len - (size + 1) + 1 ELSE 0) = len - size
      /\ \A n \in 1..(len - size) : (size + 1) + n - 1 = size + n /\ size + n \in 1..len
      /\ \A n \in (size + 1)..len : n \in 1..len
  BY <1>1, Positions
<1>3. size + 1 \in Int /\ len \in Int /\ rest = SubSeq(s, size + 1, len)
  BY <1>1
<1>4. \A n \in (size + 1)..len : s[n] \in S
  BY <1>1, <1>2
<1> HIDE DEF len
<1>5. /\ SubSeq(s, size + 1, len) \in Seq(S)
      /\ Len(SubSeq(s, size + 1, len)) = IF size + 1 <= len THEN len - (size + 1) + 1 ELSE 0
      /\ \A n \in 1..(len - (size + 1) + 1) : SubSeq(s, size + 1, len)[n] = s[(size + 1) + n - 1]
  BY <1>3, <1>4, SubSeqProperties
<1>6. rest \in Seq(S) /\ Len(rest) = len - size
  BY <1>2, <1>3, <1>5
<1>7. ASSUME NEW n \in 1..(len - size) PROVE rest[n] = s[size + n]
  <2>1. n \in 1..(len - (size + 1) + 1) /\ (size + 1) + n - 1 = size + n
    BY <1>2
  <2> QED
    BY <1>3, <1>5, <2>1
<1> QED
  BY <1>6, <1>7 DEF len

\* A chunk is a beginning of what was gathered; the rest stays.
LEMMA ChunkIsPrefix ==
  ASSUME TypeOK, fresh # << >>,
         NEW rest, rest = SubSeq(fresh, Len(Chunk) + 1, Len(fresh))
  PROVE  /\ Chunk \in Seq(Entries) /\ Chunk # << >> /\ Len(Chunk) \in 1..Len(fresh)
         /\ DOMAIN fresh = 1..Len(fresh) /\ Len(fresh) \in Nat
         /\ DOMAIN Chunk = 1..Len(Chunk) /\ \A n \in 1..Len(Chunk) : Chunk[n] = fresh[n]
         /\ rest \in Seq(Entries) /\ DOMAIN rest = 1..(Len(fresh) - Len(Chunk))
         /\ \A n \in DOMAIN rest : rest[n] = fresh[Len(Chunk) + n]
<1> DEFINE size == IF Len(fresh) < BatchSize THEN Len(fresh) ELSE BatchSize
<1>1. fresh \in Seq(Entries)
  BY DEF TypeOK
<1>2. /\ DOMAIN fresh = 1..Len(fresh) /\ Len(fresh) \in Nat \ {0}
      /\ \A n \in 1..Len(fresh) : fresh[n] \in Entries
  BY <1>1, LenProperties, EmptySeq
<1>3. size \in 1..Len(fresh) /\ Chunk = SubSeq(fresh, 1, size)
  BY <1>2, AnchorAssumption DEF Chunk
<1> HIDE DEF size
<1>4. /\ Chunk \in Seq(Entries) /\ Len(Chunk) = size
      /\ \A n \in 1..size : Chunk[n] = fresh[n]
  <2>1. \A n \in 1..size : fresh[n] \in Entries
    BY <1>2, <1>3
  <2>2. /\ Chunk \in Seq(Entries) /\ Len(Chunk) = size
        /\ \A n \in 1..size : Chunk[n] = fresh[1 + n - 1]
    BY <1>3, <2>1, SubSeqProperties
  <2>3. \A n \in 1..size : 1 + n - 1 = n
    BY <1>3
  <2> QED
    BY <2>2, <2>3
<1>5. /\ rest \in Seq(Entries) /\ Len(rest) = Len(fresh) - size
      /\ \A n \in 1..(Len(fresh) - size) : rest[n] = fresh[size + n]
  <2>1. size \in 0..Len(fresh)
    BY <1>2, <1>3
  <2>2. rest = SubSeq(fresh, size + 1, Len(fresh))
    BY <1>4
  <2> QED
    BY <1>1, <2>1, <2>2, SuffixProperties, SMTT(30)
<1>6. DOMAIN Chunk = 1..size /\ Chunk # << >>
  BY <1>3, <1>4, LenProperties, EmptySeq
<1>7. DOMAIN rest = 1..(Len(fresh) - size)
  BY <1>5, LenProperties
<1>8. \A n \in DOMAIN rest : rest[n] = fresh[Len(Chunk) + n]
  BY <1>4, <1>5, <1>7
<1> QED
  BY <1>2, <1>3, <1>4, <1>5, <1>6, <1>7, <1>8

\* A batch is saved with its type.
LEMMA SaveType ==
  ASSUME TypeOK, EntriesRecorded, Save
  PROVE  TypeOK' /\ EntriesRecorded'
<1> DEFINE row == [batch |-> Chunk, last |-> LastOf(Chunk), status |-> "pending",
                   digest |-> None]
<1>1. /\ fresh # << >> /\ anchors' = Append(anchors, row) /\ pc' = "saved"
      /\ fresh' = SubSeq(fresh, Len(Chunk) + 1, Len(fresh))
      /\ UNCHANGED <<now, logs, ledger, online, since, unread, queue, answer, pending>>
  BY DEF Save
<1>2. /\ Chunk \in Seq(Entries) /\ Chunk # << >> /\ Len(Chunk) \in 1..Len(fresh)
      /\ DOMAIN fresh = 1..Len(fresh) /\ Len(fresh) \in Nat
      /\ DOMAIN Chunk = 1..Len(Chunk) /\ \A n \in 1..Len(Chunk) : Chunk[n] = fresh[n]
      /\ fresh' \in Seq(Entries) /\ DOMAIN fresh' = 1..(Len(fresh) - Len(Chunk))
      /\ \A n \in DOMAIN fresh' : fresh'[n] = fresh[Len(Chunk) + n]
  BY <1>1, ChunkIsPrefix
<1>3. \A n \in DOMAIN Chunk : n \in DOMAIN fresh /\ Recorded(Chunk[n])
  BY <1>2 DEF EntriesRecorded
<1>4. LastOf(Chunk) \in 0..MaxTime
  <2>1. LastOf(Chunk) \in Times
    BY <1>2, <1>3, LastOfBatch
  <2> QED
    BY <2>1, AnchorAssumption DEF Times
<1>5. row \in Anchors
  BY <1>2, <1>4 DEF Anchors, Statuses, None
<1> HIDE DEF row
<1>6. anchors' \in Seq(Anchors) /\ DOMAIN anchors \subseteq DOMAIN anchors'
  <2>1. anchors \in Seq(Anchors)
    BY DEF TypeOK
  <2>2. anchors' \in Seq(Anchors) /\ Len(anchors') = Len(anchors) + 1
    BY <1>1, <1>5, <2>1, AppendProperties
  <2> QED
    BY <2>1, <2>2, LenProperties
<1>7. queue' \in Seq(DOMAIN anchors')
  <2>1. queue \in Seq(DOMAIN anchors)
    BY DEF TypeOK
  <2> QED
    BY <1>1, <1>6, <2>1, SeqMonotonic
<1>8. TypeOK'
  BY <1>1, <1>2, <1>6, <1>7 DEF TypeOK
<1>9. \A n \in DOMAIN fresh' : Len(Chunk) + n \in DOMAIN fresh
  BY <1>2
<1>10. EntriesRecorded'
  BY <1>1, <1>2, <1>9 DEF EntriesRecorded, Recorded
<1> QED
  BY <1>8, <1>10

\* The new entries of an agent are added.
LEMMA ReadType ==
  ASSUME TypeOK, EntriesRecorded, NEW a \in Agents, ReadAgent(a)
  PROVE  TypeOK' /\ EntriesRecorded'
<1>1. /\ unread' = unread \ {a} /\ fresh' \in {fresh, fresh \o NewEntries(a)}
      /\ UNCHANGED <<now, logs, anchors, ledger, online, pc, since, queue, answer, pending>>
  BY DEF ReadAgent
<1>2. /\ NewEntries(a) \in Seq(Entries) /\ fresh \in Seq(Entries)
      /\ \A n \in DOMAIN NewEntries(a) :
           /\ NewEntries(a)[n][1] = a /\ NewEntries(a)[n][2] \in DOMAIN logs[a]
  BY NewEntriesOnce DEF TypeOK
<1>3. fresh' \in Seq(Entries)
  BY <1>1, <1>2, ConcatProperties
<1>4. TypeOK'
  BY <1>1, <1>3 DEF TypeOK
<1>5. \A n \in DOMAIN fresh : Recorded(fresh[n])
  BY DEF EntriesRecorded
<1>6. \A n \in DOMAIN NewEntries(a) : Recorded(NewEntries(a)[n])
  BY <1>2, LenProperties DEF Recorded
<1>7. \A n \in DOMAIN fresh' : Recorded(fresh'[n])
  <2>1. CASE fresh' = fresh
    BY <1>5, <2>1
  <2>2. CASE fresh' = fresh \o NewEntries(a)
    <3> DEFINE more == NewEntries(a)
    <3> HIDE DEF more
    <3>1. /\ Len(fresh') = Len(fresh) + Len(more) /\ DOMAIN fresh' = 1..Len(fresh')
          /\ \A n \in 1..Len(fresh') :
               fresh'[n] = IF n <= Len(fresh) THEN fresh[n] ELSE more[n - Len(fresh)]
      BY <1>2, <1>3, <2>2, ConcatProperties, LenProperties DEF more
    <3>2. /\ DOMAIN fresh = 1..Len(fresh) /\ Len(fresh) \in Nat
          /\ DOMAIN more = 1..Len(more) /\ Len(more) \in Nat
      BY <1>2, LenProperties DEF more
    <3> QED
      BY <1>5, <1>6, <3>1, <3>2 DEF more
  <2> QED
    BY <1>1, <2>1, <2>2
<1>8. EntriesRecorded'
  BY <1>1, <1>7 DEF EntriesRecorded, Recorded
<1> QED
  BY <1>4, <1>8

\* Initially there are no anchors.
LEMMA QueueInit == Init => QueueInv
<1> SUFFICES ASSUME Init PROVE QueueInv
  OBVIOUS
<1>1. TypeOK
  BY AnchorAssumption DEF Init, TypeOK, None
<1>2. EntriesRecorded /\ QueueWaits /\ AnswerIsNew /\ SubmittedHasTransaction
  BY AnchorAssumption DEF Init, EntriesRecorded, QueueWaits, AnswerIsNew,
                          SubmittedHasTransaction
<1>3. WaitingSet = {} /\ Cardinality({}) = 0
  BY FS_EmptySet DEF Init, WaitingSet
<1>4. Counted
  BY <1>3 DEF Init, Counted
<1> QED
  BY <1>1, <1>2, <1>4 DEF QueueInv

\* An entry is recorded; those before it stay.
LEMMA RecordGrows ==
  ASSUME TypeOK, EntriesRecorded, NEW a \in Agents, Record(a)
  PROVE  /\ TypeOK' /\ EntriesRecorded'
         /\ \A e \in Entries : Recorded(e) => (Recorded(e))' /\ (Stamp(e))' = Stamp(e)
<1>1. /\ Len(logs[a]) < MaxEntries /\ logs' = [logs EXCEPT ![a] = Append(logs[a], now)]
      /\ UNCHANGED <<now, anchors, ledger, online, pending, pc, since, unread, fresh, queue,
                     answer>>
  BY DEF Record, cycle
<1>2. logs \in [Agents -> Seq(Times)] /\ now \in Times
  BY DEF TypeOK
<1>3. /\ Append(logs[a], now) \in Seq(Times)
      /\ Len(Append(logs[a], now)) = Len(logs[a]) + 1
      /\ \A k \in 1..Len(logs[a]) : Append(logs[a], now)[k] = logs[a][k]
  BY <1>2, AppendProperties
<1>4. /\ logs' \in [Agents -> Seq(Times)] /\ logs'[a] = Append(logs[a], now)
      /\ \A b \in Agents : b # a => logs'[b] = logs[b]
  BY <1>1, <1>2, <1>3
<1>5. TypeOK'
  BY <1>1, <1>4 DEF TypeOK
<1>6. \A b \in Agents : Len(logs'[b]) <= MaxEntries
  <2>1. Len(logs[a]) \in Nat /\ Len(logs'[a]) = Len(logs[a]) + 1
    BY <1>2, <1>3, <1>4, LenProperties
  <2> QED
    BY <1>1, <1>4, <2>1, AnchorAssumption DEF EntriesRecorded
<1>7. \A e \in Entries : Recorded(e) => (Recorded(e))' /\ (Stamp(e))' = Stamp(e)
  <2> SUFFICES ASSUME NEW e \in Entries, e[2] \in DOMAIN logs[e[1]]
               PROVE  e[2] \in DOMAIN logs'[e[1]] /\ logs'[e[1]][e[2]] = logs[e[1]][e[2]]
    BY DEF Recorded, Stamp
  <2>1. e[1] \in Agents
    BY DEF Entries
  <2>2. CASE e[1] # a
    BY <1>4, <2>1, <2>2
  <2>3. CASE e[1] = a
    <3>1. /\ DOMAIN logs[a] = 1..Len(logs[a]) /\ Len(logs[a]) \in Nat
          /\ DOMAIN logs'[a] = 1..(Len(logs[a]) + 1)
      BY <1>2, <1>3, <1>4, LenProperties
    <3> QED
      BY <1>3, <1>4, <2>3, <3>1
  <2> QED
    BY <2>2, <2>3
<1>8. EntriesRecorded'
  BY <1>1, <1>6, <1>7 DEF EntriesRecorded, Recorded
<1> QED
  BY <1>5, <1>7, <1>8

\* The greatest timestamp that is anchored, or 0.
LEMMA LastAnchoredIsLast ==
  ASSUME TypeOK
  PROVE  /\ LastAnchored \in 0..MaxTime
         /\ \A i \in DOMAIN anchors : anchors[i].last <= LastAnchored
<1> DEFINE lasts == {anchors[i].last : i \in DOMAIN anchors}
           all == lasts \cup {0}
<1>1. lasts \subseteq 0..MaxTime
  <2>1. \A i \in DOMAIN anchors : anchors[i] \in Anchors
    BY LenProperties DEF TypeOK
  <2> QED
    BY <2>1 DEF Anchors
<1>2. all \subseteq 0..MaxTime
  BY <1>1, AnchorAssumption
<1>3. IsFiniteSet(all) /\ all \in SUBSET Nat /\ all # {}
  <2>1. IsFiniteSet(0..MaxTime)
    BY AnchorAssumption, FS_Interval
  <2>2. IsFiniteSet(all)
    BY <1>2, <2>1, FS_Subset
  <2> QED
    BY <1>2, <2>2
<1>4. \E t \in all : \A u \in all : u <= t
  BY <1>3, Greatest
<1>5. \E t \in lasts \cup {0} : \A u \in lasts : u <= t
  BY <1>4
<1>6. LastAnchored = CHOOSE t \in lasts \cup {0} : \A u \in lasts : u <= t
  BY DEF LastAnchored
<1>7. LastAnchored \in all /\ \A u \in lasts : u <= LastAnchored
  BY <1>5, <1>6
<1> QED
  BY <1>2, <1>7

\* Every step keeps the invariant of the queue.
LEMMA QueueNext == QueueInv /\ [Next]_vars => QueueInv'
<1> SUFFICES ASSUME QueueInv, [Next]_vars PROVE QueueInv'
  OBVIOUS
<1> USE DEF QueueInv
<1>1. CASE UNCHANGED vars
  <2>1. TypeOK' /\ EntriesRecorded'
    BY <1>1 DEF vars, TypeOK, EntriesRecorded, Recorded
  <2> QED
    BY <1>1, <2>1, AsideStep DEF vars
<1>2. CASE Start
  <2>1. /\ pc' = "read" /\ since' \in {LastAnchored, 0} /\ unread' = Agents
        /\ UNCHANGED <<now, logs, anchors, ledger, online, fresh, queue, answer, pending>>
        /\ pc = "idle"
    BY <1>2 DEF Start
  <2>2. since' \in 0..MaxTime
    BY <2>1, LastAnchoredIsLast, AnchorAssumption
  <2>3. TypeOK' /\ EntriesRecorded'
    BY <2>1, <2>2 DEF TypeOK, EntriesRecorded, Recorded
  <2> QED
    BY <2>1, <2>3, AsideStep
<1>3. ASSUME NEW a \in Agents, ReadAgent(a) PROVE QueueInv'
  <2>1. TypeOK' /\ EntriesRecorded'
    BY <1>3, ReadType
  <2> QED
    BY <1>3, <2>1, AsideStep DEF ReadAgent
<1>4. CASE NothingNew \/ AllSubmitted \/ Abort \/ Restart
  <2>1. /\ pc' = "idle" /\ since' = 0 /\ unread' = {} /\ fresh' = << >> /\ queue' = << >>
        /\ answer' = 0
        /\ \/ pending' = 0
           \/ pending' = pending /\ pc \notin {"saved", "updated"}
        /\ UNCHANGED <<now, logs, anchors, ledger, online>>
    BY <1>4 DEF NothingNew, AllSubmitted, Abort, Restart, Finish, None
  <2>2. TypeOK' /\ EntriesRecorded'
    BY <2>1, AnchorAssumption DEF TypeOK, EntriesRecorded
  <2> QED
    BY <2>1, <2>2, AsideStep
<1>5. CASE Save
  BY <1>5, SaveType, SaveQueue
<1>6. CASE List
  BY <1>6, ListQueue
<1>7. CASE Submit
  BY <1>7, SubmitQueue
<1>8. CASE Submitted
  <2>1. /\ pc = "submitted" /\ pc' = "updated" /\ Update("submitted", answer) /\ answer' \in Nat
        /\ UNCHANGED <<now, logs, ledger, online, since, unread, fresh, pending>>
    BY <1>8 DEF Submitted, None
  <2>2. /\ queue # << >> /\ answer \in DOMAIN ledger /\ answer \in Nat
        /\ \A i \in DOMAIN anchors :
             anchors[i].status = "submitted" => anchors[i].digest # answer
        /\ ledger' \in Seq(Transactions)
    BY <2>1 DEF AnswerIsNew, TypeOK
  <2> QED
    BY <2>1, <2>2, UpdateQueue
<1>9. CASE NotSubmitted
  <2>1. /\ queue # << >> /\ pc = "submit" /\ pc' = "submit" /\ Update("failed", 0)
        /\ ledger' \in {ledger} \cup Executed
        /\ UNCHANGED <<now, logs, online, since, unread, fresh, answer, pending>>
    BY <1>9 DEF NotSubmitted, None
  <2>2. /\ ledger' \in Seq(Transactions) /\ DOMAIN ledger \subseteq DOMAIN ledger'
        /\ answer' \in Nat
    BY <2>1, LedgerGrows DEF TypeOK
  <2> QED
    BY <2>1, <2>2, UpdateQueue
<1>10. ASSUME NEW a \in Agents, Record(a) PROVE QueueInv'
  <2>1. TypeOK' /\ EntriesRecorded'
    BY <1>10, RecordGrows
  <2> QED
    BY <1>10, <2>1, AsideStep DEF Record, cycle
<1>11. CASE Clock \/ Network
  <2>1. TypeOK' /\ EntriesRecorded'
    BY <1>11 DEF Clock, Network, cycle, TypeOK, EntriesRecorded, Recorded
  <2> QED
    BY <1>11, <2>1, AsideStep DEF Clock, Network, cycle
<1>12. CASE Count \/ Uncount
  BY <1>12, CountQueue
<1> QED
  BY <1>1, <1>2, <1>3, <1>4, <1>5, <1>6, <1>7, <1>8, <1>9, <1>10, <1>11, <1>12
     DEF Next, Cycle

-----------------------------------------------------------------------------
(* The batches: what is anchored once *)

\* What was gathered is there once, comes from agents that were read, and is in
\* no anchor.
FreshOnce == \A m, n \in DOMAIN fresh : fresh[m] = fresh[n] => m = n
FreshIsRead == \A n \in DOMAIN fresh : fresh[n][1] \notin unread
FreshNotAnchored ==
  \A n \in DOMAIN fresh, i \in DOMAIN anchors :
    \A p \in DOMAIN anchors[i].batch : anchors[i].batch[p] # fresh[n]

\* What is anchored was recorded, no later than the timestamp of its anchor.
AnchoredIsDated ==
  \A i \in DOMAIN anchors : \A p \in DOMAIN anchors[i].batch :
    /\ Recorded(anchors[i].batch[p])
    /\ Stamp(anchors[i].batch[p]) <= anchors[i].last

\* While agents are read no anchor is later than the watermark of the cycle.
BehindWatermark ==
  pc \in {"read", "saved"} /\ unread # {} => \A i \in DOMAIN anchors : anchors[i].last <= since

IdleIsEmpty == pc = "idle" => fresh = << >>

OnceInv ==
  /\ FreshOnce
  /\ FreshIsRead
  /\ FreshNotAnchored
  /\ AnchoredIsDated
  /\ BehindWatermark
  /\ IdleIsEmpty
  /\ AnchoredOnce

\* Steps that change no batch and gather nothing.
LEMMA AsideOnce ==
  ASSUME OnceInv, DOMAIN anchors' = DOMAIN anchors,
         \A i \in DOMAIN anchors : /\ anchors'[i].batch = anchors[i].batch
                                   /\ anchors'[i].last = anchors[i].last,
         \A e \in Entries : Recorded(e) => (Recorded(e))' /\ (Stamp(e))' = Stamp(e),
         \/ fresh' = fresh /\ unread' = unread
         \/ fresh' = << >>,
         BehindWatermark', IdleIsEmpty'
  PROVE  OnceInv'
<1> USE DEF OnceInv
<1>1. FreshOnce' /\ FreshIsRead'
  BY DEF FreshOnce, FreshIsRead
<1>2. FreshNotAnchored'
  BY DEF FreshNotAnchored
<1>3. AnchoredIsDated'
  <2> SUFFICES ASSUME NEW i \in DOMAIN anchors, NEW p \in DOMAIN anchors[i].batch
               PROVE  /\ (Recorded(anchors[i].batch[p]))'
                      /\ (Stamp(anchors[i].batch[p]))' <= anchors'[i].last
    BY DEF AnchoredIsDated
  <2> DEFINE e == anchors[i].batch[p]
  <2>1. Recorded(e) /\ e \in Entries /\ Stamp(e) <= anchors[i].last
    BY DEF AnchoredIsDated, Recorded
  <2>2. anchors'[i].batch[p] = e /\ anchors'[i].last = anchors[i].last
    OBVIOUS
  <2> HIDE DEF e
  <2>3. /\ e[2] \in DOMAIN logs'[e[1]] /\ logs'[e[1]][e[2]] <= anchors[i].last
    BY <2>1 DEF Recorded, Stamp
  <2> QED
    BY <2>1, <2>2, <2>3 DEF Recorded, Stamp
<1>4. AnchoredOnce'
  BY DEF AnchoredOnce
<1> QED
  BY <1>1, <1>2, <1>3, <1>4

\* An agent is read: its new entries are later than all that is anchored, and no
\* entry of the agent was gathered before.
LEMMA ReadOnce ==
  ASSUME QueueInv, OnceInv, NEW a \in Agents, ReadAgent(a)
  PROVE  OnceInv'
<1> USE DEF QueueInv, OnceInv
<1> DEFINE more == NewEntries(a)
<1>1. /\ pc = "read" /\ a \in unread
      /\ unread' = unread \ {a} /\ fresh' \in {fresh, fresh \o more}
      /\ UNCHANGED <<now, logs, anchors, pc, since>>
  BY DEF ReadAgent
<1>2. /\ more \in Seq(Entries)
      /\ \A n \in DOMAIN more : /\ more[n][1] = a /\ more[n][2] \in DOMAIN logs[a]
                                /\ logs[a][more[n][2]] > since
      /\ \A m, n \in DOMAIN more : more[m] = more[n] => m = n
  BY NewEntriesOnce
<1> HIDE DEF more
<1>3. /\ AnchoredOnce' /\ AnchoredIsDated' /\ BehindWatermark' /\ IdleIsEmpty'
  BY <1>1 DEF AnchoredOnce, AnchoredIsDated, BehindWatermark, IdleIsEmpty, Recorded, Stamp
<1>4. CASE fresh' = fresh
  BY <1>1, <1>3, <1>4 DEF FreshOnce, FreshIsRead, FreshNotAnchored
<1>5. CASE fresh' = fresh \o more
  <2>1. /\ fresh \in Seq(Entries) /\ DOMAIN fresh = 1..Len(fresh) /\ Len(fresh) \in Nat
        /\ DOMAIN more = 1..Len(more) /\ Len(more) \in Nat
    BY <1>2, LenProperties DEF TypeOK
  <2>2. /\ DOMAIN fresh' = 1..(Len(fresh) + Len(more))
        /\ \A n \in 1..(Len(fresh) + Len(more)) :
             fresh'[n] = IF n <= Len(fresh) THEN fresh[n] ELSE more[n - Len(fresh)]
    BY <1>2, <1>5, <2>1, ConcatProperties, LenProperties
  <2>3. ASSUME NEW n \in DOMAIN fresh'
        PROVE  \/ n \in DOMAIN fresh /\ fresh'[n] = fresh[n]
               \/ n - Len(fresh) \in DOMAIN more /\ fresh'[n] = more[n - Len(fresh)]
    BY <2>1, <2>2
  <2>4. \A n \in DOMAIN fresh : fresh[n][1] # a
    BY <1>1 DEF FreshIsRead
  <2>5. FreshIsRead'
    BY <1>1, <1>2, <2>3 DEF FreshIsRead
  <2>6. FreshOnce'
    <3> SUFFICES ASSUME NEW m \in DOMAIN fresh', NEW n \in DOMAIN fresh', fresh'[m] = fresh'[n]
                 PROVE  m = n
      BY DEF FreshOnce
    <3>1. m \in Nat /\ n \in Nat
      BY <2>1, <2>2
    <3>2. CASE m \in DOMAIN fresh /\ fresh'[m] = fresh[m]
      <4>1. CASE n \in DOMAIN fresh /\ fresh'[n] = fresh[n]
        BY <3>2, <4>1 DEF FreshOnce
      <4>2. CASE n - Len(fresh) \in DOMAIN more /\ fresh'[n] = more[n - Len(fresh)]
        BY <1>2, <2>4, <3>2, <4>2
      <4> QED
        BY <2>3, <4>1, <4>2
    <3>3. CASE m - Len(fresh) \in DOMAIN more /\ fresh'[m] = more[m - Len(fresh)]
      <4>1. CASE n \in DOMAIN fresh /\ fresh'[n] = fresh[n]
        BY <1>2, <2>4, <3>3, <4>1
      <4>2. CASE n - Len(fresh) \in DOMAIN more /\ fresh'[n] = more[n - Len(fresh)]
        <5>1. m - Len(fresh) = n - Len(fresh)
          BY <1>2, <3>3, <4>2
        <5> QED
          BY <2>1, <3>1, <5>1
      <4> QED
        BY <2>3, <4>1, <4>2
    <3> QED
      BY <2>3, <3>2, <3>3
  <2>7. FreshNotAnchored'
    <3> SUFFICES ASSUME NEW n \in DOMAIN fresh', NEW i \in DOMAIN anchors,
                        NEW p \in DOMAIN anchors[i].batch, anchors[i].batch[p] = fresh'[n]
                 PROVE  FALSE
      BY <1>1 DEF FreshNotAnchored
    <3>1. CASE n \in DOMAIN fresh /\ fresh'[n] = fresh[n]
      BY <3>1 DEF FreshNotAnchored
    <3>2. CASE n - Len(fresh) \in DOMAIN more /\ fresh'[n] = more[n - Len(fresh)]
      <4> DEFINE e == anchors[i].batch[p]
      <4>1. e[1] = a /\ e[2] \in DOMAIN logs[a] /\ logs[a][e[2]] > since
        BY <1>2, <3>2
      <4>2. Stamp(e) <= anchors[i].last /\ anchors[i].last <= since
        BY <1>1 DEF AnchoredIsDated, BehindWatermark
      <4>3. logs[a][e[2]] <= anchors[i].last
        BY <4>1, <4>2 DEF Stamp
      <4>4. logs[a][e[2]] \in Nat /\ anchors[i].last \in Nat /\ since \in Nat
        <5>1. logs[a] \in Seq(Times) /\ anchors[i] \in Anchors
          BY LenProperties DEF TypeOK
        <5>2. logs[a][e[2]] \in Times
          BY <4>1, <5>1, LenProperties
        <5>3. anchors[i].last \in 0..MaxTime /\ since \in 0..MaxTime
          BY <5>1 DEF TypeOK, Anchors
        <5>4. logs[a][e[2]] \in Nat
          BY <5>2 DEF Times
        <5> QED
          BY <5>3, <5>4
      <4> QED
        BY <4>1, <4>2, <4>3, <4>4
    <3> QED
      BY <2>3, <3>1, <3>2
  <2> QED
    BY <1>3, <2>5, <2>6, <2>7
<1> QED
  BY <1>1, <1>4, <1>5

\* A chunk becomes an anchor: its entries were in none and are there once.
LEMMA SaveOnce ==
  ASSUME QueueInv, OnceInv, Save
  PROVE  OnceInv'
<1> USE DEF QueueInv, OnceInv
<1> DEFINE row == [batch |-> Chunk, last |-> LastOf(Chunk), status |-> "pending",
                   digest |-> None]
           top == Len(anchors) + 1
           size == Len(Chunk)
<1>1. /\ unread = {} /\ fresh # << >> /\ anchors' = Append(anchors, row)
      /\ fresh' = SubSeq(fresh, Len(Chunk) + 1, Len(fresh))
      /\ pc' = "saved" /\ UNCHANGED <<now, logs, since, unread>>
  BY DEF Save
<1>2. /\ Chunk \in Seq(Entries) /\ Chunk # << >> /\ size \in 1..Len(fresh)
      /\ DOMAIN fresh = 1..Len(fresh) /\ Len(fresh) \in Nat
      /\ DOMAIN Chunk = 1..size /\ \A n \in 1..size : Chunk[n] = fresh[n]
      /\ DOMAIN fresh' = 1..(Len(fresh) - size)
      /\ \A n \in DOMAIN fresh' : fresh'[n] = fresh[size + n]
  BY <1>1, ChunkIsPrefix
<1>3. row.batch = Chunk /\ row.last = LastOf(Chunk)
  OBVIOUS
<1> HIDE DEF row, size
<1>4. /\ DOMAIN anchors' = DOMAIN anchors \cup {top} /\ top \notin DOMAIN anchors
      /\ anchors'[top] = row
      /\ \A i \in DOMAIN anchors : anchors'[i] = anchors[i]
  <2>1. anchors \in Seq(Anchors) /\ anchors' \in Seq(Anchors)
    BY SaveType DEF TypeOK
  <2>2. DOMAIN anchors = 1..Len(anchors) /\ Len(anchors) \in Nat
        /\ DOMAIN anchors' = 1..Len(anchors')
    BY <2>1, LenProperties
  <2> QED
    BY <1>1, <2>1, <2>2
<1> HIDE DEF top
<1>5. \A n \in DOMAIN Chunk : n \in DOMAIN fresh /\ Chunk[n] = fresh[n]
  BY <1>2
<1>6. \A n \in DOMAIN fresh' : size + n \in DOMAIN fresh /\ fresh'[n] = fresh[size + n]
                               /\ size + n \notin DOMAIN Chunk
  BY <1>2
<1>7. FreshOnce' /\ FreshIsRead' /\ BehindWatermark' /\ IdleIsEmpty'
  <2>1. FreshOnce'
    <3> SUFFICES ASSUME NEW m \in DOMAIN fresh', NEW n \in DOMAIN fresh', fresh'[m] = fresh'[n]
                 PROVE  m = n
      BY DEF FreshOnce
    <3>1. size + m = size + n
      BY <1>6 DEF FreshOnce
    <3>2. m \in Nat /\ n \in Nat /\ size \in Nat
      BY <1>2
    <3> QED
      BY <3>1, <3>2
  <2>2. FreshIsRead' /\ BehindWatermark' /\ IdleIsEmpty'
    BY <1>1 DEF FreshIsRead, BehindWatermark, IdleIsEmpty
  <2> QED
    BY <2>1, <2>2
<1>8. FreshNotAnchored'
  <2> SUFFICES ASSUME NEW n \in DOMAIN fresh', NEW i \in DOMAIN anchors',
                      NEW p \in DOMAIN anchors'[i].batch, anchors'[i].batch[p] = fresh'[n]
               PROVE  FALSE
    BY DEF FreshNotAnchored
  <2>1. CASE i \in DOMAIN anchors
    BY <1>4, <1>6, <2>1 DEF FreshNotAnchored
  <2>2. CASE i = top
    BY <1>3, <1>4, <1>5, <1>6, <2>2 DEF FreshOnce
  <2> QED
    BY <1>4, <2>1, <2>2
<1>9. AnchoredIsDated'
  <2> SUFFICES ASSUME NEW i \in DOMAIN anchors', NEW p \in DOMAIN anchors'[i].batch
               PROVE  /\ Recorded(anchors'[i].batch[p])
                      /\ Stamp(anchors'[i].batch[p]) <= anchors'[i].last
    BY <1>1 DEF AnchoredIsDated, Recorded, Stamp
  <2>1. CASE i \in DOMAIN anchors
    BY <1>4, <2>1 DEF AnchoredIsDated
  <2>2. CASE i = top
    <3>1. \A n \in DOMAIN Chunk : Recorded(Chunk[n])
      BY <1>5 DEF EntriesRecorded
    <3>2. \A n \in DOMAIN Chunk : Stamp(Chunk[n]) <= LastOf(Chunk)
      BY <1>2, <3>1, LastOfBatch
    <3> QED
      BY <1>3, <1>4, <2>2, <3>1, <3>2
  <2> QED
    BY <1>4, <2>1, <2>2
<1>10. AnchoredOnce'
  <2> SUFFICES ASSUME NEW i \in DOMAIN anchors', NEW j \in DOMAIN anchors',
                      NEW p \in DOMAIN anchors'[i].batch, NEW q \in DOMAIN anchors'[j].batch,
                      anchors'[i].batch[p] = anchors'[j].batch[q]
               PROVE  i = j /\ p = q
    BY DEF AnchoredOnce
  <2>1. CASE i \in DOMAIN anchors /\ j \in DOMAIN anchors
    BY <1>4, <2>1 DEF AnchoredOnce
  <2>2. CASE i = top /\ j \in DOMAIN anchors
    BY <1>3, <1>4, <1>5, <2>2 DEF FreshNotAnchored
  <2>3. CASE i \in DOMAIN anchors /\ j = top
    BY <1>3, <1>4, <1>5, <2>3 DEF FreshNotAnchored
  <2>4. CASE i = top /\ j = top
    BY <1>3, <1>4, <1>5, <2>4 DEF FreshOnce
  <2> QED
    BY <1>4, <2>1, <2>2, <2>3, <2>4
<1> QED
  BY <1>7, <1>8, <1>9, <1>10

\* If the watermark is read as it is, every step keeps the batches apart.
LEMMA OnceNext ==
  ASSUME ~MayMisread
  PROVE  QueueInv /\ OnceInv /\ [Next]_vars => OnceInv'
<1> SUFFICES ASSUME QueueInv, OnceInv, [Next]_vars PROVE OnceInv'
  OBVIOUS
<1> USE DEF QueueInv
<1> DEFINE SameEntries ==
             \A e \in Entries : Recorded(e) => (Recorded(e))' /\ (Stamp(e))' = Stamp(e)
<1>1. UNCHANGED logs => SameEntries
  BY DEF Recorded, Stamp
<1> HIDE DEF SameEntries
<1>2. CASE UNCHANGED vars
  BY <1>1, <1>2, AsideOnce DEF vars, OnceInv, BehindWatermark, IdleIsEmpty, SameEntries
<1>3. CASE Start
  <2>1. /\ pc = "idle" /\ pc' = "read" /\ since' = LastAnchored
        /\ UNCHANGED <<now, logs, anchors, fresh>>
    BY <1>3 DEF Start
  <2>2. fresh' = << >> /\ IdleIsEmpty'
    BY <2>1 DEF OnceInv, IdleIsEmpty
  <2>3. BehindWatermark'
    BY <2>1, LastAnchoredIsLast DEF BehindWatermark
  <2> QED
    BY <1>1, <2>1, <2>2, <2>3, AsideOnce DEF SameEntries
<1>4. ASSUME NEW a \in Agents, ReadAgent(a) PROVE OnceInv'
  BY <1>4, ReadOnce
<1>5. CASE NothingNew \/ AllSubmitted \/ Abort \/ Restart
  <2>1. pc' = "idle" /\ fresh' = << >> /\ UNCHANGED <<logs, anchors>>
    BY <1>5 DEF NothingNew, AllSubmitted, Abort, Restart, Finish
  <2>2. BehindWatermark' /\ IdleIsEmpty'
    BY <2>1 DEF BehindWatermark, IdleIsEmpty
  <2> QED
    BY <1>1, <2>1, <2>2, AsideOnce DEF SameEntries
<1>6. CASE Save
  BY <1>6, SaveOnce
<1>7. CASE List \/ Submit
  <2>1. pc' \in {"submit", "submitted"} /\ UNCHANGED <<logs, anchors, fresh, unread>>
    BY <1>7 DEF List, Submit
  <2>2. BehindWatermark' /\ IdleIsEmpty'
    BY <2>1 DEF BehindWatermark, IdleIsEmpty
  <2> QED
    BY <1>1, <2>1, <2>2, AsideOnce DEF SameEntries
<1>8. CASE Submitted \/ NotSubmitted
  <2>1. /\ pc' \in {"submit", "updated"} /\ UNCHANGED <<logs, fresh, unread>>
        /\ queue # << >>
        /\ \E status \in {"submitted", "failed"}, digest \in Nat : Update(status, digest)
    BY <1>8 DEF Submitted, NotSubmitted, AnswerIsNew, TypeOK, None
  <2>2. /\ DOMAIN anchors' = DOMAIN anchors
        /\ \A i \in DOMAIN anchors : /\ anchors'[i].batch = anchors[i].batch
                                     /\ anchors'[i].last = anchors[i].last
    <3>1. Head(queue) \in DOMAIN anchors
      BY <2>1, QueueHead
    <3>2. PICK status \in Statuses, digest \in Nat : Update(status, digest)
      BY <2>1 DEF Statuses
    <3> QED
      BY <3>1, <3>2, UpdateRow
  <2>3. BehindWatermark' /\ IdleIsEmpty'
    BY <2>1 DEF BehindWatermark, IdleIsEmpty
  <2> QED
    BY <1>1, <2>1, <2>2, <2>3, AsideOnce DEF SameEntries
<1>9. ASSUME NEW a \in Agents, Record(a) PROVE OnceInv'
  <2>1. UNCHANGED <<anchors, pc, since, unread, fresh>>
    BY <1>9 DEF Record, cycle
  <2>2. SameEntries
    BY <1>9, RecordGrows DEF SameEntries
  <2>3. BehindWatermark' /\ IdleIsEmpty'
    BY <2>1 DEF OnceInv, BehindWatermark, IdleIsEmpty
  <2> QED
    BY <2>1, <2>2, <2>3, AsideOnce DEF SameEntries
<1>10. CASE Clock \/ Network
  <2>1. UNCHANGED <<logs, anchors, pc, since, unread, fresh>>
    BY <1>10 DEF Clock, Network, cycle
  <2>2. BehindWatermark' /\ IdleIsEmpty'
    BY <2>1 DEF OnceInv, BehindWatermark, IdleIsEmpty
  <2> QED
    BY <1>1, <2>1, <2>2, AsideOnce DEF SameEntries
<1>11. CASE Count \/ Uncount
  <2>1. /\ pc' \in {"list", "read", "submit"} /\ UNCHANGED <<logs, anchors, since, unread, fresh>>
        /\ pc = "saved" \/ pc' = "submit"
    BY <1>11 DEF Count, Uncount
  <2>2. BehindWatermark' /\ IdleIsEmpty'
    BY <2>1 DEF OnceInv, BehindWatermark, IdleIsEmpty
  <2> QED
    BY <1>1, <2>1, <2>2, AsideOnce DEF SameEntries
<1> QED
  BY <1>2, <1>3, <1>4, <1>5, <1>6, <1>7, <1>8, <1>9, <1>10, <1>11 DEF Next, Cycle

-----------------------------------------------------------------------------
(* The theorems *)

\* The invariant of the queue holds at all times.
THEOREM QueueInvariant == Spec => []QueueInv
<1> QED
  BY QueueInit, QueueNext, PTL DEF Spec

\* What is called submitted names a transaction of its own that was executed, wherever
\* the daemon ends and whatever answers are lost (submit_pending updates an anchor
\* after its transaction, with the digest it was given).
THEOREM EachHasItsTransaction == Spec => []SubmittedHasTransaction
<1>1. QueueInv => SubmittedHasTransaction
  BY DEF QueueInv
<1> QED
  BY <1>1, QueueInvariant, PTL

\* pending_count is never taken below 0 and never above what waits but by the one
\* anchor that was updated and is not yet subtracted, though it starts again at 0 with
\* the daemon and the table does not.
THEOREM PendingCountHolds == Spec => []PendingCountBounded
<1>1. QueueInv => PendingCountBounded
  <2> SUFFICES ASSUME QueueInv PROVE PendingCountBounded
    OBVIOUS
  <2>1. pending \in Nat /\ Cardinality(WaitingSet) \in Nat
    BY AnchorsFinite DEF QueueInv, TypeOK, WaitingSet
  <2>2. pending \in 0..(Cardinality(WaitingSet) + IF pc = "updated" THEN 1 ELSE 0)
    BY <2>1 DEF QueueInv, Counted
  <2> QED
    BY <2>2 DEF PendingCountBounded, WaitingSet
<1> QED
  BY <1>1, QueueInvariant, PTL

\* A submitted anchor is never touched again: get_pending_anchors gives out those
\* that wait, each once.
THEOREM SubmittedForGood == Spec => SubmittedStays
<1>1. QueueInv /\ [Next]_vars =>
        [\A i \in DOMAIN anchors : anchors[i].status = "submitted" => anchors'[i] = anchors[i]]_vars
  <2> SUFFICES ASSUME QueueInv, Next, NEW i \in DOMAIN anchors, anchors[i].status = "submitted"
               PROVE  anchors'[i] = anchors[i]
    BY DEF vars
  <2>1. anchors \in Seq(Anchors)
    BY DEF QueueInv, TypeOK
  <2>2. CASE UNCHANGED anchors
    BY <2>2
  <2>3. CASE Save
    BY <2>1, <2>3, LenProperties DEF Save
  <2>4. CASE Submitted \/ NotSubmitted
    <3>1. /\ queue # << >>
          /\ \E status \in {"submitted", "failed"}, digest \in Nat : Update(status, digest)
      BY <2>4 DEF Submitted, NotSubmitted, QueueInv, AnswerIsNew, TypeOK, None
    <3>2. Head(queue) \in DOMAIN anchors /\ Head(queue) # i
      BY <3>1, QueueHead DEF Waiting
    <3>3. PICK status \in Statuses, digest \in Nat : Update(status, digest)
      BY <3>1 DEF Statuses
    <3> QED
      BY <3>2, <3>3, UpdateRow DEF QueueInv
  <2> QED
    BY <2>2, <2>3, <2>4 DEF Next, Cycle, Start, ReadAgent, NothingNew, Count, List, Submit,
                            Uncount, AllSubmitted, Abort, Record, Clock, Network, Restart
<1> QED
  BY <1>1, QueueInvariant, PTL DEF Spec, SubmittedStays

\* No entry is in two anchors or twice in one, as long as the query of the last
\* timestamp does not fail: however the clock is set and whatever is recorded
\* while a cycle reads the agents (anchor_cycle).
THEOREM NothingAnchoredTwice ==
  ASSUME ~MayMisread
  PROVE  Spec => []AnchoredOnce
<1>1. Init => OnceInv
  BY DEF Init, OnceInv, FreshOnce, FreshIsRead, FreshNotAnchored, AnchoredIsDated,
         BehindWatermark, IdleIsEmpty, AnchoredOnce
<1>2. QueueInv /\ OnceInv /\ [Next]_vars => OnceInv'
  BY OnceNext
<1>3. OnceInv => AnchoredOnce
  BY DEF OnceInv
<1> QED
  BY <1>1, <1>2, <1>3, QueueInvariant, PTL DEF Spec

=============================================================================
