------------------------------- MODULE Anchor -------------------------------
(***************************************************************************)
(* The anchor worker of the daemon (anchor.rs): audit entries of all       *)
(* agents are gathered into batches, each batch is saved as an anchor with *)
(* the Merkle root of its entries, and anchors are submitted to IOTA.      *)
(*                                                                         *)
(* A cycle reads the database of each agent in turn, saves each batch in a *)
(* transaction of its own and submits anchors one by one.  Entries go on   *)
(* being recorded meanwhile, any step can fail and the daemon can end      *)
(* after any step; status requests read pending_count between any two.  An *)
(* entry is known by its agent and its number; its timestamp is in seconds *)
(* of a wall clock that may be set.                                        *)
(*                                                                         *)
(* The transaction of a submission is a transfer of 1 NANOS of the daemon  *)
(* to itself: it carries nothing of the anchor.  Its digest is its place   *)
(* on the ledger.                                                          *)
(***************************************************************************)
EXTENDS Naturals, FiniteSets, Sequences

CONSTANTS
  Agents,
  BatchSize,      \* anchoring.batch_size
  PendingLimit,   \* the LIMIT of get_pending_anchors, 10
  MayMisread,     \* whether the query of the last timestamp may fail
  MaxEntries,     \* bound on the entries of an agent
  MaxTransactions, \* bound on the transactions of the daemon
  MaxTime         \* bound on the clock

ASSUME AnchorAssumption ==
  /\ BatchSize \in Nat \ {0}
  /\ PendingLimit \in Nat \ {0}
  /\ MayMisread \in BOOLEAN
  /\ MaxEntries \in Nat
  /\ MaxTransactions \in Nat
  /\ MaxTime \in Nat

VARIABLES
  now,       \* the clock
  logs,      \* audit_log of each agent: the timestamps of its entries
  anchors,   \* the table of anchors in the order of their id
  ledger,    \* the transactions of the daemon that were executed
  online,    \* whether the IOTA node answers
  pc,        \* where the cycle is
  since,     \* the last timestamp as the cycle has read it
  unread,    \* agents whose database the cycle has not read yet
  fresh,     \* the entries it has gathered and not saved
  queue,     \* the ids of the anchors it has still to submit
  answer,    \* the digest that submit_to_iota returned
  pending    \* pending_count

vars ==
  <<now, logs, anchors, ledger, online, pc, since, unread, fresh, queue, answer, pending>>
cycle == <<pc, since, unread, fresh, queue, answer>>

Times == 1..MaxTime
Entries == Agents \X (1..MaxEntries)
Statuses == {"pending", "submitted", "failed"}
None == 0
Anchors == [batch: Seq(Entries), last: 0..MaxTime, status: Statuses, digest: Nat]

\* What transfer_iota is given for an anchor, and whether its effects are a success.
Transactions == [amount: {1}, ok: BOOLEAN]

Init ==
  /\ now \in Times
  /\ logs = [a \in Agents |-> << >>]
  /\ anchors = << >>
  /\ ledger = << >>
  /\ online \in BOOLEAN
  /\ pc = "idle"
  /\ since = 0
  /\ unread = {}
  /\ fresh = << >>
  /\ queue = << >>
  /\ answer = None
  /\ pending = 0

-----------------------------------------------------------------------------
(* A cycle *)

\* The cycle is over, or has never been.
Finish ==
  /\ pc' = "idle"
  /\ since' = 0
  /\ unread' = {}
  /\ fresh' = << >>
  /\ queue' = << >>
  /\ answer' = None

\* get_last_anchored_timestamp; a query that fails counts as 0.
LastAnchored ==
  LET lasts == {anchors[i].last : i \in DOMAIN anchors}
  IN  CHOOSE t \in lasts \cup {0} : \A u \in lasts : u <= t

Start ==
  /\ pc = "idle"
  /\ pc' = "read"
  /\ since' \in IF MayMisread THEN {LastAnchored, 0} ELSE {LastAnchored}
  /\ unread' = Agents
  /\ UNCHANGED <<now, logs, anchors, ledger, online, fresh, queue, answer, pending>>

\* ORDER BY id: the n-th row is the one that n of the rows do not come after.
InOrder(rows) ==
  [n \in 1..Cardinality(rows) |->
     CHOOSE k \in rows : Cardinality({j \in rows : j <= k}) = n]

\* read_audit_hashes
MutantNewEntries(a) ==
  LET rows == InOrder({k \in DOMAIN logs[a] : logs[a][k] >= since})
  IN  [n \in DOMAIN rows |-> <<a, rows[n]>>]
NewEntries(a) ==
  LET rows == InOrder({k \in DOMAIN logs[a] : logs[a][k] > since})
  IN  [n \in DOMAIN rows |-> <<a, rows[n]>>]

\* An agent is read; one that cannot be read is passed over.
ReadAgent(a) ==
  /\ pc = "read"
  /\ a \in unread
  /\ unread' = unread \ {a}
  /\ fresh' \in {fresh, fresh \o NewEntries(a)}
  /\ UNCHANGED <<now, logs, anchors, ledger, online, pc, since, queue, answer, pending>>

\* Nothing new: the cycle ends here, whatever is waiting for submission.
NothingNew ==
  /\ pc = "read"
  /\ unread = {}
  /\ fresh = << >>
  /\ Finish
  /\ UNCHANGED <<now, logs, anchors, ledger, online, pending>>

\* The chunk that is saved next, and its timestamp.
Chunk == SubSeq(fresh, 1, IF Len(fresh) < BatchSize THEN Len(fresh) ELSE BatchSize)

Stamp(e) == logs[e[1]][e[2]]

LastOf(batch) ==
  LET stamps == {Stamp(batch[i]) : i \in DOMAIN batch}
  IN  CHOOSE t \in stamps : \A u \in stamps : u <= t

\* save_anchor, for one chunk
Save ==
  /\ pc = "read"
  /\ unread = {}
  /\ fresh # << >>
  /\ anchors' = Append(anchors,
       [batch |-> Chunk, last |-> LastOf(Chunk), status |-> "pending", digest |-> None])
  /\ fresh' = SubSeq(fresh, Len(Chunk) + 1, Len(fresh))
  /\ pc' = "saved"
  /\ UNCHANGED <<now, logs, ledger, online, since, unread, queue, answer, pending>>

\* It is counted once the lock on the state is there; the next chunk follows.
Count ==
  /\ pc = "saved"
  /\ pending' = pending + 1
  /\ pc' = IF fresh = << >> THEN "list" ELSE "read"
  /\ UNCHANGED <<now, logs, anchors, ledger, online, since, unread, fresh, queue, answer>>

\* get_pending_anchors
MutantWaiting(i) == TRUE
Waiting(i) == anchors[i].status \in {"pending", "failed"}

List ==
  LET waiting == InOrder({i \in DOMAIN anchors : Waiting(i)})
  IN  /\ pc = "list"
      /\ pc' = "submit"
      /\ queue' = SubSeq(waiting, 1, IF Len(waiting) < PendingLimit THEN Len(waiting)
                                     ELSE PendingLimit)
      /\ UNCHANGED <<now, logs, anchors, ledger, online, since, unread, fresh, answer,
                     pending>>

\* transfer_iota for some anchor: the transactions are the same for all of them.
Executed ==
  {Append(ledger, [amount |-> 1, ok |-> ok]) :
     ok \in IF online /\ Len(ledger) < MaxTransactions THEN BOOLEAN ELSE {}}

\* submit_to_iota succeeds: a digest is the answer, whatever the effects are.
Submit ==
  /\ pc = "submit"
  /\ queue # << >>
  /\ ledger' \in Executed
  /\ answer' = Len(ledger')
  /\ pc' = "submitted"
  /\ UNCHANGED <<now, logs, anchors, online, since, unread, fresh, queue, pending>>

\* update_anchor_status of the anchor that was submitted
Update(status, digest) ==
  /\ anchors' =
       [anchors EXCEPT ![Head(queue)] = [@ EXCEPT !.status = status, !.digest = digest]]
  /\ queue' = Tail(queue)

Submitted ==
  /\ pc = "submitted"
  /\ Update("submitted", answer)
  /\ pc' = "updated"
  /\ answer' = None
  /\ UNCHANGED <<now, logs, ledger, online, since, unread, fresh, pending>>

\* It no longer counts as pending once the lock on the state is there.
MutantUncount ==
  /\ pc = "updated"
  /\ pc' = "submit"
  /\ UNCHANGED <<now, logs, anchors, ledger, online, since, unread, fresh, queue, answer,
                 pending>>
Uncount ==
  /\ pc = "updated"
  /\ pending' = IF pending > 0 THEN pending - 1 ELSE 0
  /\ pc' = "submit"
  /\ UNCHANGED <<now, logs, anchors, ledger, online, since, unread, fresh, queue, answer>>

\* submit_to_iota fails: there is no key or no answer, or the answer is lost and
\* the transaction has been executed.
MutantNotSubmitted ==
  /\ pc = "submit"
  /\ queue # << >>
  /\ ledger' \in {ledger} \cup Executed
  /\ Update("submitted", Len(ledger))
  /\ UNCHANGED <<now, logs, online, pc, since, unread, fresh, answer, pending>>
NotSubmitted ==
  /\ pc = "submit"
  /\ queue # << >>
  /\ ledger' \in {ledger} \cup Executed
  /\ Update("failed", None)
  /\ UNCHANGED <<now, logs, online, pc, since, unread, fresh, answer, pending>>

AllSubmitted ==
  /\ pc = "submit"
  /\ queue = << >>
  /\ Finish
  /\ UNCHANGED <<now, logs, anchors, ledger, online, pending>>

\* A directory cannot be listed or the database of anchors fails: the rest of
\* the cycle is left out.
Abort ==
  /\ pc \in {"read", "list", "submit", "submitted"}
  /\ Finish
  /\ UNCHANGED <<now, logs, anchors, ledger, online, pending>>

Cycle ==
  \/ Start \/ \E a \in Agents : ReadAgent(a)
  \/ NothingNew \/ Save \/ Count \/ List
  \/ Submit \/ Submitted \/ Uncount \/ NotSubmitted \/ AllSubmitted

-----------------------------------------------------------------------------
(* The environment *)

\* A proxy or the CLI records an entry.
Record(a) ==
  /\ Len(logs[a]) < MaxEntries
  /\ logs' = [logs EXCEPT ![a] = Append(@, now)]
  /\ UNCHANGED <<now, anchors, ledger, online, pending, cycle>>

\* Time passes, or the clock is set.
Clock ==
  /\ now' \in Times
  /\ UNCHANGED <<logs, anchors, ledger, online, pending, cycle>>

Network ==
  /\ online' = ~online
  /\ UNCHANGED <<now, logs, anchors, ledger, pending, cycle>>

\* The daemon ends, also in the final cycle of a shutdown, and is started again.
Restart ==
  /\ Finish
  /\ pending' = 0
  /\ UNCHANGED <<now, logs, anchors, ledger, online>>

-----------------------------------------------------------------------------
Next ==
  \/ Cycle
  \/ Abort
  \/ \E a \in Agents : Record(a)
  \/ Clock
  \/ Network
  \/ Restart

Spec == Init /\ [][Next]_vars

\* run_loop starts a cycle after each interval and its waits end; and no step
\* that is possible again and again fails again and again.
FairSpec ==
  /\ Spec
  /\ WF_vars(Cycle)
  /\ \A a \in Agents : SF_vars(ReadAgent(a))
  /\ SF_vars(NothingNew) /\ SF_vars(Save) /\ SF_vars(Count) /\ SF_vars(List)
  /\ SF_vars(Submit) /\ SF_vars(Submitted) /\ SF_vars(Uncount) /\ SF_vars(AllSubmitted)

-----------------------------------------------------------------------------
(* Properties *)

\* Every variable has its type; pending_count, a u32, never goes below 0.
TypeOK ==
  /\ now \in Times
  /\ logs \in [Agents -> Seq(Times)]
  /\ anchors \in Seq(Anchors)
  /\ ledger \in Seq(Transactions)
  /\ online \in BOOLEAN
  /\ pc \in {"idle", "read", "saved", "list", "submit", "submitted", "updated"}
  /\ since \in 0..MaxTime
  /\ unread \subseteq Agents
  /\ fresh \in Seq(Entries)
  /\ queue \in Seq(DOMAIN anchors)
  /\ answer \in Nat
  /\ pending \in Nat

\* No entry is in two anchors or twice in one, whatever fails, wherever the
\* daemon ends and however the clock is set, as long as the query of the last
\* timestamp does not fail.
AnchoredOnce ==
  \A i, j \in DOMAIN anchors :
    \A p \in DOMAIN anchors[i].batch, q \in DOMAIN anchors[j].batch :
      anchors[i].batch[p] = anchors[j].batch[q] => i = j /\ p = q

\* What is called submitted names a transaction that was executed, and one that no
\* other anchor names: also after answers that were lost, submissions that were
\* repeated and restarts between a transaction and the update of its anchor.
SubmittedHasTransaction ==
  LET submitted == {i \in DOMAIN anchors : anchors[i].status = "submitted"}
  IN  /\ \A i \in submitted : anchors[i].digest \in DOMAIN ledger
      /\ \A i, j \in submitted : anchors[i].digest = anchors[j].digest => i = j

\* A submitted anchor stays as it is: it is never submitted a second time.
SubmittedStays ==
  [][\A i \in DOMAIN anchors :
       anchors[i].status = "submitted" => anchors'[i] = anchors[i]]_vars

\* The pending_count that status reports, which is unsigned, is never taken below 0.
\* It says that more anchors wait than there are only between the update of an anchor
\* and the lock on the state, and then by one, also after restarts.
PendingCountBounded ==
  pending \in 0..(Cardinality({i \in DOMAIN anchors : Waiting(i)})
                    + IF pc = "updated" THEN 1 ELSE 0)

-----------------------------------------------------------------------------
(* What comments say and the code does not do (README, section 5) *)

\* "The Merkle root is recoverable from the transaction's input data": anchors of
\* different batches are submitted with different transactions.
RootRecoverable ==
  \A i, j \in DOMAIN anchors :
    /\ anchors[i].status = "submitted" /\ anchors[j].status = "submitted"
    /\ ledger[anchors[i].digest].amount = ledger[anchors[j].digest].amount
    => anchors[i].batch = anchors[j].batch

\* "Anchor submitted to IOTA": its transaction was executed with success.
SubmittedWithSuccess ==
  \A i \in DOMAIN anchors :
    anchors[i].status = "submitted" => ledger[anchors[i].digest].ok

\* "if testnet is unavailable, breadcrumbs are queued and retried later": once
\* the node answers for good, no anchor stays in the queue for ever.
RetriedLater ==
  <>[]online => \A i \in 1..MaxEntries :
    i \in DOMAIN anchors /\ Waiting(i)
      ~> i \in DOMAIN anchors /\ anchors[i].status = "submitted"

=============================================================================
