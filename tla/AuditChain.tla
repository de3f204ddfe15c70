----------------------------- MODULE AuditChain -----------------------------
(***************************************************************************)
(* The hash-chained audit log: record_entry of grokingclawid-core/audit.rs *)
(* as its writers run it, and the verify_chain of the daemon over the rows *)
(* that its query_audit selects.                                           *)
(*                                                                         *)
(* A writer is a connection to the database: a proxy's logger, which takes *)
(* its requests one at a time under a mutex, or a CLI process.  A record   *)
(* is two SQL statements, each a transaction of its own: the SELECT of the *)
(* last hash and the INSERT of the new row.  Other writers may come in     *)
(* between.                                                                *)
(*                                                                         *)
(* SHA-256 is taken to be free of collisions: a hash stands for all that   *)
(* it was computed from, so it is the sequence of the contents of the      *)
(* entries that lead from the genesis value to its entry.                  *)
(***************************************************************************)
EXTENDS Naturals, Sequences

CONSTANTS
  Agents,      \* the agent_id of an entry
  Actions,     \* what else is hashed of it: action, target, timestamp
  Writers,     \* connections to the database
  MaxEntries,  \* bound on the length of the log
  MaxChanges   \* bound on the rows changed from outside

ASSUME AuditAssumption == MaxEntries \in Nat /\ MaxChanges \in Nat

VARIABLES
  log,      \* the rows of audit_log in the order of their id
  busy,     \* the writers between their SELECT and their INSERT
  prev,     \* prev_hash as each writer has read it
  written,  \* history: the rows as they were inserted
  changes   \* history: how often a row was changed from outside

vars == <<log, busy, prev, written, changes>>

Contents == [agent: Agents, action: Actions]
Hash == Seq(Contents)
Genesis == << >>

\* compute_chain_hash
MutantChainHash(h, c) == <<c>>
ChainHash(h, c) == Append(h, c)

Entry == [content: Contents, prev: Hash, hash: Hash]

\* A row as record_entry builds it.
MutantNewEntry(h, c) == [content |-> c, prev |-> h, hash |-> ChainHash(Genesis, c)]
MutantSwappedEntry(h, c) == [content |-> c, prev |-> ChainHash(h, c), hash |-> h]
NewEntry(h, c) == [content |-> c, prev |-> h, hash |-> ChainHash(h, c)]

\* get_last_hash
LastHash(entries) ==
  IF entries = << >> THEN Genesis ELSE entries[Len(entries)].hash

Init ==
  /\ log = << >>
  /\ busy = {}
  /\ prev = [w \in Writers |-> Genesis]
  /\ written = << >>
  /\ changes = 0

\* record_entry up to the answer of the SELECT
Select(w) ==
  /\ w \notin busy
  /\ busy' = busy \cup {w}
  /\ prev' = [prev EXCEPT ![w] = LastHash(log)]
  /\ UNCHANGED <<log, written, changes>>

\* The rest of record_entry.
Insert(w) ==
  /\ w \in busy
  /\ Len(log) < MaxEntries
  /\ \E c \in Contents :
       /\ log' = Append(log, NewEntry(prev[w], c))
       /\ written' = Append(written, NewEntry(prev[w], c))
  /\ busy' = busy \ {w}
  /\ UNCHANGED <<prev, changes>>

\* The INSERT fails (the database stays locked), or the process ends first.
GiveUp(w) ==
  /\ w \in busy
  /\ busy' = busy \ {w}
  /\ UNCHANGED <<log, prev, written, changes>>

Next == \E w \in Writers : Select(w) \/ Insert(w) \/ GiveUp(w)

Spec == Init /\ [][Next]_vars

-----------------------------------------------------------------------------
(* verify_chain over what query_audit selects *)

\* The rows of query_audit: those of the agent it is asked about, or all of them
\* when the supervisor does not know the agent.
RowsOf(entries, a) == {i \in DOMAIN entries : entries[i].content.agent = a}
Selections(entries) == {DOMAIN entries} \cup {RowsOf(entries, a) : a \in Agents}

Before(rows, i) == {j \in rows : j < i}

\* The link of a row to the row selected before it, and its own hash.  The loop
\* starts at the second of the rows; of the first only prev_hash is looked at.
MutantVerifyChain(entries, rows) ==
  \A i \in rows :
    \/ Before(rows, i) = {} /\ entries[i].prev = Genesis
    \/ \E k \in Before(rows, i) :
         /\ \A j \in Before(rows, i) : j <= k
         /\ entries[i].prev = entries[k].hash
VerifyChain(entries, rows) ==
  \A i \in rows :
    \/ Before(rows, i) = {} /\ entries[i].prev = Genesis
    \/ \E k \in Before(rows, i) :
         /\ \A j \in Before(rows, i) : j <= k
         /\ entries[i].prev = entries[k].hash
         /\ entries[i].hash = ChainHash(entries[i].prev, entries[i].content)

-----------------------------------------------------------------------------
(* Rows that are changed in the database *)

\* What somebody who can write the file may put in place of a row: any content,
\* any link, and a hash that is left as it was or computed anew.
Rewritten(i) ==
  UNION { {[content |-> c, prev |-> h, hash |-> log[i].hash], NewEntry(h, c)} :
            c \in Contents, h \in {Genesis} \cup {log[j].hash : j \in DOMAIN log} }

Overwrite(i, e) ==
  /\ changes < MaxChanges
  /\ log' = [log EXCEPT ![i] = e]
  /\ changes' = changes + 1
  /\ UNCHANGED <<busy, prev, written>>

OverwrittenNext ==
  Next \/ \E i \in DOMAIN log : \E e \in Rewritten(i) : Overwrite(i, e)

OverwrittenSpec == Init /\ [][OverwrittenNext]_vars

-----------------------------------------------------------------------------
(* Properties *)

\* Every variable has its type.
TypeOK ==
  /\ log \in Seq(Entry)
  /\ busy \subseteq Writers
  /\ prev \in [Writers -> Hash]
  /\ written \in Seq(Entry)
  /\ changes \in Nat

\* No two records raced: each of them selected the hash of another entry.
Unforked(entries) ==
  \A i, j \in DOMAIN entries : entries[i].prev = entries[j].prev => i = j

\* However many connections write, of a log that nobody has changed, and in which no
\* two records selected the same entry, query_audit says chain_valid exactly when the
\* rows it selects are the first ones of the log, with no other agent's in between:
\* after every statement and whatever was given up on the way.
ChainValid ==
  changes = 0 /\ Unforked(log) =>
    \A rows \in Selections(log) :
      VerifyChain(log, rows) <=> \A i \in rows : i = 1 \/ i - 1 \in rows

\* However many connections write: as long as nobody changes a row, every entry hangs
\* on the genesis value or on an entry recorded before it, so the entries form a tree
\* with no loose ends, even where they do not form a chain.
NoDanglingLink ==
  changes = 0 =>
    \A i \in DOMAIN log :
      log[i].prev = Genesis \/ \E j \in 1..(i - 1) : log[j].hash = log[i].prev

\* The head of the chain as a ledger: the last hash commits to every content
\* recorded, in order, and each record appends one to it.
Ledger == INSTANCE AuditLedger WITH ledger <- LastHash(log)

\* With one writer the log implements the ledger.
ImplementsLedger == Ledger!Spec

\* With any number of them it does so for as long as nobody changes a row and no two
\* records raced: what the head commits to is never lost or changed, and grows by one
\* entry at a time.
LedgerKept ==
  [][changes' = 0 /\ Unforked(log') => [Ledger!Next]_(LastHash(log))]_vars

\* A log verifies as a whole.
Verifies(entries) == VerifyChain(entries, DOMAIN entries)

\* Whatever the rows are changed to, hashes included, somebody who kept the last hash
\* sees it: if what was inserted was a chain, a log that verifies and still ends in
\* the same hash says from its second entry on what was recorded.
HeadCommits ==
  /\ Verifies(log)
  /\ Verifies(written)
  /\ LastHash(log) = LastHash(written)
  => \A i \in 2..Len(log) : log[i] = written[i]

-----------------------------------------------------------------------------
(* What the documents say and the code does not do (README, section 5) *)

\* "Modify an entry | Chain hash breaks at that entry"
ChangesDetected == Verifies(log) => log = written

\* The rows of an agent verify unless somebody changed the log or records raced.
OwnRowsVerify ==
  changes = 0 /\ Unforked(log) => \A a \in Agents : VerifyChain(log, RowsOf(log, a))

=============================================================================
