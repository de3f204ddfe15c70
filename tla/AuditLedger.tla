----------------------------- MODULE AuditLedger -----------------------------
(***************************************************************************)
(* What the audit log promises (SECURITY.md, "Audit Log Integrity"): a     *)
(* ledger that only grows, by one entry at a time, and of which nothing    *)
(* that was recorded is ever lost or changed.                              *)
(***************************************************************************)
EXTENDS Naturals, Sequences

CONSTANTS
  Contents,   \* what an entry says
  MaxEntries  \* bound on the length of the ledger

VARIABLE ledger

Init == ledger = << >>

Record(c) ==
  /\ Len(ledger) < MaxEntries
  /\ ledger' = Append(ledger, c)

Next == \E c \in Contents : Record(c)

Spec == Init /\ [][Next]_ledger
=============================================================================
