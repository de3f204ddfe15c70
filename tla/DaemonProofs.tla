---------------------------- MODULE DaemonProofs ----------------------------
(***************************************************************************)
(* Proofs about the daemon.  Supervisor: for any sets of names and clients *)
(* and any restart budget and window.  Mesh: for any requests, peers and   *)
(* licenses.  Updates: for any requests and any versions.                  *)
(***************************************************************************)
EXTENDS Supervisor, Mesh, Updates, FiniteSetTheorems, SequenceTheorems, TLAPS

-----------------------------------------------------------------------------
(* The inductive invariant *)

\* Without a daemon there is no agent and no request in memory.
DownIsEmpty ==
  main = "down" => /\ \A n \in Names : agents[n] = Absent
                   /\ requests = {}

\* A name without an entry has no history.
AbsentIsFresh ==
  \A n \in Names : agents[n].status = "absent"
                     => agents[n].restarts = {} /\ marks[n] = {}

\* The timestamps that still count are the automatic restarts the observer
\* saw.  For an expired agent they may be more: check_health pushes one and
\* then stops the agent instead of restarting it.
TimestampsAreMarks ==
  \A n \in Names : /\ marks[n] \subseteq Retain(agents[n].restarts)
                   /\ ~expired[n] => marks[n] = Retain(agents[n].restarts)

IndInv ==
  /\ TypeOK
  /\ StatusMatchesProcess
  /\ DownIsEmpty
  /\ AbsentIsFresh
  /\ TimestampsAreMarks
  /\ RestartBudget

-----------------------------------------------------------------------------
(* Ages *)

\* Ageing a set of ages keeps it a set of ages, and does not make it larger.
LEMMA GrowBounded ==
  ASSUME NEW s \in SUBSET (0..Window)
  PROVE  /\ Grow(s) \in SUBSET (0..Window)
         /\ IsFiniteSet(s) /\ IsFiniteSet(Grow(s))
         /\ Cardinality(Grow(s)) <= Cardinality(s)
<1> DEFINE f == [a \in s |-> IF a < Window THEN a + 1 ELSE Window]
<1>1. Window \in Nat \ {0}
  BY SupervisorAssumption
<1>2. Grow(s) \in SUBSET (0..Window)
  BY <1>1 DEF Grow
<1>3. IsFiniteSet(s)
  <2>1. IsFiniteSet(0..Window)
    BY <1>1, FS_Interval
  <2> QED
    BY <2>1, FS_Subset
<1>4. f \in Surjection(s, Grow(s))
  BY DEF Surjection, Grow
<1> QED
  BY <1>2, <1>3, <1>4, FS_Surjection

\* Forgetting the ages that no longer count keeps a subset.
LEMMA RetainBounded ==
  ASSUME NEW s \in SUBSET (0..Window)
  PROVE  /\ Retain(s) \in SUBSET (0..Window)
         /\ Retain(s) \subseteq s
         /\ IsFiniteSet(Retain(s))
         /\ Cardinality(Retain(s)) <= Cardinality(s)
         /\ Cardinality(Retain(s)) \in Nat
         /\ Cardinality(s) \in Nat
<1>1. IsFiniteSet(s)
  BY GrowBounded
<1>2. Retain(s) \subseteq s
  BY DEF Retain
<1> QED
  BY <1>1, <1>2, FS_Subset, FS_CardinalityType

\* An empty history stays empty.
LEMMA NothingAges == Grow({}) = {} /\ Retain({}) = {}
BY DEF Grow, Retain

\* Ageing and forgetting commute with forgetting first: an age that no longer
\* counts never counts again.
LEMMA RetainGrow ==
  ASSUME NEW s \in SUBSET (0..Window)
  PROVE  Retain(Grow(Retain(s))) = Retain(Grow(s))
BY SupervisorAssumption DEF Retain, Grow

-----------------------------------------------------------------------------
(* One agent under check_health *)

\* A health pass leaves an agent of the right type, whose status matches its
\* process if it did before.
LEMMA CheckedType ==
  ASSUME NEW n \in Names, NEW p \in AgentProcess
  PROVE  /\ Checked(n, p) \in AgentProcess
         /\ (p.status = "running" <=> p.child # "none")
              => (Checked(n, p).status = "running" <=> Checked(n, p).child # "none")
         /\ p.status = "absent" => Checked(n, p) = p
         /\ Checked(n, p).status = "absent" => p.status = "absent"
<1>1. Window \in Nat \ {0}
  BY SupervisorAssumption
<1>2. Retain(p.restarts) \in SUBSET (0..Window)
  BY RetainBounded DEF AgentProcess
<1>3. Reap(n, p) \in AgentProcess /\ Reap(n, p).child = "none"
      /\ Reap(n, p).status \in {"stopped", "starting", "crashed"}
  <2> DEFINE kept == Retain(p.restarts)
  <2>1. kept \cup {0} \in SUBSET (0..Window)
    BY <1>1, <1>2
  <2>3. CASE p.child = "exit0" /\ n \notin RestartOnSuccess
    BY <2>3 DEF Reap, AgentProcess, Status, Child
  <2>4. CASE ~(p.child = "exit0" /\ n \notin RestartOnSuccess) /\ BudgetLeft(kept)
    <3>1. Reap(n, p) = [p EXCEPT !.status = "starting", !.child = "none",
                                 !.restarts = kept \cup {0}]
      BY <2>4 DEF Reap
    <3> HIDE DEF kept
    <3> QED
      BY <2>1, <3>1 DEF AgentProcess, Status, Child
  <2>5. CASE ~(p.child = "exit0" /\ n \notin RestartOnSuccess) /\ ~BudgetLeft(kept)
    <3>1. Reap(n, p) = [p EXCEPT !.status = "crashed", !.child = "none",
                                 !.restarts = kept]
      BY <2>5 DEF Reap
    <3>2. kept \in SUBSET (0..Window)
      BY <1>2
    <3> HIDE DEF kept
    <3> QED
      BY <3>1, <3>2 DEF AgentProcess, Status, Child
  <2> QED
    BY <2>3, <2>4, <2>5
<1>4. \A q \in AgentProcess :
        /\ Expire(n, q) \in AgentProcess
        /\ Expire(n, q) = q \/ (Expire(n, q).child = "none" /\ Expire(n, q).status = "stopped")
  BY DEF Expire, AgentProcess, Status, Child
<1>5. CASE p.status # "running"
  BY <1>5 DEF Checked
<1>6. CASE p.status = "running" /\ p.child \in Exited
  BY <1>3, <1>4, <1>6 DEF Checked
<1>7. CASE p.status = "running" /\ p.child \notin Exited
  BY <1>4, <1>7 DEF Checked
<1> QED
  BY <1>5, <1>6, <1>7

-----------------------------------------------------------------------------
(* Preservation of the invariant, one lemma per group of actions *)

USE DEF Absent, NewProcess

\* The initial state satisfies the invariant.
LEMMA InitInv == Init => IndInv
<1> SUFFICES ASSUME Init PROVE IndInv
  OBVIOUS
<1>1. Cardinality({}) = 0 /\ MaxRestarts \in Nat
  BY FS_EmptySet, SupervisorAssumption
<1>2. TypeOK
  BY DEF Init, TypeOK, AgentProcess, Status, Child, Disk, MainPC
<1>3. TimestampsAreMarks
  BY DEF Init, TimestampsAreMarks, Retain
<1>4. RestartBudget
  BY <1>1 DEF Init, RestartBudget
<1> QED
  BY <1>2, <1>3, <1>4 DEF Init, IndInv, StatusMatchesProcess, DownIsEmpty, AbsentIsFresh

\* Steps that change only the status, child and proxy of an existing entry, in
\* a way that keeps status and child in step.
Adjusts(n) ==
  \E st \in Status \ {"absent"}, ch \in Child, px \in BOOLEAN :
    /\ st = "running" <=> ch # "none"
    /\ agents[n].status # "absent"
    /\ agents' = [agents EXCEPT ![n].status = st, ![n].child = ch, ![n].proxy = px]

\* Such a step keeps the invariant.
LEMMA AdjustInv ==
  ASSUME IndInv, NEW n \in Names, Adjusts(n),
         main # "down", main' # "down" \/ UNCHANGED main,
         UNCHANGED <<expired, marks>>,
         disk' \in [Names -> Disk], leaked' \in [Names -> BOOLEAN],
         stray' \in [Names -> BOOLEAN], main' \in MainPC,
         todo' \subseteq Names, shutdown' \in BOOLEAN, requests' \subseteq Request
  PROVE  IndInv'
<1>1. PICK st \in Status \ {"absent"}, ch \in Child, px \in BOOLEAN :
        /\ st = "running" <=> ch # "none"
        /\ agents[n].status # "absent"
        /\ agents' = [agents EXCEPT ![n].status = st, ![n].child = ch, ![n].proxy = px]
  BY DEF Adjusts
<1>2. agents \in [Names -> AgentProcess]
  BY DEF IndInv, TypeOK
<1>3. agents' \in [Names -> AgentProcess]
  <2> DEFINE q == [agents[n] EXCEPT !.status = st, !.child = ch, !.proxy = px]
  <2>1. q \in AgentProcess
    BY <1>1, <1>2 DEF AgentProcess
  <2>2. agents' = [agents EXCEPT ![n] = q]
    BY <1>1, <1>2 DEF AgentProcess
  <2> HIDE DEF q
  <2> QED
    BY <1>2, <2>1, <2>2
<1>4. \A m \in Names : agents'[m].restarts = agents[m].restarts
  BY <1>1, <1>2 DEF AgentProcess
<1>5. \A m \in Names : \/ m # n /\ agents'[m] = agents[m]
                       \/ m = n /\ agents'[m].status = st /\ agents'[m].child = ch
  BY <1>1, <1>2 DEF AgentProcess
<1>6. TypeOK'
  BY <1>3 DEF IndInv, TypeOK
<1>7. StatusMatchesProcess'
  BY <1>1, <1>5 DEF IndInv, StatusMatchesProcess
<1>8. AbsentIsFresh'
  BY <1>1, <1>4, <1>5 DEF IndInv, AbsentIsFresh
<1>9. TimestampsAreMarks'
  BY <1>4 DEF IndInv, TimestampsAreMarks
<1> QED
  BY <1>6, <1>7, <1>8, <1>9 DEF IndInv, DownIsEmpty, RestartBudget

\* start_agent adjusts an entry, or changes nothing but leaked.
LEMMA StartAdjusts ==
  ASSUME TypeOK, NEW n \in Names, StartAgent(n)
  PROVE  /\ Adjusts(n) \/ UNCHANGED agents
         /\ leaked' \in [Names -> BOOLEAN]
<1>1. CASE UNCHANGED agents
  BY <1>1 DEF StartAgent, Detach, TypeOK, AgentProcess
<1>2. ASSUME NEW p \in BOOLEAN,
             agents' = [agents EXCEPT ![n].status = "running",
                                      ![n].child = "alive", ![n].proxy = p],
             agents[n].status # "absent", Detach(n)
      PROVE  Adjusts(n) /\ leaked' \in [Names -> BOOLEAN]
  <2>1. leaked' \in [Names -> BOOLEAN]
    BY <1>2 DEF Detach, TypeOK, AgentProcess
  <2>2. "running" \in Status \ {"absent"} /\ "alive" \in Child
    BY DEF Status, Child
  <2> QED
    BY <1>2, <2>1, <2>2 DEF Adjusts
<1> QED
  BY <1>1, <1>2 DEF StartAgent

\* stop_agent adjusts an entry.
LEMMA StopAdjusts ==
  ASSUME TypeOK, NEW n \in Names, StopAgent(n)
  PROVE  Adjusts(n)
<1>1. agents' = [agents EXCEPT ![n].status = "stopped", ![n].child = "none",
                               ![n].proxy = FALSE]
  BY DEF StopAgent, Halted, TypeOK, AgentProcess
<1>2. "stopped" \in Status \ {"absent"} /\ "none" \in Child
  BY DEF Status, Child
<1> QED
  BY <1>1, <1>2 DEF Adjusts, StopAgent

\* A step that leaves agents, expiries and history alone keeps the invariant.
LEMMA QuietInv ==
  ASSUME IndInv, UNCHANGED <<agents, expired, marks>>,
         main' # "down" \/ UNCHANGED <<main, requests>>,
         disk' \in [Names -> Disk], leaked' \in [Names -> BOOLEAN],
         stray' \in [Names -> BOOLEAN], main' \in MainPC,
         todo' \subseteq Names, shutdown' \in BOOLEAN, requests' \subseteq Request
  PROVE  IndInv'
BY DEF IndInv, TypeOK, StatusMatchesProcess, DownIsEmpty, AbsentIsFresh,
       TimestampsAreMarks, RestartBudget

\* Requests only exist while the daemon runs, and their next stage is a request.
LEMMA RequestType ==
  ASSUME IndInv, NEW r \in requests, NEW s \in Stage
  PROVE  /\ main # "down"
         /\ r.name \in Names
         /\ r.who \in Clients
         /\ [r EXCEPT !.at = s] \in Request
         /\ Advance(r, s) => requests' \subseteq Request
         /\ Finish(r) => requests' \subseteq Request
<1>1. r \in Request /\ requests \subseteq Request
  BY DEF IndInv, TypeOK
<1>2. main # "down"
  BY DEF IndInv, DownIsEmpty
<1>3. [r EXCEPT !.at = s] \in Request
  BY <1>1 DEF Request
<1> QED
  BY <1>1, <1>2, <1>3 DEF Request, Advance, Finish

\* The end of the daemon process.
LEMMA VanishInv ==
  ASSUME IndInv, Vanish, UNCHANGED <<disk, expired>>, stray' \in [Names -> BOOLEAN]
  PROVE  IndInv'
<1>1. Cardinality({}) = 0 /\ MaxRestarts \in Nat
  BY FS_EmptySet, SupervisorAssumption
<1>2. TypeOK'
  BY DEF IndInv, Vanish, TypeOK, AgentProcess, Status, Child, MainPC
<1>3. TimestampsAreMarks' /\ AbsentIsFresh' /\ StatusMatchesProcess' /\ DownIsEmpty'
  BY DEF Vanish, TimestampsAreMarks, AbsentIsFresh, StatusMatchesProcess,
         DownIsEmpty, Retain
<1>4. RestartBudget'
  BY <1>1 DEF Vanish, RestartBudget
<1> QED
  BY <1>2, <1>3, <1>4 DEF IndInv

\* Replacing or dropping one entry together with its history.
LEMMA ResetInv ==
  ASSUME IndInv, NEW n \in Names, NEW st \in {"absent", "creating"},
         main # "down",
         Detach(n), agents' = [agents EXCEPT ![n] = NewProcess(st)],
         marks' = [marks EXCEPT ![n] = {}],
         expired' \in {expired, [expired EXCEPT ![n] = FALSE]},
         UNCHANGED <<disk, stray, main, todo, shutdown>>, requests' \subseteq Request
  PROVE  IndInv'
<1>1. Cardinality({}) = 0 /\ MaxRestarts \in Nat
  BY FS_EmptySet, SupervisorAssumption
<1>2. agents \in [Names -> AgentProcess] /\ marks \in [Names -> SUBSET (0..Window)]
  BY DEF IndInv, TypeOK
<1>3. NewProcess(st) \in AgentProcess
  BY DEF AgentProcess, Status, Child
<1>4. agents' \in [Names -> AgentProcess] /\ leaked' \in [Names -> BOOLEAN]
      /\ expired' \in [Names -> BOOLEAN]
  BY <1>2, <1>3 DEF IndInv, TypeOK, Detach, AgentProcess
<1>5. \A m \in Names :
        \/ m # n /\ agents'[m] = agents[m] /\ marks'[m] = marks[m]
                 /\ expired'[m] = expired[m]
        \/ m = n /\ agents'[m].status = st /\ agents'[m].child = "none"
                 /\ agents'[m].restarts = {} /\ marks'[m] = {}
  BY <1>2 DEF IndInv, TypeOK
<1>6. TypeOK'
  BY <1>2, <1>4 DEF IndInv, TypeOK
<1>7. StatusMatchesProcess'
  BY <1>5 DEF IndInv, StatusMatchesProcess
<1>8. AbsentIsFresh'
  BY <1>5 DEF IndInv, AbsentIsFresh
<1>9. TimestampsAreMarks'
  BY <1>5 DEF IndInv, TimestampsAreMarks, Retain
<1>10. RestartBudget'
  BY <1>1, <1>5 DEF IndInv, RestartBudget
<1> QED
  BY <1>6, <1>7, <1>8, <1>9, <1>10 DEF IndInv, DownIsEmpty

\* An expiry, or the end of one for a name that has no entry.
LEMMA ExpiryInv ==
  ASSUME IndInv, UNCHANGED <<agents, marks>>, expired' \in [Names -> BOOLEAN],
         \A n \in Names : expired[n] /\ ~expired'[n] => agents[n].status = "absent",
         main' # "down" \/ UNCHANGED requests, UNCHANGED main,
         disk' \in [Names -> Disk], requests' \subseteq Request,
         UNCHANGED <<leaked, stray, todo, shutdown>>
  PROVE  IndInv'
<1>1. TypeOK'
  BY DEF IndInv, TypeOK
<1>2. TimestampsAreMarks'
  BY DEF IndInv, TimestampsAreMarks, AbsentIsFresh, Retain
<1> QED
  BY <1>1, <1>2 DEF IndInv, StatusMatchesProcess, DownIsEmpty, AbsentIsFresh,
                    RestartBudget

-----------------------------------------------------------------------------
(* Time and check_health *)

\* What a health pass does to the timestamps of an agent, and when.
LEMMA CheckedTimestamps ==
  ASSUME NEW n \in Names, NEW p \in AgentProcess
  PROVE  LET q == Checked(n, p)
             kept == Retain(p.restarts)
         IN  \/ /\ q.restarts = p.restarts
                /\ q.status = p.status \/ q.status = "stopped"
             \/ /\ q.restarts = kept \cup {0}
                /\ BudgetLeft(kept)
                /\ p.status = "running"
                /\ q.status = IF expired[n] THEN "stopped" ELSE "starting"
             \/ /\ q.restarts = kept
                /\ ~BudgetLeft(kept)
                /\ q.status = IF expired[n] THEN "stopped" ELSE "crashed"
<1> DEFINE kept == Retain(p.restarts)
<1>1. \A x \in AgentProcess :
        /\ Expire(n, x).restarts = x.restarts
        /\ Expire(n, x).status = IF expired[n] THEN "stopped" ELSE x.status
  BY DEF Expire, AgentProcess
<1>2. Reap(n, p) \in AgentProcess
  <2> USE SupervisorAssumption
  <2>1. kept \in SUBSET (0..Window) /\ kept \cup {0} \in SUBSET (0..Window)
    BY RetainBounded DEF AgentProcess
  <2> HIDE DEF kept
  <2>2. p.child = "exit0" /\ n \notin RestartOnSuccess => Reap(n, p) \in AgentProcess
    BY DEF Reap, AgentProcess, Status, Child
  <2>3. ~(p.child = "exit0" /\ n \notin RestartOnSuccess)
          => \/ Reap(n, p) = [p EXCEPT !.status = "starting", !.child = "none",
                                       !.restarts = kept \cup {0}]
             \/ Reap(n, p) = [p EXCEPT !.status = "crashed", !.child = "none",
                                       !.restarts = kept]
    BY DEF Reap, kept
  <2>4. /\ [p EXCEPT !.status = "starting", !.child = "none", !.restarts = kept \cup {0}]
             \in AgentProcess
        /\ [p EXCEPT !.status = "crashed", !.child = "none", !.restarts = kept]
             \in AgentProcess
    BY <2>1 DEF AgentProcess, Status, Child
  <2> QED
    BY <2>2, <2>3, <2>4
<1>3. \/ Reap(n, p).restarts = p.restarts /\ Reap(n, p).status = "stopped"
      \/ /\ Reap(n, p).restarts = kept \cup {0} /\ BudgetLeft(kept)
         /\ Reap(n, p).status = "starting"
      \/ /\ Reap(n, p).restarts = kept /\ ~BudgetLeft(kept)
         /\ Reap(n, p).status = "crashed"
  BY DEF Reap, AgentProcess
<1>4. CASE p.status # "running"
  BY <1>4 DEF Checked
<1>5. CASE p.status = "running" /\ p.child \in Exited
  <2>1. Checked(n, p) = Expire(n, Reap(n, p))
    BY <1>5 DEF Checked
  <2> HIDE DEF kept
  <2>2. Checked(n, p).restarts = Reap(n, p).restarts
        /\ Checked(n, p).status = IF expired[n] THEN "stopped" ELSE Reap(n, p).status
    BY <1>1, <1>2, <2>1
  <2> QED
    BY <1>3, <1>5, <2>2 DEF kept
<1>6. CASE p.status = "running" /\ p.child \notin Exited
  BY <1>1, <1>6 DEF Checked
<1> QED
  BY <1>4, <1>5, <1>6

\* A tick: the timestamps and the observer's marks age alike.
LEMMA AgedFacts ==
  ASSUME IndInv, NEW n \in Names
  PROVE  LET older == Retain(Grow(marks[n])) IN
         /\ Aged(n) \in AgentProcess
         /\ Aged(n).status = agents[n].status
         /\ Aged(n).child = agents[n].child
         /\ Aged(n).restarts = Grow(agents[n].restarts)
         /\ agents[n] = Absent => Aged(n) = Absent
         /\ older \in SUBSET (0..Window)
         /\ older \subseteq Retain(Aged(n).restarts)
         /\ Retain(older) = older
         /\ ~expired[n] => older = Retain(Aged(n).restarts)
         /\ IsFiniteSet(older)
         /\ Cardinality(older) \in Nat
         /\ Cardinality(older) <= MaxRestarts
<1> DEFINE rs == agents[n].restarts
<1>1. agents[n] \in AgentProcess /\ marks[n] \in SUBSET (0..Window)
      /\ MaxRestarts \in Nat
  BY SupervisorAssumption DEF IndInv, TypeOK
<1>2. rs \in SUBSET (0..Window)
  BY <1>1 DEF AgentProcess
<1>3. Grow(rs) \in SUBSET (0..Window) /\ Grow(marks[n]) \in SUBSET (0..Window)
  BY <1>1, <1>2, GrowBounded
<1>4. Aged(n) \in AgentProcess /\ Aged(n).status = agents[n].status
      /\ Aged(n).child = agents[n].child /\ Aged(n).restarts = Grow(rs)
  BY <1>1, <1>3 DEF Aged, AgentProcess
<1>5. agents[n] = Absent => Aged(n) = Absent
  BY DEF Aged, Grow
<1>6. Retain(Grow(Retain(rs))) = Retain(Grow(rs))
  BY <1>2, RetainGrow
<1>7. /\ marks[n] \subseteq Retain(rs)
      /\ ~expired[n] => marks[n] = Retain(rs)
  BY DEF IndInv, TimestampsAreMarks
<1>8. Retain(Grow(marks[n])) \subseteq Retain(Grow(Retain(rs)))
  BY <1>7 DEF Retain, Grow
<1>9. Retain(Retain(Grow(marks[n]))) = Retain(Grow(marks[n]))
  BY DEF Retain
<1>10. /\ IsFiniteSet(Retain(Grow(marks[n])))
       /\ Cardinality(Retain(Grow(marks[n]))) \in Nat
       /\ Cardinality(Retain(Grow(marks[n]))) <= Cardinality(Grow(marks[n]))
       /\ Cardinality(Grow(marks[n])) \in Nat
  BY <1>3, RetainBounded
<1>11. /\ Cardinality(Grow(marks[n])) <= Cardinality(marks[n])
       /\ Cardinality(marks[n]) \in Nat
  BY <1>1, GrowBounded, RetainBounded
<1>12. Cardinality(marks[n]) <= MaxRestarts
  BY DEF IndInv, RestartBudget
<1>13. Retain(Grow(marks[n])) \in SUBSET (0..Window)
  BY <1>3, RetainBounded
<1>14. Cardinality(Retain(Grow(marks[n]))) <= MaxRestarts
  BY <1>1, <1>10, <1>11, <1>12
<1> QED
  BY <1>4, <1>5, <1>6, <1>7, <1>8, <1>9, <1>10, <1>13, <1>14

\* Time passing outside of the main loop keeps the invariant.
LEMMA TickInv == IndInv /\ Tick => IndInv'
<1> SUFFICES ASSUME IndInv, Tick PROVE IndInv'
  OBVIOUS
<1>1. \A n \in Names : agents'[n] = Aged(n) /\ marks'[n] = Retain(Grow(marks[n]))
  BY DEF Tick
<1>2. TypeOK'
  <2>1. agents' \in [Names -> AgentProcess] /\ marks' \in [Names -> SUBSET (0..Window)]
    BY AgedFacts DEF Tick
  <2> QED
    BY <2>1 DEF IndInv, TypeOK, Tick
<1>3. StatusMatchesProcess'
  BY <1>1, AgedFacts DEF IndInv, StatusMatchesProcess
<1>4. DownIsEmpty'
  BY <1>1, AgedFacts DEF IndInv, DownIsEmpty, Tick
<1>5. AbsentIsFresh'
  <2> SUFFICES ASSUME NEW n \in Names, agents'[n].status = "absent"
               PROVE  agents'[n].restarts = {} /\ marks'[n] = {}
    BY DEF AbsentIsFresh
  <2>1. agents[n].status = "absent"
    BY <1>1, AgedFacts
  <2>2. agents[n].restarts = {} /\ marks[n] = {}
    BY <2>1 DEF IndInv, AbsentIsFresh
  <2>3. agents'[n].restarts = Grow({}) /\ marks'[n] = Retain(Grow({}))
    BY <1>1, <2>2, AgedFacts
  <2> QED
    BY <2>3, NothingAges
<1>6. TimestampsAreMarks'
  BY <1>1, AgedFacts DEF TimestampsAreMarks, Tick
<1>7. RestartBudget'
  BY <1>1, AgedFacts DEF RestartBudget
<1> QED
  BY <1>2, <1>3, <1>4, <1>5, <1>6, <1>7 DEF IndInv

\* What a health pass does to the marks of an agent: unless the agent expired,
\* they stay the timestamps that count; they stay within the budget; and an
\* agent is given up only when they exhaust it.
LEMMA HealthMarks ==
  ASSUME IndInv, LoopHealth, NEW n \in Names
  PROVE  /\ marks'[n] \in SUBSET (0..Window)
         /\ marks'[n] \subseteq Retain(agents'[n].restarts)
         /\ ~expired[n] => marks'[n] = Retain(agents'[n].restarts)
         /\ Cardinality(marks'[n]) <= MaxRestarts
         /\ agents[n].status = "absent" => marks'[n] = Retain(Grow(marks[n]))
         /\ agents[n].status # "crashed" /\ agents'[n].status = "crashed"
              => Cardinality(marks'[n]) = MaxRestarts
<1> DEFINE p == Aged(n)
           kept == Retain(p.restarts)
           older == Retain(Grow(marks[n]))
<1>1. Window \in Nat \ {0} /\ MaxRestarts \in Nat
  BY SupervisorAssumption
<1>2. agents'[n] = Checked(n, p)
  BY DEF LoopHealth
<1>3. marks'[n] = older \cup (IF agents[n].status = "running" /\ agents'[n].status = "starting"
                               THEN {0} ELSE {})
  BY DEF LoopHealth
<1>4. /\ p \in AgentProcess /\ p.status = agents[n].status
      /\ older \in SUBSET (0..Window) /\ older \subseteq kept
      /\ ~expired[n] => older = kept
      /\ IsFiniteSet(older)
      /\ Cardinality(older) \in Nat /\ Cardinality(older) <= MaxRestarts
  BY AgedFacts
<1>5. kept \in SUBSET (0..Window) /\ IsFiniteSet(kept) /\ Cardinality(kept) \in Nat
      /\ Retain(kept) = kept /\ Retain(kept \cup {0}) = kept \cup {0}
  <2>1. kept \in SUBSET (0..Window) /\ IsFiniteSet(kept) /\ Cardinality(kept) \in Nat
    BY <1>4, RetainBounded DEF AgentProcess
  <2>2. Retain(kept) = kept /\ Retain(kept \cup {0}) = kept \cup {0}
    BY <1>1 DEF Retain
  <2> QED
    BY <2>1, <2>2
<1>6. Cardinality(older) <= Cardinality(kept)
  BY <1>4, <1>5, FS_Subset
<1>7. \/ /\ agents'[n].restarts = p.restarts
         /\ agents'[n].status = p.status \/ agents'[n].status = "stopped"
      \/ /\ agents'[n].restarts = kept \cup {0}
         /\ BudgetLeft(kept)
         /\ p.status = "running"
         /\ agents'[n].status = IF expired[n] THEN "stopped" ELSE "starting"
      \/ /\ agents'[n].restarts = kept
         /\ ~BudgetLeft(kept)
         /\ agents'[n].status = IF expired[n] THEN "stopped" ELSE "crashed"
  BY <1>2, <1>4, CheckedTimestamps
<1>8. CASE /\ agents'[n].restarts = p.restarts
           /\ agents'[n].status = p.status \/ agents'[n].status = "stopped"
  <2>1. marks'[n] = older
    BY <1>3, <1>4, <1>8
  <2>2. Retain(agents'[n].restarts) = kept
    BY <1>8
  <2> HIDE DEF p, kept, older
  <2> QED
    BY <1>4, <1>8, <2>1, <2>2 DEF older
<1>9. CASE /\ agents'[n].restarts = kept \cup {0}
           /\ BudgetLeft(kept)
           /\ p.status = "running"
           /\ agents'[n].status = IF expired[n] THEN "stopped" ELSE "starting"
  <2>1. marks'[n] = IF expired[n] THEN older ELSE older \cup {0}
    BY <1>3, <1>4, <1>9
  <2>2. Retain(agents'[n].restarts) = kept \cup {0}
    BY <1>5, <1>9
  <2>3. Cardinality(older \cup {0}) <= MaxRestarts
    <3>1. Cardinality(older) < MaxRestarts
      BY <1>1, <1>4, <1>5, <1>6, <1>9 DEF BudgetLeft
    <3> HIDE DEF older
    <3>2. Cardinality(older \cup {0})
            = IF 0 \in older THEN Cardinality(older) ELSE Cardinality(older) + 1
      BY <1>4, FS_AddElement
    <3> QED
      BY <1>1, <1>4, <3>1, <3>2
  <2> HIDE DEF p, kept, older
  <2>4. older \cup {0} \in SUBSET (0..Window)
    BY <1>1, <1>4
  <2> QED
    BY <1>4, <1>9, <2>1, <2>2, <2>3, <2>4
<1>10. CASE /\ agents'[n].restarts = kept
            /\ ~BudgetLeft(kept)
            /\ agents'[n].status = IF expired[n] THEN "stopped" ELSE "crashed"
  <2>1. marks'[n] = older
    BY <1>3, <1>10
  <2>2. Retain(agents'[n].restarts) = kept
    BY <1>5, <1>10
  <2>3. ~expired[n] => Cardinality(older) = MaxRestarts
    BY <1>1, <1>4, <1>5, <1>10 DEF BudgetLeft
  <2> HIDE DEF p, kept
  <2> QED
    BY <1>4, <1>10, <2>1, <2>2, <2>3
<1> QED
  BY <1>7, <1>8, <1>9, <1>10

\* A health pass keeps the invariant.
LEMMA HealthInv == IndInv /\ LoopHealth => IndInv'
<1> SUFFICES ASSUME IndInv, LoopHealth PROVE IndInv'
  OBVIOUS
<1>1. \A n \in Names : agents'[n] = Checked(n, Aged(n))
  BY DEF LoopHealth
<1>2. TypeOK'
  <2>1. agents' \in [Names -> AgentProcess]
    BY AgedFacts, CheckedType DEF LoopHealth
  <2>2. marks' \in [Names -> SUBSET (0..Window)]
    <3>1. \A n \in Names : marks'[n] \in SUBSET (0..Window)
      BY HealthMarks
    <3>2. marks' = [n \in Names |-> marks'[n]]
      BY DEF LoopHealth
    <3> QED
      BY <3>1, <3>2
  <2> QED
    BY <2>1, <2>2 DEF IndInv, TypeOK, LoopHealth, MainPC
<1>3. StatusMatchesProcess'
  BY <1>1, AgedFacts, CheckedType DEF IndInv, StatusMatchesProcess
<1>4. DownIsEmpty'
  BY DEF DownIsEmpty, LoopHealth
<1>5. AbsentIsFresh'
  <2> SUFFICES ASSUME NEW n \in Names, agents'[n].status = "absent"
               PROVE  agents'[n].restarts = {} /\ marks'[n] = {}
    BY DEF AbsentIsFresh
  <2>1. agents[n].status = "absent" /\ agents'[n] = Aged(n)
    BY <1>1, AgedFacts, CheckedType
  <2>2. agents[n].restarts = {} /\ marks[n] = {}
    BY <2>1 DEF IndInv, AbsentIsFresh
  <2>3. marks'[n] = Retain(Grow(marks[n]))
    BY <2>1, HealthMarks
  <2>4. agents'[n].restarts = Grow({}) /\ marks'[n] = Retain(Grow({}))
    BY <2>1, <2>2, <2>3, AgedFacts
  <2> QED
    BY <2>4, NothingAges
<1>6. TimestampsAreMarks'
  BY HealthMarks DEF TimestampsAreMarks, LoopHealth
<1>7. RestartBudget'
  BY HealthMarks DEF RestartBudget
<1> QED
  BY <1>2, <1>3, <1>4, <1>5, <1>6, <1>7 DEF IndInv

-----------------------------------------------------------------------------
(* Every step *)

\* Every step of the main loop keeps the invariant.
LEMMA MainLoopInv == IndInv /\ MainLoop => IndInv'
<1> SUFFICES ASSUME IndInv, MainLoop PROVE IndInv'
  OBVIOUS
<1>0. TypeOK
  BY DEF IndInv
<1>1. CASE LoopHealth
  BY <1>1, HealthInv
<1>2. CASE LoopSnapshot
  BY <1>0, <1>2, QuietInv DEF LoopSnapshot, TypeOK, MainPC
<1>3. ASSUME NEW n \in Names, LoopRestart(n) PROVE IndInv'
  <2>1. main # "down" /\ main' = main /\ todo' \subseteq Names
    BY <1>0, <1>3 DEF LoopRestart, TypeOK
  <2>2. CASE StartAgent(n) /\ Adjusts(n)
    BY <1>0, <1>3, <2>1, <2>2, AdjustInv, StartAdjusts DEF LoopRestart, TypeOK
  <2>3. CASE StartAgent(n) /\ UNCHANGED agents
    BY <1>0, <1>3, <2>1, <2>3, QuietInv, StartAdjusts DEF LoopRestart, TypeOK
  <2>4. CASE UNCHANGED <<agents, leaked>>
    BY <1>0, <1>3, <2>1, <2>4, QuietInv DEF LoopRestart, TypeOK
  <2> QED
    BY <1>0, <1>3, <2>2, <2>3, <2>4, StartAdjusts DEF LoopRestart
<1>4. CASE LoopSleep
  BY <1>0, <1>4, QuietInv DEF LoopSleep, TypeOK, MainPC
<1>5. CASE LoopShutdown
  BY <1>0, <1>5, QuietInv DEF LoopShutdown, TypeOK, MainPC, Registered
<1>6. ASSUME NEW n \in Names, LoopStop(n) PROVE IndInv'
  <2>1. main # "down" /\ main' = main /\ todo' \subseteq Names
    BY <1>0, <1>6 DEF LoopStop, TypeOK
  <2>2. CASE StopAgent(n)
    BY <1>0, <1>6, <2>1, <2>2, AdjustInv, StopAdjusts DEF LoopStop, TypeOK
  <2>3. CASE UNCHANGED agents
    BY <1>0, <1>6, <2>1, <2>3, QuietInv DEF LoopStop, TypeOK
  <2> QED
    BY <1>6, <2>2, <2>3 DEF LoopStop
<1>7. CASE LoopExit
  BY <1>0, <1>7, VanishInv DEF LoopExit, TypeOK
<1> QED
  BY <1>1, <1>2, <1>3, <1>4, <1>5, <1>6, <1>7 DEF MainLoop

\* Every step of an IPC request keeps the invariant.
LEMMA IPCInv == IndInv /\ IPC => IndInv'
<1> SUFFICES ASSUME IndInv, IPC PROVE IndInv'
  OBVIOUS
<1>0. TypeOK
  BY DEF IndInv
<1>1. ASSUME NEW n \in Names, AgentsStart(n) PROVE IndInv'
  <2>1. CASE Adjusts(n)
    BY <1>0, <1>1, <2>1, AdjustInv, StartAdjusts DEF AgentsStart, Up, TypeOK
  <2>2. CASE UNCHANGED agents
    BY <1>0, <1>1, <2>2, QuietInv, StartAdjusts DEF AgentsStart, Up, TypeOK
  <2> QED
    BY <1>0, <1>1, <2>1, <2>2, StartAdjusts DEF AgentsStart
<1>2. ASSUME NEW n \in Names, AgentsStop(n) PROVE IndInv'
  BY <1>0, <1>2, AdjustInv, StopAdjusts DEF AgentsStop, Up, TypeOK
<1>3. CASE Shutdown
  BY <1>0, <1>3, QuietInv DEF Shutdown, Up, TypeOK
<1>4. ASSUME NEW c \in Clients, NEW n \in Names, NEW s \in Stage,
             requests' = requests \cup {[who |-> c, name |-> n, at |-> s]}
      PROVE  requests' \subseteq Request
  BY <1>0, <1>4 DEF TypeOK, Request
<1>5. ASSUME NEW c \in Clients, NEW n \in Names, BirthNamed(c, n) PROVE IndInv'
  <2>1. requests' \subseteq Request
    BY <1>4, <1>5 DEF BirthNamed, Stage
  <2> QED
    BY <1>0, <1>5, <2>1, QuietInv DEF BirthNamed, Up, TypeOK
<1>6. ASSUME NEW c \in Clients, NEW n \in Names, DeleteStopped(c, n) PROVE IndInv'
  <2>1. requests' \subseteq Request
    BY <1>4, <1>6 DEF DeleteStopped, Stage
  <2>2. CASE StopAgent(n)
    BY <1>0, <1>6, <2>1, <2>2, AdjustInv, StopAdjusts DEF DeleteStopped, Up, TypeOK
  <2>3. CASE UNCHANGED agents
    BY <1>0, <1>6, <2>1, <2>3, QuietInv DEF DeleteStopped, Up, TypeOK
  <2> QED
    BY <1>6, <2>2, <2>3 DEF DeleteStopped
<1>7. ASSUME NEW r \in requests,
             \/ BirthCounted(r) \/ BirthCertified(r) \/ BirthMeshInstalled(r)
             \/ BirthFallsBack(r)
             \/ BirthWritten(r) \/ BirthInstalled(r)
             \/ BirthSaved(r) \/ BirthRegistered(r)
             \/ DeleteRemoved(r) \/ DeleteForgotten(r)
      PROVE  IndInv'
  <2>1. r.name \in Names /\ main # "down"
    BY RequestType DEF Stage
  <2>2. requests' \subseteq Request
    BY <1>7, RequestType
       DEF BirthCounted, BirthCertified, BirthMeshInstalled, BirthFallsBack,
           BirthWritten, BirthInstalled, BirthSaved, BirthRegistered,
           DeleteRemoved, DeleteForgotten, Stage
  <2>3. \A d \in Disk : [disk EXCEPT ![r.name] = d] \in [Names -> Disk]
    BY <1>0 DEF TypeOK
  <2>4. disk' \in [Names -> Disk]
    BY <1>0, <1>7, <2>1, <2>3
       DEF BirthCounted, BirthCertified, BirthMeshInstalled, BirthFallsBack,
           BirthWritten, BirthInstalled, BirthSaved, BirthRegistered,
           DeleteRemoved, DeleteForgotten, WriteToml, WriteTomlFails, InstallForAgent,
           InstallFails, Disk, TypeOK
  <2>5. CASE \/ BirthCounted(r) \/ BirthMeshInstalled(r) \/ BirthInstalled(r)
             \/ BirthSaved(r) \/ DeleteRemoved(r)
    BY <1>0, <2>1, <2>2, <2>4, <2>5, QuietInv
       DEF BirthCounted, BirthMeshInstalled, BirthInstalled, BirthSaved,
           DeleteRemoved, TypeOK
  <2>6. CASE BirthCertified(r) \/ BirthFallsBack(r) \/ BirthWritten(r)
    <3>1. expired' \in [Names -> BOOLEAN]
      BY <1>0, <2>6 DEF BirthCertified, BirthFallsBack, BirthWritten, WriteToml,
                              WriteTomlFails, TypeOK
    <3>2. \A n \in Names : expired[n] /\ ~expired'[n] => agents[n].status = "absent"
      BY <1>0, <2>1, <2>6
         DEF BirthCertified, BirthFallsBack, BirthWritten, WriteToml, WriteTomlFails,
             TypeOK, Registered
    <3>3. UNCHANGED <<agents, marks, main, leaked, stray, todo, shutdown>>
      BY <2>6 DEF BirthCertified, BirthFallsBack, BirthWritten
    <3> QED
      BY <2>1, <2>2, <2>4, <3>1, <3>2, <3>3, ExpiryInv
  <2>7. CASE BirthRegistered(r)
    BY <2>1, <2>2, <2>7, ResetInv DEF BirthRegistered
  <2>8. CASE DeleteForgotten(r)
    BY <2>1, <2>2, <2>8, ResetInv DEF DeleteForgotten
  <2> QED
    BY <1>7, <2>5, <2>6, <2>7, <2>8
<1> QED
  BY <1>1, <1>2, <1>3, <1>5, <1>6, <1>7 DEF IPC

\* Every step of the environment keeps the invariant.
LEMMA EnvironmentInv == IndInv /\ Environment => IndInv'
<1> SUFFICES ASSUME IndInv, Environment PROVE IndInv'
  OBVIOUS
<1>0. TypeOK
  BY DEF IndInv
<1>1. ASSUME NEW n \in Names, ChildExits(n) PROVE IndInv'
  <2>1. agents[n] \in AgentProcess /\ agents[n].status = "running"
    BY <1>0, <1>1 DEF IndInv, TypeOK, StatusMatchesProcess, ChildExits
  <2>2. main # "down"
    BY <1>1 DEF IndInv, DownIsEmpty, ChildExits
  <2>3. Adjusts(n)
    <3>1. PICK e \in Exited : agents' = [agents EXCEPT ![n].child = e]
      BY <1>1 DEF ChildExits
    <3>2. agents' = [agents EXCEPT ![n].status = "running", ![n].child = e,
                                   ![n].proxy = agents[n].proxy]
      BY <1>0, <2>1, <3>1 DEF TypeOK, AgentProcess
    <3>3. e \in Child /\ e # "none" /\ "running" \in Status \ {"absent"}
          /\ agents[n].proxy \in BOOLEAN
      BY <2>1 DEF Child, Exited, Status, AgentProcess
    <3> QED
      BY <2>1, <3>2, <3>3 DEF Adjusts
  <2> QED
    BY <1>0, <1>1, <2>2, <2>3, AdjustInv DEF ChildExits, TypeOK
<1>2. ASSUME NEW n \in Names, StrayExits(n) PROVE IndInv'
  BY <1>0, <1>2, QuietInv DEF StrayExits, TypeOK
<1>3. ASSUME NEW n \in Names, Expires(n) PROVE IndInv'
  BY <1>0, <1>3, ExpiryInv DEF Expires, TypeOK
<1>4. CASE Tick
  BY <1>4, TickInv
<1>5. CASE Killed
  <2>1. stray' \in [Names -> BOOLEAN]
    BY <1>0, <1>5 DEF Killed, TypeOK
  <2> QED
    BY <1>5, <2>1, VanishInv DEF Killed
<1>6. CASE Boot
  <2>1. \A n \in Names : agents[n] = Absent
    BY <1>6 DEF IndInv, DownIsEmpty, Boot
  <2>2. \A n \in Names : marks[n] = {}
    BY <2>1 DEF IndInv, AbsentIsFresh
  <2>3. \A n \in Names : /\ agents'[n] \in AgentProcess
                         /\ agents'[n].status # "running" /\ agents'[n].child = "none"
                         /\ agents'[n].restarts = {}
    BY <1>6 DEF Boot, AgentProcess, Status, Child
  <2>4. TypeOK'
    <3>1. agents' \in [Names -> AgentProcess]
      BY <1>6, <2>3 DEF Boot
    <3> QED
      BY <1>0, <1>6, <3>1 DEF TypeOK, Boot, MainPC
  <2>5. RestartBudget' /\ UNCHANGED <<marks, expired>>
    BY <1>6 DEF IndInv, RestartBudget, Boot
  <2>6. StatusMatchesProcess' /\ AbsentIsFresh'
    BY <2>2, <2>3, <2>5 DEF StatusMatchesProcess, AbsentIsFresh
  <2>7. DownIsEmpty'
    BY <1>6 DEF DownIsEmpty, Boot
  <2>8. TimestampsAreMarks'
    BY <2>2, <2>3, <2>5, NothingAges DEF TimestampsAreMarks
  <2> QED
    BY <2>4, <2>5, <2>6, <2>7, <2>8 DEF IndInv
<1> QED
  BY <1>1, <1>2, <1>3, <1>4, <1>5, <1>6 DEF Environment

\* The invariant is inductive.
LEMMA NextInv == IndInv /\ [Next]_vars => IndInv'
<1>1. IndInv /\ UNCHANGED vars => IndInv'
  BY DEF vars, IndInv, TypeOK, StatusMatchesProcess, DownIsEmpty, AbsentIsFresh,
         TimestampsAreMarks, RestartBudget
<1> QED
  BY <1>1, MainLoopInv, IPCInv, EnvironmentInv DEF Next

-----------------------------------------------------------------------------
(* The theorems *)

\* Every variable keeps its type.
THEOREM TypeCorrect == Spec => []TypeOK
BY InitInv, NextInv, PTL DEF Spec, IndInv

\* The status of an agent always tells whether it has a process.
THEOREM StatusIsTrue == Spec => []StatusMatchesProcess
BY InitInv, NextInv, PTL DEF Spec, IndInv

\* No agent is granted more than MaxRestarts restarts within a window.
THEOREM RestartsAreBounded == Spec => []RestartBudget
BY InitInv, NextInv, PTL DEF Spec, IndInv

\* Only check_health marks an agent CRASHED.
LEMMA OnlyHealthGivesUp ==
  ASSUME IndInv, Next, ~LoopHealth, NEW n \in Names, agents'[n].status = "crashed"
  PROVE  agents[n].status = "crashed"
<1>0. agents \in [Names -> AgentProcess]
  BY DEF IndInv, TypeOK
<1>1. ASSUME NEW m \in Names, StartAgent(m) \/ StopAgent(m) \/ ChildExits(m)
      PROVE  agents[n].status = "crashed"
  <2>1. CASE StartAgent(m)
    BY <1>0, <2>1 DEF StartAgent, AgentProcess
  <2>2. CASE StopAgent(m)
    BY <1>0, <2>2 DEF StopAgent, Halted, AgentProcess
  <2>3. CASE ChildExits(m)
    BY <1>0, <2>3 DEF ChildExits, AgentProcess
  <2> QED
    BY <1>1, <2>1, <2>2, <2>3
<1>2. CASE MainLoop
  BY <1>1, <1>2 DEF MainLoop, LoopSnapshot, LoopRestart, LoopSleep, LoopShutdown,
                    LoopStop, LoopExit, Vanish
<1>3. CASE IPC
  <2>1. ASSUME NEW r \in requests, BirthRegistered(r) \/ DeleteForgotten(r)
        PROVE  agents[n].status = "crashed"
    BY <1>0, <2>1 DEF BirthRegistered, DeleteForgotten
  <2> QED
    BY <1>1, <1>3, <2>1 DEF IPC, AgentsStart, AgentsStop, Shutdown, BirthNamed, BirthCounted,
         BirthCertified, BirthMeshInstalled, BirthFallsBack,
         BirthWritten, BirthInstalled, BirthSaved, DeleteStopped, DeleteRemoved
<1>4. CASE Environment
  <2>1. CASE Tick
    BY <2>1, AgedFacts DEF Tick
  <2>2. CASE Boot
    BY <2>2 DEF Boot
  <2> QED
    BY <1>1, <1>4, <2>1, <2>2 DEF Environment, StrayExits, Expires, Killed, Vanish
<1> QED
  BY <1>2, <1>3, <1>4 DEF Next

\* An agent is given up only when its budget for the window is spent.
THEOREM GivenUpOnlyWhenSpent == Spec => NotGivenUpEarly
<1>1. IndInv /\ [Next]_vars
        => [\A n \in Names :
              agents[n].status # "crashed" /\ agents'[n].status = "crashed"
                => Cardinality(marks'[n]) = MaxRestarts]_vars
  <2> SUFFICES ASSUME IndInv, Next, NEW n \in Names,
                      agents[n].status # "crashed", agents'[n].status = "crashed"
               PROVE  Cardinality(marks'[n]) = MaxRestarts
    OBVIOUS
  <2>1. LoopHealth
    BY OnlyHealthGivesUp
  <2> QED
    BY <2>1, HealthMarks
<1> QED
  BY <1>1, InitInv, NextInv, PTL DEF Spec, NotGivenUpEarly

-----------------------------------------------------------------------------
(* Mesh *)

MeshTask ==
  [cmd: {"none", "connect", "disconnect", "peers", "call"},
   at: {"none", "set", "auth", "store", "address", "certify", "call", "answer", "cache"},
   version: {0}, found: SUBSET Peers]

\* Only a birth waits for the coordination server to certify an agent, and a
\* disconnect only sets the state.
Fits(t) ==
  /\ t.at = "certify" => t.cmd = "call"
  /\ t.cmd = "disconnect" => t.at = "set"

MeshTasks ==
  /\ task \in [Tasks -> MeshTask]
  /\ \A p \in Tasks : Fits(task[p])

HasMesh(tiers) == \E tier \in tiers : "mesh" \in Features[tier]

\* A file that is signed was sold, and a connection begins with such a file.
MeshLicense ==
  /\ license.signed => license.tier \in licensed
  /\ mesh.state # "disconnected" => HasMesh(licensed)
  /\ \A p \in Tasks : task[p].cmd = "connect" => HasMesh(licensed)

MeshInv == MeshTasks /\ MeshLicense /\ MeshSettles

Settling == {"connect", "disconnect"}

\* What a task p may do to the connection when it goes on as t: nothing, begin to
\* connect or to disconnect, say that it is connecting, or end with what it came to.
Aside(p, t) ==
  /\ mesh'.state = mesh.state /\ outcome' = outcome
  /\ t.cmd = task[p].cmd \/ {t.cmd, task[p].cmd} \cap Settling = {}
Begins(p, t) ==
  /\ mesh' = mesh /\ outcome' = outcome
  /\ t.cmd \in Settling /\ (t.cmd = "connect" => HasFeature("mesh"))
Announces(p, t) ==
  /\ mesh'.state = "connecting" /\ outcome' = outcome
  /\ task[p].cmd = "connect" /\ t.cmd = "connect"
Settles(p, t) ==
  /\ mesh'.state = outcome' /\ task[p].cmd \in Settling /\ t.cmd = "none"
  /\ mesh'.state # "disconnected" => task[p].cmd = "connect"

TaskStep(p, t) ==
  /\ task' = [task EXCEPT ![p] = t]
  /\ t \in MeshTask /\ Fits(t)
  /\ UNCHANGED <<license, licensed>>
  /\ Aside(p, t) \/ Begins(p, t) \/ Announces(p, t) \/ Settles(p, t)

\* The free tier has no feature; any other tier was in a signed file.
LEMMA FeatureIsLicensed ==
  ASSUME MeshLicense, HasFeature("mesh")
  PROVE  HasMesh(licensed)
<1>1. "mesh" \notin Features["free"]
  BY DEF Features
<1>2. Valid(license)
  BY <1>1 DEF HasFeature, Tier
<1> QED
  BY <1>2 DEF HasFeature, Tier, Valid, HasMesh, MeshLicense

\* However a task goes on, the connection settles, and was licensed.
LEMMA TaskStepInv ==
  ASSUME MeshInv, NEW p \in Tasks, NEW t, TaskStep(p, t)
  PROVE  MeshInv'
<1> USE DEF MeshInv
<1>1. /\ task \in [Tasks -> MeshTask] /\ task' = [task EXCEPT ![p] = t]
      /\ t \in MeshTask /\ Fits(t) /\ license' = license /\ licensed' = licensed
  BY DEF TaskStep, MeshTasks
<1>2. task' \in [Tasks -> MeshTask]
  BY <1>1
<1>3. task'[p] = t /\ \A q \in Tasks \ {p} : task'[q] = task[q]
  BY <1>1
<1>4. MeshTasks'
  BY <1>2, <1>3, <1>1 DEF MeshTasks
<1>5. MeshLicense'
  <2>1. CASE Aside(p, t)
    BY <1>1, <1>3, <2>1 DEF Aside, MeshLicense, Settling
  <2>2. CASE Begins(p, t)
    BY <1>1, <1>3, <2>2, FeatureIsLicensed DEF Begins, MeshLicense
  <2>3. CASE Announces(p, t)
    BY <1>1, <1>3, <2>3 DEF Announces, MeshLicense
  <2>4. CASE Settles(p, t)
    BY <1>1, <1>3, <2>4 DEF Settles, MeshLicense
  <2> QED
    BY <2>1, <2>2, <2>3, <2>4 DEF TaskStep
<1>6. MeshSettles'
  <2> SUFFICES ASSUME \A q \in Tasks : /\ task'[q].cmd # "connect"
                                          /\ task'[q].cmd # "disconnect"
               PROVE  mesh'.state = outcome'
    BY DEF MeshSettles, Doing
  <2>0. t.cmd \notin Settling
    BY <1>3 DEF Settling
  <2>1. CASE Aside(p, t)
    <3>1. \A q \in Tasks : task[q].cmd # "connect" /\ task[q].cmd # "disconnect"
      BY <1>3, <2>0, <2>1 DEF Aside, Settling
    <3> QED
      BY <2>1, <3>1 DEF Aside, MeshSettles, Doing
  <2>2. CASE Settles(p, t)
    BY <2>2 DEF Settles
  <2> QED
    BY <2>0, <2>1, <2>2 DEF TaskStep, Begins, Announces, Settling
<1> QED
  BY <1>4, <1>5, <1>6

\* A task that starts is at the first place of its command.
LEMMA StartedTask ==
  ASSUME NEW cmd \in {"connect", "disconnect", "peers", "call"},
         NEW at \in {"set", "call", "certify"}, at = "certify" => cmd = "call",
         cmd = "disconnect" => at = "set"
  PROVE  LET t == [Idle EXCEPT !.cmd = cmd, !.at = at]
         IN  /\ t \in MeshTask /\ t.cmd = cmd /\ Fits(t)
             /\ Idle \in MeshTask /\ Idle.cmd = "none" /\ Fits(Idle)
BY DEF Idle, MeshTask, Fits

\* A request begins aside of the connection, or begins to change it.
LEMMA RequestIsTaskStep ==
  ASSUME MeshInv, NEW p \in Tasks, UNCHANGED licenseVars,
         \/ Connect(p) \/ Disconnect(p) \/ BirthViaMesh(p)
         \/ ListPeers(p) \/ Ping(p)
  PROVE  \E t : TaskStep(p, t)
<1> DEFINE started(cmd, at) == [Idle EXCEPT !.cmd = cmd, !.at = at]
<1>0. UNCHANGED <<license, licensed>>
  BY DEF licenseVars
<1>1. CASE Connect(p)
  <2>1. TaskStep(p, started("connect", "set"))
    BY <1>0, <1>1, StartedTask
       DEF Connect, Start, clientVars, TaskStep, Begins, Settling
  <2> QED
    BY <2>1
<1>2. CASE Disconnect(p)
  <2>1. TaskStep(p, started("disconnect", "set"))
    BY <1>0, <1>2, StartedTask
       DEF Disconnect, Start, clientVars, TaskStep, Begins, Settling
  <2> QED
    BY <2>1
<1>3. CASE BirthViaMesh(p)
  <2>1. TaskStep(p, started("call", "certify"))
    BY <1>0, <1>3, StartedTask
       DEF BirthViaMesh, Start, clientVars, TaskStep, Aside, Settling
  <2> QED
    BY <2>1
<1>4. CASE ListPeers(p)
  <2>1. TaskStep(p, started("peers", "call"))
    BY <1>0, <1>4, StartedTask
       DEF ListPeers, StartCall, Start, TaskStep, Aside, Settling
  <2> QED
    BY <2>1
<1>5. CASE Ping(p)
  <2>1. TaskStep(p, started("call", "call"))
    BY <1>0, <1>5, StartedTask
       DEF Ping, StartCall, Start, TaskStep, Aside, Settling
  <2> QED
    BY <2>1
<1> QED
  BY <1>1, <1>2, <1>3, <1>4, <1>5

\* A task that goes to another place keeps its command.
LEMMA GoneTask ==
  ASSUME MeshTasks, NEW p \in Tasks, task[p].cmd # "disconnect", NEW found \in SUBSET Peers,
         NEW at \in {"auth", "store", "address", "call", "answer", "cache"}
  PROVE  LET t == [task[p] EXCEPT !.at = at]
             u == [task[p] EXCEPT !.at = at, !.found = found]
         IN  /\ t \in MeshTask /\ t.cmd = task[p].cmd /\ Fits(t)
             /\ u \in MeshTask /\ u.cmd = task[p].cmd /\ Fits(u)
             /\ [task EXCEPT ![p].at = at] = [task EXCEPT ![p] = t]
             /\ [task EXCEPT ![p].at = at, ![p].found = found] = [task EXCEPT ![p] = u]
<1>1. task[p] \in MeshTask
  BY DEF MeshTasks
<1>2. task \in [Tasks -> MeshTask]
  BY DEF MeshTasks
<1> QED
  BY <1>1, <1>2 DEF MeshTask, Fits

\* So it is for a step that leaves the connection alone.
LEMMA GoIsTaskStep ==
  ASSUME MeshInv, NEW p \in Tasks, UNCHANGED licenseVars, task[p].cmd # "disconnect",
         mesh'.state = mesh.state, outcome' = outcome,
         \/ \E at \in {"auth", "store", "address", "call", "answer", "cache"} : Go(p, at)
         \/ \E found \in SUBSET Peers :
              task' = [task EXCEPT ![p].at = "cache", ![p].found = found]
         \/ End(p) /\ task[p].cmd \notin Settling
  PROVE  \E t : TaskStep(p, t)
<1>0. MeshTasks /\ UNCHANGED <<license, licensed>>
  BY DEF licenseVars, MeshInv
<1>1. CASE \E at \in {"auth", "store", "address", "call", "answer", "cache"} : Go(p, at)
  <2>1. PICK at \in {"auth", "store", "address", "call", "answer", "cache"} : Go(p, at)
    BY <1>1
  <2> DEFINE t == [task[p] EXCEPT !.at = at]
  <2>2. /\ t \in MeshTask /\ t.cmd = task[p].cmd /\ Fits(t)
        /\ task' = [task EXCEPT ![p] = t]
    BY <1>0, <2>1, GoneTask DEF Go
  <2> HIDE DEF t
  <2> QED
    BY <1>0, <2>2 DEF TaskStep, Aside
<1>2. CASE \E found \in SUBSET Peers :
              task' = [task EXCEPT ![p].at = "cache", ![p].found = found]
  <2>1. PICK found \in SUBSET Peers :
               task' = [task EXCEPT ![p].at = "cache", ![p].found = found]
    BY <1>2
  <2> DEFINE t == [task[p] EXCEPT !.at = "cache", !.found = found]
  <2>2. /\ t \in MeshTask /\ t.cmd = task[p].cmd /\ Fits(t)
        /\ task' = [task EXCEPT ![p] = t]
    BY <1>0, <2>1, GoneTask
  <2> HIDE DEF t
  <2> QED
    BY <1>0, <2>2 DEF TaskStep, Aside
<1>3. CASE End(p) /\ task[p].cmd \notin Settling
  <2>1. Idle \in MeshTask /\ Idle.cmd = "none" /\ Fits(Idle)
    BY DEF Idle, MeshTask, Fits
  <2> QED
    BY <1>0, <1>3, <2>1 DEF TaskStep, Aside, End, Settling
<1> QED
  BY <1>1, <1>2, <1>3

\* Every step of a task is one of those.
LEMMA StepIsTaskStep ==
  ASSUME MeshInv, NEW p \in Tasks, MeshStep(p)
  PROVE  \E t : TaskStep(p, t)
<1>0. /\ UNCHANGED licenseVars /\ UNCHANGED <<license, licensed>> /\ MeshTasks
      /\ task[p] \in MeshTask /\ Fits(task[p])
  BY DEF MeshStep, licenseVars, MeshInv, MeshTasks
<1>1. Idle \in MeshTask /\ Idle.cmd = "none" /\ Fits(Idle)
  BY DEF Idle, MeshTask, Fits
<1>2. CASE SetConnecting(p)
  <2> DEFINE t == [task[p] EXCEPT !.at = "auth"]
  <2>1. /\ t \in MeshTask /\ t.cmd = task[p].cmd /\ Fits(t)
        /\ task' = [task EXCEPT ![p] = t]
    BY <1>0, <1>2, GoneTask DEF SetConnecting, Doing, Go
  <2> HIDE DEF t
  <2>2. TaskStep(p, t)
    BY <1>0, <1>2, <2>1 DEF SetConnecting, Connecting, Doing, TaskStep, Announces
  <2> QED
    BY <2>2
<1>3. CASE ConnectFails(p) \/ SetConnected(p) \/ SetDisconnected(p)
  <2>1. TaskStep(p, Idle)
    BY <1>0, <1>1, <1>3 DEF ConnectFails, SetConnected, SetDisconnected,
         Disconnected, Connected, Doing, End, TaskStep, Settles, Settling
  <2> QED
    BY <2>1
<1>4. ASSUME NEW hasToken \in BOOLEAN, Authenticated(p, hasToken)
      PROVE  \E t : TaskStep(p, t)
  BY <1>0, <1>4, GoIsTaskStep DEF Authenticated, Doing
<1>5. CASE StoreToken(p) \/ SetupWireguard(p) \/ Certified(p)
  BY <1>0, <1>5, GoIsTaskStep
     DEF StoreToken, SetupWireguard, Certified, Doing, At, Fits
<1>6. CASE BirthLeavesMesh(p)
  BY <1>0, <1>6, GoIsTaskStep
     DEF BirthLeavesMesh, clientVars, At, Fits, Settling
<1>7. CASE BeginCall(p) \/ Unanswered(p)
  <2>1. task[p].cmd # "disconnect"
    BY <1>0, <1>7 DEF BeginCall, Unanswered, At, Fits
  <2>2. mesh' = mesh /\ outcome' = outcome
    BY <1>7 DEF BeginCall, Unanswered
  <2>3. Go(p, "answer") \/ Go(p, "cache") \/ (End(p) /\ task[p].cmd \notin Settling)
    BY <1>7, <2>1 DEF BeginCall, Unanswered, Doing, Settling
  <2> QED
    BY <1>0, <2>1, <2>2, <2>3, GoIsTaskStep
<1>8. ASSUME NEW peers \in SUBSET Peers, Answered(p, peers)
      PROVE  \E t : TaskStep(p, t)
  BY <1>0, <1>8, GoIsTaskStep DEF Answered, Doing, At, Fits, Settling
<1>9. CASE CachePeers(p)
  BY <1>0, <1>9, GoIsTaskStep
     DEF CachePeers, IsConnected, Connected, Doing, Settling
<1> QED
  BY <1>2, <1>3, <1>4, <1>5, <1>6, <1>7, <1>8, <1>9 DEF MeshStep

\* The license file changes under the daemon; what was licensed stays so.
LEMMA LicenseChangesInv ==
  ASSUME MeshInv, LicenseChanges
  PROVE  MeshInv'
<1>1. UNCHANGED <<mesh, outcome, task>>
  BY DEF LicenseChanges, clientVars
<1>2. licensed \subseteq licensed' /\ (license'.signed => license'.tier \in licensed')
  <2>1. ASSUME NEW tier, Activate(tier) \/ Edit(tier)
        PROVE  licensed' = licensed /\ ~license'.signed
    BY <2>1 DEF Activate, Edit, Torn
  <2>2. CASE Activated
    BY <2>2 DEF Activated
  <2>3. CASE ActivateKilled \/ Deactivate
    BY <2>3 DEF ActivateKilled, Deactivate, NoFile, MeshInv, MeshLicense
  <2> QED
    BY <2>1, <2>2, <2>3 DEF LicenseChanges, LicenseNext
<1>3. HasMesh(licensed) => HasMesh(licensed')
  BY <1>2 DEF HasMesh
<1>4. MeshLicense'
  BY <1>1, <1>2, <1>3 DEF MeshInv, MeshLicense
<1> QED
  BY <1>1, <1>4 DEF MeshInv, MeshTasks, MeshSettles, Doing

\* The daemon starts without tasks and without a connection.
LEMMA MeshStarts ==
  ASSUME task' = [p \in Tasks |-> Idle], mesh' = Disconnected,
         outcome' = "disconnected", license'.signed => license'.tier \in licensed'
  PROVE  MeshInv'
BY DEF MeshInv, MeshTasks, MeshLicense, MeshTask, Fits, MeshSettles, Doing,
       Idle, Disconnected

\* The invariant holds when the daemon is first started.
LEMMA MeshInitInv ==
  ASSUME MeshInit
  PROVE  MeshInv
BY DEF MeshInit, LicenseInit, NoFile, MeshInv, MeshTasks, MeshLicense, MeshTask,
       Fits, MeshSettles, Doing, Idle, Disconnected

\* Every step keeps the invariant.
LEMMA MeshNextInv ==
  ASSUME MeshInv, [MeshNext]_meshVars
  PROVE  MeshInv'
<1>1. CASE AutoConnect
  <2>1. Daemon \in Tasks /\ UNCHANGED licenseVars /\ Connect(Daemon)
    BY <1>1 DEF AutoConnect, Tasks
  <2> QED
    BY <2>1, RequestIsTaskStep, TaskStepInv
<1>2. CASE Serve \/ UNCHANGED meshVars
  <2>1. UNCHANGED <<license, licensed, mesh, outcome, task>>
    BY <1>2 DEF Serve, meshVars, clientVars, licenseVars
  <2> QED
    BY <2>1 DEF MeshInv, MeshTasks, MeshLicense, MeshSettles, Doing
<1>3. CASE MeshDaemonEnds
  BY <1>3, MeshStarts DEF MeshDaemonEnds, licenseVars, MeshInv, MeshLicense
<1>4. CASE LicenseChanges
  BY <1>4, LicenseChangesInv
<1>5. ASSUME NEW p \in Requests, MeshRequest(p) PROVE MeshInv'
  <2>1. p \in Tasks
    BY DEF Tasks
  <2> QED
    BY <1>5, <2>1, RequestIsTaskStep, TaskStepInv DEF MeshRequest
<1>6. ASSUME NEW p \in Tasks, MeshStep(p) PROVE MeshInv'
  BY <1>6, StepIsTaskStep, TaskStepInv
<1> QED
  BY <1>1, <1>2, <1>3, <1>4, <1>5, <1>6 DEF MeshNext

\* The invariant holds at all times.
THEOREM MeshInvariant == MeshSpec => []MeshInv
BY MeshInitInv, MeshNextInv, PTL DEF MeshSpec

\* For any number of requests and of peers: once no connect or disconnect is in
\* progress, the state is what the one that ended last came to (mesh.rs).
THEOREM ConnectionSettles == MeshSpec => []MeshSettles
BY MeshInvariant, PTL DEF MeshInv

\* Whatever is sold and whatever is edited into the file, the mesh is in use only
\* after a complete, signed license that has it (mesh.rs and license.rs).
THEOREM ConnectionWasLicensed == MeshSpec => []MeshWasLicensed
<1>1. MeshInv => MeshWasLicensed
  BY DEF MeshInv, MeshLicense, HasMesh, MeshWasLicensed
<1> QED
  BY <1>1, MeshInvariant, PTL

-----------------------------------------------------------------------------
(* Updates *)

Asked == [who: Tasks, mode: {"read", "write"}]
Locks == [line: Seq(Asked), readers: SUBSET Tasks, writer: SUBSET Tasks]

\* Whoever asks does not have the lock yet, and giving it back takes it from one
\* task only (tokio's RwLock, as RWLock describes it).
LEMMA LockReaders ==
  ASSUME NEW lock \in Locks, NEW p \in Tasks, NEW mode \in {"read", "write"}
  PROVE  /\ Ask(lock, p, mode) \in Locks /\ Ask(lock, p, mode).readers = lock.readers
         /\ Release(lock, p) \in Locks /\ Release(lock, p).readers = lock.readers \ {p}
         /\ Granted(lock, p, mode) =>
              /\ Pass(lock) \in Locks /\ Pass(lock).readers = lock.readers
              /\ Take(lock, p, "read") \in Locks
              /\ Take(lock, p, "read").readers = lock.readers \cup {p}
              /\ mode = "write" => lock.readers = {}
         /\ Free \in Locks
<1>1. lock.line \in Seq(Asked) /\ [who |-> p, mode |-> mode] \in Asked
  BY DEF Locks, Asked
<1>2. /\ Append(lock.line, [who |-> p, mode |-> mode]) \in Seq(Asked)
      /\ lock.line # << >> => Tail(lock.line) \in Seq(Asked)
      /\ << >> \in Seq(Asked)
  BY <1>1, AppendProperties, HeadTailProperties, EmptySeq
<1>3. Ask(lock, p, mode) \in Locks /\ Ask(lock, p, mode).readers = lock.readers
  BY <1>2 DEF Locks, Ask
<1>4. Release(lock, p) \in Locks /\ Release(lock, p).readers = lock.readers \ {p}
  BY DEF Locks, Release
<1>5. ASSUME Granted(lock, p, mode)
      PROVE  /\ Pass(lock) \in Locks /\ Pass(lock).readers = lock.readers
             /\ Take(lock, p, "read") \in Locks
             /\ Take(lock, p, "read").readers = lock.readers \cup {p}
             /\ mode = "write" => lock.readers = {}
  <2>1. Tail(lock.line) \in Seq(Asked) /\ (mode = "write" => lock.readers = {})
    BY <1>2, <1>5 DEF Granted
  <2>2. Pass(lock) \in Locks /\ Pass(lock).readers = lock.readers
    BY <2>1 DEF Locks, Pass
  <2>3. /\ Take(lock, p, "read") \in Locks
        /\ Take(lock, p, "read").readers = lock.readers \cup {p}
    BY <2>1 DEF Locks, Take
  <2> QED
    BY <2>1, <2>2, <2>3
<1>6. Free \in Locks
  BY <1>2 DEF Locks, Free
<1> QED
  BY <1>3, <1>4, <1>5, <1>6

UpdateInfo == [new: Nat, major: BOOLEAN]

Commands == {"none", "check", "apply", "install", "create"}
Places == {"none", "latest", "list", "download", "open", "extract"}
Found == Parts \cup UpdateInfo
UpdateTask == [cmd: Commands, at: Places, version: Nat, found: SUBSET Found]

Working(t) == t.at \in {"download", "open", "extract"}
ByHand(t) == t.cmd \in {"install", "create"}
WaitsToStore(t) == t.cmd = "check" /\ t.at = "list"

\* Where a task is says what it is doing.
Placed(t) ==
  /\ t.at = "none" => t.cmd = "none"
  /\ t.at = "latest" => t.cmd = "check"
  /\ t.at = "list" => t.cmd \in {"check", "apply"}
  /\ Working(t) => t.cmd = "apply" \/ ByHand(t)
  /\ WaitsToStore(t) => t.found \subseteq UpdateInfo

UpdatesTypes ==
  /\ task \in [Tasks -> UpdateTask]
  /\ \A p \in Tasks : Placed(task[p]) /\ (ByHand(task[p]) => byHand)
  /\ template \in [Parts -> Nat] /\ archive \in Nat /\ latest \in Versions
  /\ available \in SUBSET UpdateInfo
  /\ listLock \in Locks
  /\ byHand \in BOOLEAN /\ failed \in BOOLEAN

\* Task p goes on like this, and the others are as they were.
Moves(p, cmd, at, version, found) ==
  /\ task' \in [Tasks -> UpdateTask]
  /\ \A q \in Tasks \ {p} : task'[q] = task[q]
  /\ task'[p].cmd = cmd /\ task'[p].at = at
  /\ task'[p].version = version /\ task'[p].found = found

\* A task is idle when it ends.
LEMMA IdleTask ==
  Idle \in UpdateTask /\ Idle.cmd = "none" /\ Idle.at = "none"
  /\ Idle.version = 0 /\ Idle.found = {}
BY DEF Idle, UpdateTask, Commands, Places

\* One task is replaced.
LEMMA Replaced ==
  ASSUME UpdatesTypes, NEW p \in Tasks, NEW t \in UpdateTask, task' = [task EXCEPT ![p] = t]
  PROVE  Moves(p, t.cmd, t.at, t.version, t.found)
BY DEF UpdatesTypes, Moves

\* A command begins, or a task ends.
LEMMA StartMoves ==
  ASSUME UpdatesTypes, NEW p \in Tasks, NEW cmd \in Commands, NEW at \in Places,
         NEW version \in Nat, NEW found \in SUBSET Found
  PROVE  /\ End(p) => Moves(p, "none", "none", 0, {})
         /\ task' = [task EXCEPT ![p] =
              [Idle EXCEPT !.cmd = cmd, !.at = at, !.version = version]]
              => Moves(p, cmd, at, version, {})
         /\ task' = [task EXCEPT ![p] =
              [Idle EXCEPT !.cmd = cmd, !.at = at]]
              => Moves(p, cmd, at, 0, {})
         /\ task' = [task EXCEPT ![p] =
              [Idle EXCEPT !.cmd = cmd, !.at = at, !.version = version, !.found = found]]
              => Moves(p, cmd, at, version, found)
<1>0. task \in [Tasks -> UpdateTask]
  BY DEF UpdatesTypes
<1>1. End(p) => Moves(p, "none", "none", 0, {})
  BY IdleTask, Replaced DEF End
<1>2. ASSUME task' = [task EXCEPT ![p] =
                       [Idle EXCEPT !.cmd = cmd, !.at = at, !.version = version]]
      PROVE  Moves(p, cmd, at, version, {})
  <2> DEFINE t == [Idle EXCEPT !.cmd = cmd, !.at = at, !.version = version]
  <2>1. /\ t \in UpdateTask /\ t.cmd = cmd /\ t.at = at
        /\ t.version = version /\ t.found = {}
    BY IdleTask DEF UpdateTask
  <2>2. task' = [task EXCEPT ![p] = t]
    BY <1>0, <1>2
  <2> HIDE DEF t
  <2> QED
    BY <2>1, <2>2, Replaced
<1>3. ASSUME task' = [task EXCEPT ![p] =
                       [Idle EXCEPT !.cmd = cmd, !.at = at]]
      PROVE  Moves(p, cmd, at, 0, {})
  <2> DEFINE t == [Idle EXCEPT !.cmd = cmd, !.at = at]
  <2>1. /\ t \in UpdateTask /\ t.cmd = cmd /\ t.at = at
        /\ t.version = 0 /\ t.found = {}
    BY IdleTask DEF UpdateTask
  <2>2. task' = [task EXCEPT ![p] = t]
    BY <1>0, <1>3
  <2> HIDE DEF t
  <2> QED
    BY <2>1, <2>2, Replaced
<1>4. ASSUME task' = [task EXCEPT ![p] =
                       [Idle EXCEPT !.cmd = cmd, !.at = at, !.version = version,
                                      !.found = found]]
      PROVE  Moves(p, cmd, at, version, found)
  <2> DEFINE t == [Idle EXCEPT !.cmd = cmd, !.at = at, !.version = version, !.found = found]
  <2>1. /\ t \in UpdateTask /\ t.cmd = cmd /\ t.at = at
        /\ t.version = version /\ t.found = found
    BY IdleTask DEF UpdateTask
  <2>2. task' = [task EXCEPT ![p] = t]
    BY <1>0, <1>4
  <2> HIDE DEF t
  <2> QED
    BY <2>1, <2>2, Replaced
<1> QED
  BY <1>1, <1>2, <1>3, <1>4

\* A task goes on with its command.
LEMMA GoMoves ==
  ASSUME UpdatesTypes, NEW p \in Tasks, NEW at \in Places,
         NEW version \in Nat, NEW found \in SUBSET Found
  PROVE  /\ task[p] \in UpdateTask /\ task[p].version \in Nat /\ task[p].found \in SUBSET Found
         /\ Go(p, at) => Moves(p, task[p].cmd, at, task[p].version, task[p].found)
         /\ task' = [task EXCEPT ![p].at = at, ![p].found = found, ![p].version = version]
              => Moves(p, task[p].cmd, at, version, found)
         /\ task' = [task EXCEPT ![p].at = at, ![p].version = version, ![p].found = found]
              => Moves(p, task[p].cmd, at, version, found)
         /\ task' = [task EXCEPT ![p].at = at, ![p].version = version]
              => Moves(p, task[p].cmd, at, version, task[p].found)
         /\ task' = [task EXCEPT ![p].found = found]
              => Moves(p, task[p].cmd, task[p].at, task[p].version, found)
<1>0. task \in [Tasks -> UpdateTask] /\ task[p] \in UpdateTask
  BY DEF UpdatesTypes
<1>1. ASSUME task' = [task EXCEPT ![p].at = at]
      PROVE  Moves(p, task[p].cmd, at, task[p].version, task[p].found)
  <2> DEFINE t == [task[p] EXCEPT !.at = at]
  <2>1. /\ t \in UpdateTask /\ t.cmd = task[p].cmd /\ t.at = at
        /\ t.version = task[p].version /\ t.found = task[p].found
    BY <1>0 DEF UpdateTask
  <2>2. task' = [task EXCEPT ![p] = t]
    BY <1>0, <1>1
  <2> HIDE DEF t
  <2> QED
    BY <2>1, <2>2, Replaced
<1>2. ASSUME task' = [task EXCEPT ![p].at = at, ![p].found = found, ![p].version = version]
      PROVE  Moves(p, task[p].cmd, at, version, found)
  <2> DEFINE t == [task[p] EXCEPT !.at = at, !.found = found, !.version = version]
  <2>1. /\ t \in UpdateTask /\ t.cmd = task[p].cmd /\ t.at = at
        /\ t.version = version /\ t.found = found
    BY <1>0 DEF UpdateTask
  <2>2. task' = [task EXCEPT ![p] = t]
    BY <1>0, <1>2
  <2> HIDE DEF t
  <2> QED
    BY <2>1, <2>2, Replaced
<1>3. ASSUME task' = [task EXCEPT ![p].at = at, ![p].version = version, ![p].found = found]
      PROVE  Moves(p, task[p].cmd, at, version, found)
  <2> DEFINE t == [task[p] EXCEPT !.at = at, !.version = version, !.found = found]
  <2>1. /\ t \in UpdateTask /\ t.cmd = task[p].cmd /\ t.at = at
        /\ t.version = version /\ t.found = found
    BY <1>0 DEF UpdateTask
  <2>2. task' = [task EXCEPT ![p] = t]
    BY <1>0, <1>3
  <2> HIDE DEF t
  <2> QED
    BY <2>1, <2>2, Replaced
<1>4. ASSUME task' = [task EXCEPT ![p].at = at, ![p].version = version]
      PROVE  Moves(p, task[p].cmd, at, version, task[p].found)
  <2> DEFINE t == [task[p] EXCEPT !.at = at, !.version = version]
  <2>1. /\ t \in UpdateTask /\ t.cmd = task[p].cmd /\ t.at = at
        /\ t.version = version /\ t.found = task[p].found
    BY <1>0 DEF UpdateTask
  <2>2. task' = [task EXCEPT ![p] = t]
    BY <1>0, <1>4
  <2> HIDE DEF t
  <2> QED
    BY <2>1, <2>2, Replaced
<1>5. ASSUME task' = [task EXCEPT ![p].found = found]
      PROVE  Moves(p, task[p].cmd, task[p].at, task[p].version, found)
  <2> DEFINE t == [task[p] EXCEPT !.found = found]
  <2>1. /\ t \in UpdateTask /\ t.cmd = task[p].cmd /\ t.at = task[p].at
        /\ t.version = task[p].version /\ t.found = found
    BY <1>0 DEF UpdateTask
  <2>2. task' = [task EXCEPT ![p] = t]
    BY <1>0, <1>5
  <2> HIDE DEF t
  <2> QED
    BY <2>1, <2>2, Replaced
<1>6. task[p].version \in Nat /\ task[p].found \in SUBSET Found
  BY <1>0 DEF UpdateTask
<1> QED
  BY <1>0, <1>1, <1>2, <1>3, <1>4, <1>5, <1>6 DEF Go

\* A version that is not above the major version installed first.
Trusted(v) == v \in Versions /\ Major(v) <= Major(First)

\* Of the updates in a list, those that are applied lead to such a version.
Harmless(updates) == \A u \in updates : ~u.major => Trusted(u.new)

TaskNotAboveMajor(t) ==
  /\ t.at = "latest" \/ Working(t) => Trusted(t.version)
  /\ WaitsToStore(t) => Harmless(t.found)

Unattended == ~byHand /\ Unnumbered = {}

NoneAboveMajor ==
  Unattended =>
    /\ \A part \in Parts : Trusted(template[part])
    /\ archive # NoVersion => Trusted(archive)
    /\ Harmless(available)
    /\ \A p \in Tasks : TaskNotAboveMajor(task[p])

AtMostOne(updates) == \A u, v \in updates : u = v

\* A task that works on the template holds the list for reading, works on the one
\* update in it, finds that update in the archive, if any, and what it has unpacked
\* is still there.
WorksOnTheUpdate(p, t, lock, updates, file, dir) ==
  /\ WaitsToStore(t) => AtMostOne(t.found)
  /\ Working(t) => p \in lock.readers /\ \E u \in updates : t.version = u.new
  /\ t.at = "open" => file \in {NoVersion, t.version}
  /\ t.at = "extract" => \A part \in Parts \ t.found : dir[part] = t.version

Smooth == ~byHand /\ ~failed

OneUpdateAtATime ==
  Smooth =>
    /\ \A p \in Tasks :
         WorksOnTheUpdate(p, task[p], listLock, available, archive, template)
    /\ AtMostOne(available)
    /\ (\A p \in Tasks : task[p].at # "extract")
         => template["manifest"] = template["files"]

UpdatesInv == UpdatesTypes /\ NoneAboveMajor /\ OneUpdateAtATime

\* What is to be shown of a task that goes on, for each part of the invariant.
LEMMA TypesKept ==
  ASSUME UpdatesTypes, NEW p \in Tasks, NEW cmd, NEW at, NEW version, NEW found,
         Moves(p, cmd, at, version, found), Placed(task'[p]),
         ByHand(task'[p]) => byHand', byHand => byHand', byHand' \in BOOLEAN,
         template' \in [Parts -> Nat], archive' \in Nat, latest' = latest,
         available' \in SUBSET UpdateInfo, listLock' \in Locks, failed' \in BOOLEAN
  PROVE  UpdatesTypes'
<1>1. task' \in [Tasks -> UpdateTask] /\ \A q \in Tasks \ {p} : task'[q] = task[q]
  BY DEF Moves
<1>2. \A q \in Tasks : Placed(task'[q]) /\ (ByHand(task'[q]) => byHand')
  BY <1>1 DEF UpdatesTypes
<1> QED
  BY <1>1, <1>2 DEF UpdatesTypes

\* The same for what does not lead above the major version.
LEMMA MajorKept ==
  ASSUME NoneAboveMajor, NEW p \in Tasks, NEW cmd, NEW at, NEW version, NEW found,
         Moves(p, cmd, at, version, found), byHand => byHand',
         Unattended /\ Unattended' =>
           /\ \A part \in Parts : Trusted(template'[part])
           /\ archive' # NoVersion => Trusted(archive')
           /\ Harmless(available')
           /\ TaskNotAboveMajor(task'[p])
  PROVE  NoneAboveMajor'
<1>1. \A q \in Tasks \ {p} : task'[q] = task[q]
  BY DEF Moves
<1>2. Unattended' => Unattended
  BY DEF Unattended
<1> QED
  BY <1>1, <1>2 DEF NoneAboveMajor

\* The same for the one update that is worked on.
LEMMA UpdateKept ==
  ASSUME OneUpdateAtATime, NEW p \in Tasks, NEW cmd, NEW at, NEW version, NEW found,
         Moves(p, cmd, at, version, found), byHand => byHand', failed => failed',
         Smooth /\ Smooth' =>
           /\ WorksOnTheUpdate(p, task'[p], listLock', available', archive', template')
           /\ \A q \in Tasks \ {p} :
                WorksOnTheUpdate(q, task[q], listLock', available', archive', template')
           /\ AtMostOne(available')
           /\ (\A q \in Tasks : task'[q].at # "extract")
                => template'["manifest"] = template'["files"]
  PROVE  OneUpdateAtATime'
<1>1. \A q \in Tasks \ {p} : task'[q] = task[q]
  BY DEF Moves
<1>2. Smooth' => Smooth
  BY DEF Smooth
<1> QED
  BY <1>1, <1>2 DEF OneUpdateAtATime

\* Who may still read the list is all that a task asks of its lock.
LEMMA OtherReaders ==
  ASSUME OneUpdateAtATime, Smooth, NEW p \in Tasks, NEW lock,
         listLock.readers \ {p} \subseteq lock.readers
  PROVE  \A q \in Tasks \ {p} :
           WorksOnTheUpdate(q, task[q], lock, available, archive, template)
BY DEF OneUpdateAtATime, WorksOnTheUpdate

\* A task that ends, or waits for the list with nothing in hand, is harmless.
LEMMA NothingInHand ==
  ASSUME NEW p, NEW t, t.at = "none" \/ (t.at = "list" /\ t.cmd = "apply"),
         NEW lock, NEW updates, NEW file, NEW dir
  PROVE  /\ TaskNotAboveMajor(t) /\ WorksOnTheUpdate(p, t, lock, updates, file, dir)
         /\ t.cmd = "none" \/ t.at = "list" => Placed(t) /\ ~ByHand(t)
BY DEF TaskNotAboveMajor, WorksOnTheUpdate, Placed, Working, WaitsToStore, ByHand

\* A version of a higher major number is called major, so that what is not
\* leads no higher than what was there when it was looked up.
LEMMA MinorIsTrusted ==
  ASSUME Unattended, latest \in Versions,
         NEW current, Trusted(current), ~IsMajor(current, latest)
  PROVE  Trusted(latest)
<1>1. current \in Nat /\ latest \in Nat /\ First \in Nat
  BY UpdatesAssumption DEF Trusted
<1>2. ~(Major(latest) > Major(current)) /\ Major(current) <= Major(First)
  BY DEF IsMajor, Trusted, Unattended
<1>3. Major(First) \in Nat /\ Major(latest) \in Nat /\ Major(current) \in Nat
  BY <1>1 DEF Major
<1> QED
  BY <1>2, <1>3 DEF Trusted

\* check reads the manifest: what it will ask about is what is installed.
LEMMA CheckInv ==
  ASSUME UpdatesInv, NEW p \in Tasks, Check(p)
  PROVE  UpdatesInv'
<1>0. UpdatesTypes /\ NoneAboveMajor /\ OneUpdateAtATime
  BY DEF UpdatesInv
<1>1. /\ UNCHANGED <<template, archive, latest, available, listLock, byHand, failed>>
      /\ task' = [task EXCEPT ![p] = [Idle EXCEPT !.cmd = "check", !.at = "latest",
                                                    !.version = template["manifest"]]]
  BY DEF Check, registryVars
<1>2. "manifest" \in Parts /\ template["manifest"] \in Nat
  BY <1>0 DEF Parts, UpdatesTypes
<1>3. Moves(p, "check", "latest", template["manifest"], {})
  BY <1>0, <1>1, <1>2, StartMoves DEF Commands, Places
<1>4. UpdatesTypes'
  <2>1. Placed(task'[p]) /\ ~ByHand(task'[p])
    BY <1>3 DEF Moves, Placed, Working, ByHand, WaitsToStore
  <2> QED
    BY <1>0, <1>1, <1>3, <2>1, TypesKept DEF UpdatesTypes
<1>5. NoneAboveMajor'
  <2>1. Unattended => TaskNotAboveMajor(task'[p])
    BY <1>0, <1>2, <1>3 DEF Moves, TaskNotAboveMajor, WaitsToStore, NoneAboveMajor
  <2> QED
    BY <1>0, <1>1, <1>3, <2>1, MajorKept DEF NoneAboveMajor
<1>6. OneUpdateAtATime'
  <2>1. WorksOnTheUpdate(p, task'[p], listLock', available', archive', template')
    BY <1>3 DEF Moves, WorksOnTheUpdate, WaitsToStore, Working
  <2>2. ASSUME Smooth, \A q \in Tasks : task'[q].at # "extract"
        PROVE  template["manifest"] = template["files"]
    <3>1. task[p].at # "extract"
      BY DEF Check, Idle
    <3> QED
      BY <1>0, <1>3, <2>2, <3>1 DEF Moves, OneUpdateAtATime
  <2> QED
    BY <1>0, <1>1, <1>3, <2>1, <2>2, UpdateKept, OtherReaders DEF OneUpdateAtATime
<1> QED
  BY <1>4, <1>5, <1>6 DEF UpdatesInv

\* An update that check found is marked as major if it leads above the major version.
LEMMA CheckLatestInv ==
  ASSUME UpdatesInv, NEW p \in Tasks, NEW answers \in BOOLEAN,
         CheckLatest(p, answers)
  PROVE  UpdatesInv'
<1> DEFINE current == task[p].version
           found == IF answers /\ current \notin {NoVersion, latest}
                      THEN {Update(current, latest)} ELSE {}
<1>0. UpdatesTypes /\ NoneAboveMajor /\ OneUpdateAtATime
  BY DEF UpdatesInv
<1>1. /\ UNCHANGED <<template, archive, latest, available, byHand, failed>>
      /\ listLock' = Ask(listLock, p, "write")
      /\ task' = [task EXCEPT ![p].at = "list", ![p].found = found, ![p].version = 0]
      /\ task[p].at = "latest" /\ task[p].cmd = "check"
  BY DEF CheckLatest, At, Doing
<1>2. found \subseteq UpdateInfo /\ AtMostOne(found)
  <2>1. latest \in Nat
    BY <1>0, UpdatesAssumption DEF UpdatesTypes
  <2>2. IsMajor(current, latest) \in BOOLEAN
    BY DEF IsMajor
  <2>3. Update(current, latest) \in UpdateInfo
    BY <2>1, <2>2 DEF Update, UpdateInfo
  <2> QED
    BY <2>3 DEF AtMostOne
<1>3. Unattended => Harmless(found)
  <2> SUFFICES ASSUME Unattended, NEW u \in found, ~u.major PROVE Trusted(u.new)
    BY DEF Harmless
  <2>1. u.new = latest /\ ~IsMajor(current, latest)
    BY DEF Update
  <2>2. Trusted(current)
    BY <1>0, <1>1 DEF NoneAboveMajor, TaskNotAboveMajor
  <2> QED
    BY <1>0, <2>1, <2>2, MinorIsTrusted DEF UpdatesTypes
<1> HIDE DEF found
<1>4. Moves(p, "check", "list", 0, found)
  BY <1>0, <1>1, <1>2, GoMoves DEF Places, Found
<1>5. /\ listLock \in Locks /\ listLock' \in Locks /\ listLock'.readers = listLock.readers
  BY <1>0, <1>1, LockReaders DEF UpdatesTypes
<1>6. UpdatesTypes'
  <2>1. Placed(task'[p]) /\ ~ByHand(task'[p])
    BY <1>2, <1>4 DEF Moves, Placed, Working, ByHand, WaitsToStore
  <2> QED
    BY <1>0, <1>1, <1>4, <1>5, <2>1, TypesKept DEF UpdatesTypes
<1>7. NoneAboveMajor'
  <2>1. Unattended => TaskNotAboveMajor(task'[p])
    BY <1>3, <1>4 DEF Moves, TaskNotAboveMajor, Working
  <2> QED
    BY <1>0, <1>1, <1>4, <2>1, MajorKept DEF NoneAboveMajor
<1>8. OneUpdateAtATime'
  <2>1. WorksOnTheUpdate(p, task'[p], listLock', available', archive', template')
    BY <1>2, <1>4 DEF Moves, WorksOnTheUpdate, Working
  <2>2. ASSUME Smooth, \A q \in Tasks : task'[q].at # "extract"
        PROVE  template["manifest"] = template["files"]
    BY <1>0, <1>1, <1>4, <2>2 DEF Moves, OneUpdateAtATime
  <2>3. Smooth => \A q \in Tasks \ {p} :
          WorksOnTheUpdate(q, task[q], listLock', available, archive, template)
    BY <1>0, <1>5, OtherReaders
  <2> QED
    BY <1>0, <1>1, <1>4, <2>1, <2>2, <2>3, UpdateKept DEF OneUpdateAtATime
<1> QED
  BY <1>6, <1>7, <1>8 DEF UpdatesInv

\* The list is replaced only when nobody reads it, so that no task is at work.
LEMMA CheckStoreInv ==
  ASSUME UpdatesInv, NEW p \in Tasks, NEW daemonUpdate, CheckStore(p, daemonUpdate)
  PROVE  UpdatesInv'
<1>0. UpdatesTypes /\ NoneAboveMajor /\ OneUpdateAtATime
  BY DEF UpdatesInv
<1>1. /\ UNCHANGED <<template, archive, latest, byHand, failed>>
      /\ available' = task[p].found /\ Granted(listLock, p, "write")
      /\ task[p].at = "list" /\ task[p].cmd = "check"
  BY DEF CheckStore, At, Doing
<1>2. \/ /\ task' = [task EXCEPT ![p] = [Idle EXCEPT !.cmd = "apply", !.at = "list"]]
         /\ listLock' = Ask(Pass(listLock), p, "read")
      \/ End(p) /\ listLock' = Pass(listLock)
  BY DEF CheckStore
<1>3. Moves(p, "apply", "list", 0, {}) \/ Moves(p, "none", "none", 0, {})
  BY <1>0, <1>2, StartMoves DEF Commands, Places
<1>4. /\ listLock' \in Locks /\ listLock.readers = {}
  <2>1. /\ listLock \in Locks /\ Pass(listLock) \in Locks /\ listLock.readers = {}
    BY <1>0, <1>1, LockReaders DEF UpdatesTypes
  <2> DEFINE after == Pass(listLock)
  <2>2. after \in Locks
    BY <2>1
  <2> HIDE DEF after
  <2>3. Ask(after, p, "read") \in Locks
    BY <2>2, LockReaders
  <2> QED
    BY <1>2, <2>1, <2>2, <2>3 DEF after
<1>5. available' \subseteq UpdateInfo /\ WaitsToStore(task[p])
  BY <1>0, <1>1 DEF UpdatesTypes, Placed, WaitsToStore
<1>6. \/ task'[p].at = "none" /\ task'[p].cmd = "none"
      \/ task'[p].at = "list" /\ task'[p].cmd = "apply"
  BY <1>3 DEF Moves
<1>7. UpdatesTypes'
  <2>1. Placed(task'[p]) /\ ~ByHand(task'[p])
    BY <1>6, NothingInHand
  <2> QED
    BY <1>0, <1>1, <1>3, <1>4, <1>5, <2>1, TypesKept DEF UpdatesTypes
<1>8. NoneAboveMajor'
  <2>1. Unattended => Harmless(available')
    BY <1>0, <1>1, <1>5 DEF NoneAboveMajor, TaskNotAboveMajor
  <2>2. TaskNotAboveMajor(task'[p])
    BY <1>6, NothingInHand
  <2> QED
    BY <1>0, <1>1, <1>3, <2>1, <2>2, MajorKept DEF NoneAboveMajor
<1>9. OneUpdateAtATime'
  <2> SUFFICES ASSUME Smooth
               PROVE  OneUpdateAtATime'
    BY <1>1 DEF OneUpdateAtATime, Smooth
  <2>1. WorksOnTheUpdate(p, task'[p], listLock', available', archive', template')
    BY <1>6, NothingInHand
  <2>2. AtMostOne(available')
    BY <1>0, <1>1, <1>5 DEF OneUpdateAtATime, WorksOnTheUpdate
  <2>3. \A q \in Tasks :
          ~Working(task[q]) /\ (WaitsToStore(task[q]) => AtMostOne(task[q].found))
    BY <1>0, <1>4 DEF OneUpdateAtATime, WorksOnTheUpdate
  <2>4. \A q \in Tasks \ {p} :
          WorksOnTheUpdate(q, task[q], listLock', available', archive', template')
    BY <2>3 DEF WorksOnTheUpdate, Working
  <2>5. template["manifest"] = template["files"]
    BY <1>0, <2>3 DEF OneUpdateAtATime, Working
  <2> QED
    BY <1>0, <1>1, <1>3, <2>1, <2>2, <2>4, <2>5, UpdateKept
<1> QED
  BY <1>7, <1>8, <1>9 DEF UpdatesInv

\* A task ends, or goes to wait for the list: it gives back the list, may remove
\* the archive, and leaves a template that it has unpacked as a whole, or a failure.
LEMMA RestsInv ==
  ASSUME UpdatesInv, NEW p \in Tasks,
         Moves(p, "none", "none", 0, {}) \/ Moves(p, "apply", "list", 0, {}),
         UNCHANGED <<template, latest, available, byHand>>,
         archive' \in {archive, NoVersion},
         listLock' \in Locks, listLock.readers \ {p} \subseteq listLock'.readers,
         failed' \in BOOLEAN, failed => failed',
         task[p].at = "extract" /\ Smooth /\ Smooth'
           => template["manifest"] = template["files"]
  PROVE  UpdatesInv'
<1>0. UpdatesTypes /\ NoneAboveMajor /\ OneUpdateAtATime
  BY DEF UpdatesInv
<1>1. /\ \/ task'[p].at = "none" /\ task'[p].cmd = "none"
         \/ task'[p].at = "list" /\ task'[p].cmd = "apply"
      /\ \A q \in Tasks \ {p} : task'[q] = task[q]
  BY DEF Moves
<1>2. UpdatesTypes'
  <2>1. Placed(task'[p]) /\ ~ByHand(task'[p])
    BY <1>1, NothingInHand
  <2>2. archive' \in Nat
    BY <1>0 DEF UpdatesTypes, NoVersion
  <2> QED
    BY <1>0, <2>1, <2>2, TypesKept DEF UpdatesTypes
<1>3. NoneAboveMajor'
  <2>1. TaskNotAboveMajor(task'[p])
    BY <1>1, NothingInHand
  <2> QED
    BY <1>0, <2>1, MajorKept DEF NoneAboveMajor
<1>4. OneUpdateAtATime'
  <2>1. WorksOnTheUpdate(p, task'[p], listLock', available', archive', template')
    BY <1>1, NothingInHand
  <2>2. ASSUME Smooth, Smooth', \A q \in Tasks : task'[q].at # "extract"
        PROVE  template["manifest"] = template["files"]
    BY <1>0, <1>1, <2>2 DEF OneUpdateAtATime
  <2>3. Smooth => \A q \in Tasks \ {p} :
          WorksOnTheUpdate(q, task[q], listLock', available, archive, template)
    BY <1>0, OtherReaders
  <2>4. Smooth => \A q \in Tasks \ {p} :
          WorksOnTheUpdate(q, task[q], listLock', available', archive', template')
    BY <2>3 DEF WorksOnTheUpdate
  <2> QED
    BY <1>0, <2>1, <2>2, <2>4, UpdateKept DEF OneUpdateAtATime
<1> QED
  BY <1>2, <1>3, <1>4 DEF UpdatesInv

\* A task that asks for the list has nothing in hand yet.
LEMMA ApplyInv ==
  ASSUME UpdatesInv, NEW p \in Tasks, Apply(p)
  PROVE  UpdatesInv'
<1>0. UpdatesTypes
  BY DEF UpdatesInv
<1>1. /\ UNCHANGED <<template, archive, latest, available, byHand, failed>>
      /\ listLock' = Ask(listLock, p, "read")
      /\ task' = [task EXCEPT ![p] = [Idle EXCEPT !.cmd = "apply", !.at = "list"]]
      /\ task[p].at # "extract"
  BY DEF Apply, Idle
<1>2. Moves(p, "apply", "list", 0, {})
  BY <1>0, <1>1, StartMoves DEF Commands, Places
<1>3. listLock' \in Locks /\ listLock'.readers = listLock.readers
  BY <1>0, <1>1, LockReaders DEF UpdatesTypes
<1> QED
  BY <1>0, <1>1, <1>2, <1>3, RestsInv DEF UpdatesTypes

\* The update that is taken from the list is the one there is, and the list is kept.
LEMMA ApplyReadInv ==
  ASSUME UpdatesInv, NEW p \in Tasks, ApplyRead(p)
  PROVE  UpdatesInv'
<1>0. UpdatesTypes /\ NoneAboveMajor /\ OneUpdateAtATime
  BY DEF UpdatesInv
<1>1. /\ UNCHANGED <<template, archive, latest, available, byHand, failed>>
      /\ Granted(listLock, p, "read") /\ listLock \in Locks
      /\ task[p].at = "list" /\ task[p].cmd = "apply"
  BY <1>0 DEF ApplyRead, At, Doing, UpdatesTypes
<1>2. /\ Pass(listLock) \in Locks /\ Pass(listLock).readers = listLock.readers
      /\ Take(listLock, p, "read") \in Locks
      /\ Take(listLock, p, "read").readers = listLock.readers \cup {p}
  BY <1>1, LockReaders
<1>3. CASE Minor = {}
  <2>1. listLock' = Pass(listLock) /\ End(p)
    BY <1>3 DEF ApplyRead
  <2>2. Moves(p, "none", "none", 0, {})
    BY <1>0, <2>1, StartMoves DEF Commands, Places
  <2> QED
    BY <1>0, <1>1, <1>2, <2>1, <2>2, RestsInv DEF UpdatesTypes
<1>4. CASE Minor # {}
  <2>1. PICK u \in Minor : task' = [task EXCEPT ![p].at = "download", ![p].version = u.new]
    BY <1>4 DEF ApplyRead
  <2>2. listLock' = Take(listLock, p, "read")
    BY <1>4 DEF ApplyRead
  <2>3. u \in available /\ ~u.major /\ u.new \in Nat
    BY <1>0 DEF Minor, UpdatesTypes, UpdateInfo
  <2>4. Moves(p, "apply", "download", u.new, task[p].found)
    BY <1>0, <1>1, <2>1, <2>3, GoMoves DEF Places
  <2>5. UpdatesTypes'
    <3>1. Placed(task'[p]) /\ ~ByHand(task'[p])
      BY <2>4 DEF Moves, Placed, ByHand, WaitsToStore, Working
    <3> QED
      BY <1>0, <1>1, <1>2, <2>2, <2>4, <3>1, TypesKept DEF UpdatesTypes
  <2>6. NoneAboveMajor'
    <3>1. Unattended => TaskNotAboveMajor(task'[p])
      BY <1>0, <2>3, <2>4 DEF Moves, NoneAboveMajor, Harmless, TaskNotAboveMajor, WaitsToStore
    <3> QED
      BY <1>0, <1>1, <2>4, <3>1, MajorKept DEF NoneAboveMajor
  <2>7. OneUpdateAtATime'
    <3>1. WorksOnTheUpdate(p, task'[p], listLock', available', archive', template')
      BY <1>1, <1>2, <2>2, <2>3, <2>4 DEF Moves, WorksOnTheUpdate, WaitsToStore, Working
    <3>2. ASSUME Smooth, \A q \in Tasks : task'[q].at # "extract"
          PROVE  template["manifest"] = template["files"]
      BY <1>0, <1>1, <2>4, <3>2 DEF Moves, OneUpdateAtATime
    <3>3. Smooth => \A q \in Tasks \ {p} :
            WorksOnTheUpdate(q, task[q], listLock', available, archive, template)
      BY <1>0, <1>2, <2>2, OtherReaders
    <3> QED
      BY <1>0, <1>1, <2>4, <3>1, <3>2, <3>3, UpdateKept DEF OneUpdateAtATime
  <2> QED
    BY <2>5, <2>6, <2>7 DEF UpdatesInv
<1> QED
  BY <1>3, <1>4

\* What somebody does by hand is not covered by the properties.
LEMMA ByHandInv ==
  ASSUME UpdatesInv, NEW p \in Tasks,
         CreateFromLocal(p) \/ \E v \in Chosen : Install(p, v)
  PROVE  UpdatesInv'
<1>0. UpdatesTypes
  BY DEF UpdatesInv
<1>1. /\ UNCHANGED <<template, archive, latest, available, listLock, failed>>
      /\ byHand' = TRUE
  BY DEF CreateFromLocal, Install
<1>2. \/ Moves(p, "create", "extract", Local, Parts)
      \/ \E v : Moves(p, "install", "download", v, {})
  <2>1. Local \in Nat /\ Parts \in SUBSET Found /\ \A v \in Chosen : v \in Nat
    BY UpdatesAssumption DEF Local, Found
  <2>2. CASE CreateFromLocal(p)
    BY <1>0, <2>1, <2>2, StartMoves DEF CreateFromLocal, Commands, Places
  <2>3. ASSUME NEW v \in Chosen, Install(p, v)
        PROVE  Moves(p, "install", "download", v, {})
    BY <1>0, <2>1, <2>3, StartMoves DEF Install, Commands, Places
  <2> QED
    BY <2>2, <2>3
<1>3. Placed(task'[p])
  BY <1>2 DEF Moves, Placed, ByHand, Working, WaitsToStore
<1>4. UpdatesTypes'
  BY <1>0, <1>1, <1>2, <1>3, TypesKept DEF UpdatesTypes
<1>5. ~Unattended' /\ ~Smooth'
  BY <1>1 DEF Unattended, Smooth
<1> QED
  BY <1>4, <1>5 DEF UpdatesInv, NoneAboveMajor, OneUpdateAtATime

\* A task that ends before its last file gives the list back.
LEMMA FailsInv ==
  ASSUME UpdatesInv, NEW p \in Tasks, DownloadFails(p) \/ ExtractFails(p)
  PROVE  UpdatesInv'
<1>0. UpdatesTypes
  BY DEF UpdatesInv
<1>1. /\ UNCHANGED <<template, archive, latest, available, byHand>>
      /\ listLock' = Release(listLock, p) /\ End(p)
      /\ failed' = TRUE \/ (failed' = failed /\ task[p].at # "extract")
  BY DEF DownloadFails, ExtractFails, At
<1>2. Moves(p, "none", "none", 0, {})
  BY <1>0, <1>1, StartMoves DEF Commands, Places
<1>3. listLock' \in Locks /\ listLock'.readers = listLock.readers \ {p}
  BY <1>0, <1>1, LockReaders DEF UpdatesTypes
<1>4. failed' \in BOOLEAN
  BY <1>0, <1>1 DEF UpdatesTypes
<1> QED
  BY <1>1, <1>2, <1>3, <1>4, RestsInv DEF Smooth

\* A task that has unpacked everything leaves a template of one version.
LEMMA ExtractedInv ==
  ASSUME UpdatesInv, NEW p \in Tasks, Extracted(p)
  PROVE  UpdatesInv'
<1>0. UpdatesTypes /\ OneUpdateAtATime
  BY DEF UpdatesInv
<1>1. /\ UNCHANGED <<template, latest, available, byHand, failed>>
      /\ listLock' = Release(listLock, p) /\ End(p)
      /\ archive' \in {archive, NoVersion}
      /\ task[p].at = "extract" /\ task[p].found = {}
  BY DEF Extracted, At
<1>2. Moves(p, "none", "none", 0, {})
  BY <1>0, <1>1, StartMoves DEF Commands, Places
<1>3. listLock' \in Locks /\ listLock'.readers = listLock.readers \ {p}
  BY <1>0, <1>1, LockReaders DEF UpdatesTypes
<1>4. Smooth => template["manifest"] = template["files"]
  <2>1. Smooth => \A part \in Parts : template[part] = task[p].version
    BY <1>0, <1>1 DEF OneUpdateAtATime, WorksOnTheUpdate
  <2> QED
    BY <2>1 DEF Parts
<1> QED
  BY <1>0, <1>1, <1>2, <1>3, <1>4, RestsInv DEF UpdatesTypes

\* All tasks at work have the same version, that of the one update in the list.
LEMMA SameVersion ==
  ASSUME OneUpdateAtATime, Smooth, NEW p \in Tasks, NEW q \in Tasks,
         Working(task[p]), Working(task[q])
  PROVE  task[p].version = task[q].version
BY DEF OneUpdateAtATime, WorksOnTheUpdate, AtMostOne

\* The archive that two tasks write has the same version in both.
LEMMA WriteArchiveInv ==
  ASSUME UpdatesInv, NEW p \in Tasks, WriteArchive(p)
  PROVE  UpdatesInv'
<1>0. UpdatesTypes /\ NoneAboveMajor /\ OneUpdateAtATime
  BY DEF UpdatesInv
<1>1. /\ UNCHANGED <<template, latest, available, listLock, byHand, failed>>
      /\ archive' = task[p].version /\ Go(p, "open") /\ task[p].at = "download"
      /\ Working(task[p])
  BY DEF WriteArchive, At, Working
<1>2. Moves(p, task[p].cmd, "open", task[p].version, task[p].found) /\ task[p].version \in Nat
  BY <1>0, <1>1, GoMoves DEF Places
<1>3. /\ task'[p].at = "open" /\ task'[p].cmd = task[p].cmd
      /\ task'[p].version = task[p].version /\ Working(task'[p])
      /\ \A q \in Tasks \ {p} : task'[q] = task[q]
  BY <1>2 DEF Moves, Working
<1>4. UpdatesTypes'
  <2>1. Placed(task'[p]) /\ (ByHand(task'[p]) => byHand)
    BY <1>0, <1>1, <1>3 DEF UpdatesTypes, Placed, ByHand, WaitsToStore
  <2> QED
    BY <1>0, <1>1, <1>2, <2>1, TypesKept DEF UpdatesTypes
<1>5. NoneAboveMajor'
  <2>1. Unattended => Trusted(task[p].version)
    BY <1>0, <1>1 DEF NoneAboveMajor, TaskNotAboveMajor
  <2>2. Unattended => TaskNotAboveMajor(task'[p])
    BY <1>3, <2>1 DEF TaskNotAboveMajor, WaitsToStore
  <2> QED
    BY <1>0, <1>1, <1>2, <2>1, <2>2, MajorKept DEF NoneAboveMajor
<1>6. OneUpdateAtATime'
  <2> SUFFICES ASSUME Smooth PROVE OneUpdateAtATime'
    BY <1>1 DEF OneUpdateAtATime, Smooth
  <2>1. WorksOnTheUpdate(p, task'[p], listLock', available', archive', template')
    BY <1>0, <1>1, <1>3 DEF OneUpdateAtATime, WorksOnTheUpdate, WaitsToStore
  <2>2. ASSUME NEW q \in Tasks \ {p}
        PROVE  WorksOnTheUpdate(q, task[q], listLock', available', archive', template')
    <3>1. task[q].at = "open" => archive' = task[q].version
      BY <1>0, <1>1, SameVersion DEF Working
    <3>2. WorksOnTheUpdate(q, task[q], listLock, available, archive, template)
      BY <1>0 DEF OneUpdateAtATime
    <3> QED
      BY <1>1, <3>1, <3>2 DEF WorksOnTheUpdate
  <2>3. (\A q \in Tasks : task'[q].at # "extract")
          => template["manifest"] = template["files"]
    BY <1>0, <1>1, <1>3 DEF OneUpdateAtATime
  <2> QED
    BY <1>0, <1>1, <1>2, <2>1, <2>2, <2>3, UpdateKept DEF OneUpdateAtATime
<1> QED
  BY <1>4, <1>5, <1>6 DEF UpdatesInv

\* What is opened is what the task has written, or another has of the same version.
LEMMA OpenArchiveInv ==
  ASSUME UpdatesInv, NEW p \in Tasks, OpenArchive(p)
  PROVE  UpdatesInv'
<1>0. UpdatesTypes /\ NoneAboveMajor /\ OneUpdateAtATime
  BY DEF UpdatesInv
<1>1. /\ UNCHANGED <<template, archive, latest, available, listLock, byHand, failed>>
      /\ task' = [task EXCEPT ![p].at = "extract", ![p].version = archive,
                              ![p].found = Parts]
      /\ task[p].at = "open" /\ archive # NoVersion
  BY DEF OpenArchive, At, registryVars
<1>2. Moves(p, task[p].cmd, "extract", archive, Parts)
  <2>1. archive \in Nat /\ Parts \in SUBSET Found
    BY <1>0 DEF UpdatesTypes, Found
  <2> QED
    BY <1>0, <1>1, <2>1, GoMoves DEF Places
<1>3. /\ task'[p].at = "extract" /\ task'[p].cmd = task[p].cmd
      /\ task'[p].version = archive /\ task'[p].found = Parts
  BY <1>2 DEF Moves
<1>4. UpdatesTypes'
  <2>1. Placed(task'[p]) /\ (ByHand(task'[p]) => byHand)
    BY <1>0, <1>1, <1>3 DEF UpdatesTypes, Placed, ByHand, WaitsToStore, Working
  <2> QED
    BY <1>0, <1>1, <1>2, <2>1, TypesKept DEF UpdatesTypes
<1>5. NoneAboveMajor'
  <2>1. Unattended => TaskNotAboveMajor(task'[p])
    BY <1>0, <1>1, <1>3 DEF NoneAboveMajor, TaskNotAboveMajor, WaitsToStore
  <2> QED
    BY <1>0, <1>1, <1>2, <2>1, MajorKept DEF NoneAboveMajor
<1>6. OneUpdateAtATime'
  <2> SUFFICES ASSUME Smooth PROVE OneUpdateAtATime'
    BY <1>1 DEF OneUpdateAtATime, Smooth
  <2>1. WorksOnTheUpdate(p, task[p], listLock, available, archive, template)
    BY <1>0 DEF OneUpdateAtATime
  <2>2. archive = task[p].version
    BY <1>1, <2>1 DEF WorksOnTheUpdate
  <2>3. WorksOnTheUpdate(p, task'[p], listLock', available', archive', template')
    BY <1>1, <1>3, <2>1, <2>2 DEF WorksOnTheUpdate, WaitsToStore, Working
  <2> QED
    BY <1>0, <1>1, <1>2, <1>3, <2>3, UpdateKept DEF OneUpdateAtATime
<1> QED
  BY <1>4, <1>5, <1>6 DEF UpdatesInv

\* A file that is unpacked is of the version that all tasks unpack.
LEMMA ExtractInv ==
  ASSUME UpdatesInv, NEW p \in Tasks, NEW part \in Parts, Extract(p, part)
  PROVE  UpdatesInv'
<1>0. UpdatesTypes /\ NoneAboveMajor /\ OneUpdateAtATime
  BY DEF UpdatesInv
<1>1. /\ UNCHANGED <<archive, latest, available, listLock, byHand, failed>>
      /\ template' = [template EXCEPT ![part] = task[p].version]
      /\ task' = [task EXCEPT ![p].found = task[p].found \ {part}]
      /\ task[p].at = "extract" /\ Working(task[p])
  BY DEF Extract, At, Working
<1>2. /\ task[p].version \in Nat /\ task[p].found \in SUBSET Found
      /\ task[p].found \ {part} \in SUBSET Found
  BY <1>0, GoMoves DEF Places
<1>3. Moves(p, task[p].cmd, task[p].at, task[p].version, task[p].found \ {part})
  BY <1>0, <1>1, <1>2, GoMoves DEF Places
<1>4. /\ task'[p].at = "extract" /\ task'[p].cmd = task[p].cmd
      /\ task'[p].version = task[p].version /\ task'[p].found = task[p].found \ {part}
  BY <1>1, <1>3 DEF Moves
<1>5. /\ template \in [Parts -> Nat] /\ template' \in [Parts -> Nat]
      /\ template'[part] = task[p].version
      /\ \A other \in Parts \ {part} : template'[other] = template[other]
  BY <1>0, <1>1, <1>2 DEF UpdatesTypes
<1>6. UpdatesTypes'
  <2>1. Placed(task'[p]) /\ (ByHand(task'[p]) => byHand)
    BY <1>0, <1>1, <1>4 DEF UpdatesTypes, Placed, ByHand, WaitsToStore, Working
  <2> QED
    BY <1>0, <1>1, <1>3, <1>5, <2>1, TypesKept DEF UpdatesTypes
<1>7. NoneAboveMajor'
  <2>1. Unattended => Trusted(task[p].version)
    BY <1>0, <1>1 DEF NoneAboveMajor, TaskNotAboveMajor
  <2>2. Unattended => TaskNotAboveMajor(task'[p])
    BY <1>4, <2>1 DEF TaskNotAboveMajor, WaitsToStore
  <2>3. Unattended => \A other \in Parts : Trusted(template'[other])
    BY <1>0, <1>5, <2>1 DEF NoneAboveMajor
  <2> QED
    BY <1>0, <1>1, <1>3, <2>2, <2>3, MajorKept DEF NoneAboveMajor
<1>8. OneUpdateAtATime'
  <2> SUFFICES ASSUME Smooth PROVE OneUpdateAtATime'
    BY <1>1 DEF OneUpdateAtATime, Smooth
  <2>1. \A q \in Tasks : WorksOnTheUpdate(q, task[q], listLock, available, archive, template)
    BY <1>0 DEF OneUpdateAtATime
  <2>2. WorksOnTheUpdate(p, task'[p], listLock', available', archive', template')
    BY <1>1, <1>4, <1>5, <2>1 DEF WorksOnTheUpdate, WaitsToStore, Working
  <2>3. ASSUME NEW q \in Tasks \ {p}
        PROVE  WorksOnTheUpdate(q, task[q], listLock', available', archive', template')
    <3>1. task[q].at = "extract" => task[p].version = task[q].version
      BY <1>0, <1>1, SameVersion DEF Working
    <3> QED
      BY <1>1, <1>5, <2>1, <3>1 DEF WorksOnTheUpdate
  <2> QED
    BY <1>0, <1>1, <1>3, <1>4, <2>2, <2>3, UpdateKept DEF OneUpdateAtATime
<1> QED
  BY <1>6, <1>7, <1>8 DEF UpdatesInv

\* The registry publishes, and somebody removes the template.
LEMMA AroundInv ==
  ASSUME UpdatesInv, Remove \/ \E v \in Versions : Publish(v)
  PROVE  UpdatesInv'
<1>0. UpdatesTypes /\ NoneAboveMajor /\ OneUpdateAtATime
  BY DEF UpdatesInv
<1>1. CASE Remove
  <2>1. /\ UNCHANGED <<latest, available, listLock, failed, task>>
        /\ template' = NoTemplate /\ archive' = NoVersion /\ byHand' = TRUE
    BY <1>1 DEF Remove
  <2>2. UpdatesTypes'
    BY <1>0, <2>1 DEF UpdatesTypes, NoTemplate, NoVersion
  <2>3. ~Unattended' /\ ~Smooth'
    BY <2>1 DEF Unattended, Smooth
  <2> QED
    BY <2>2, <2>3 DEF UpdatesInv, NoneAboveMajor, OneUpdateAtATime
<1>2. ASSUME NEW v \in Versions, Publish(v) PROVE UpdatesInv'
  <2>1. /\ UNCHANGED <<template, archive, available, listLock, byHand, failed, task>>
        /\ latest' = v
    BY <1>2 DEF Publish
  <2>2. UpdatesTypes'
    BY <1>0, <2>1 DEF UpdatesTypes
  <2>3. OneUpdateAtATime'
    BY <1>0, <2>1 DEF OneUpdateAtATime, Smooth
  <2>4. NoneAboveMajor'
    BY <1>0, <2>1 DEF NoneAboveMajor, Unattended
  <2> QED
    BY <2>2, <2>3, <2>4 DEF UpdatesInv
<1> QED
  BY <1>1, <1>2

\* No task and no list is left, but an archive may be; and a template that is cut
\* off counts as a failure.
LEMMA DaemonEndsInv ==
  ASSUME UpdatesInv, UpdatesDaemonEnds
  PROVE  UpdatesInv'
<1> DEFINE cut == {p \in Tasks : Extracting(p) /\ task[p].found # {}}
<1>0. UpdatesTypes /\ NoneAboveMajor /\ OneUpdateAtATime
  BY DEF UpdatesInv
<1>1. /\ task' = [p \in Tasks |-> Idle] /\ available' = {} /\ listLock' = Free
      /\ failed' = (failed \/ cut # {}) /\ UNCHANGED <<archive, latest, byHand>>
      /\ \/ template' = template
         \/ \E p \in cut : template' = [part \in Parts |->
              IF part \in task[p].found THEN task[p].version ELSE template[part]]
  BY DEF UpdatesDaemonEnds
<1>2. \A p \in Tasks : task[p] \in UpdateTask /\ task[p].version \in Nat
  BY <1>0 DEF UpdatesTypes, UpdateTask
<1>3. \A p \in cut : p \in Tasks /\ task[p].at = "extract" /\ Working(task[p])
  BY DEF Extracting, At, Working
<1>4. /\ \A p \in Tasks : task'[p] = Idle
      /\ task' \in [Tasks -> UpdateTask]
  BY <1>1, IdleTask
<1>5. UpdatesTypes'
  <2>1. template' \in [Parts -> Nat]
    BY <1>0, <1>1, <1>2, <1>3 DEF UpdatesTypes
  <2>2. Free \in Locks
    <3>1. << >> \in Seq(Asked)
      BY EmptySeq
    <3> QED
      BY <3>1 DEF Locks, Free
  <2>3. Placed(Idle) /\ ~ByHand(Idle)
    BY IdleTask, NothingInHand
  <2>4. failed' \in BOOLEAN
    BY <1>0, <1>1 DEF UpdatesTypes
  <2> QED
    BY <1>0, <1>1, <1>4, <2>1, <2>2, <2>3, <2>4 DEF UpdatesTypes
<1>6. NoneAboveMajor'
  <2> SUFFICES ASSUME Unattended PROVE NoneAboveMajor'
    BY <1>1 DEF NoneAboveMajor, Unattended
  <2>1. \A p \in cut : Trusted(task[p].version)
    BY <1>0, <1>3 DEF NoneAboveMajor, TaskNotAboveMajor
  <2>2. \A part \in Parts : Trusted(template'[part])
    <3>1. \A part \in Parts : Trusted(template[part])
      BY <1>0 DEF NoneAboveMajor
    <3> HIDE DEF cut
    <3> QED
      BY <1>1, <2>1, <3>1
  <2>3. TaskNotAboveMajor(Idle)
    BY IdleTask, NothingInHand
  <2> QED
    BY <1>0, <1>1, <1>4, <2>2, <2>3 DEF NoneAboveMajor, Harmless
<1>7. OneUpdateAtATime'
  <2> SUFFICES ASSUME Smooth, cut = {} PROVE OneUpdateAtATime'
    BY <1>1 DEF OneUpdateAtATime, Smooth
  <2>1. template["manifest"] = template["files"]
    <3>1. CASE \A p \in Tasks : task[p].at # "extract"
      BY <1>0, <3>1 DEF OneUpdateAtATime
    <3>2. ASSUME NEW p \in Tasks, task[p].at = "extract"
          PROVE  template["manifest"] = template["files"]
      <4>1. task[p].found = {}
        BY <3>2 DEF Extracting, At
      <4>2. \A part \in Parts : template[part] = task[p].version
        BY <1>0, <3>2, <4>1 DEF OneUpdateAtATime, WorksOnTheUpdate
      <4> QED
        BY <4>2 DEF Parts
    <3> QED
      BY <3>1, <3>2
  <2>2. \A p : WorksOnTheUpdate(p, Idle, listLock', available', archive', template')
    BY IdleTask, NothingInHand
  <2>3. template' = template
    BY <1>1
  <2>4. AtMostOne(available')
    BY <1>1 DEF AtMostOne
  <2> QED
    BY <1>4, <2>1, <2>2, <2>3, <2>4 DEF OneUpdateAtATime
<1> QED
  BY <1>5, <1>6, <1>7 DEF UpdatesInv

\* The invariant holds when the daemon is first started.
LEMMA UpdatesInitInv ==
  ASSUME UpdatesInit
  PROVE  UpdatesInv
<1>1. /\ task = [p \in Tasks |-> Idle] /\ template = [part \in Parts |-> First]
      /\ archive = NoVersion /\ latest = First /\ available = {} /\ listLock = Free
      /\ byHand = FALSE /\ failed = FALSE
  BY DEF UpdatesInit, Installed
<1>2. First \in Versions /\ First \in Nat /\ "manifest" \in Parts /\ "files" \in Parts
  BY UpdatesAssumption DEF Parts
<1>3. \A p \in Tasks : task[p] = Idle
  BY <1>1
<1>4. UpdatesTypes
  <2>1. << >> \in Seq(Asked)
    BY EmptySeq
  <2>2. Free \in Locks
    BY <2>1 DEF Locks, Free
  <2>3. Placed(Idle) /\ ~ByHand(Idle)
    BY IdleTask, NothingInHand
  <2> QED
    BY <1>1, <1>2, <1>3, <2>2, <2>3, IdleTask DEF UpdatesTypes, NoVersion
<1>5. NoneAboveMajor
  <2>1. TaskNotAboveMajor(Idle)
    BY IdleTask, NothingInHand
  <2>2. Trusted(First)
    BY <1>2 DEF Trusted, Major
  <2> QED
    BY <1>1, <1>3, <2>1, <2>2 DEF NoneAboveMajor, Harmless
<1>6. OneUpdateAtATime
  <2>1. \A p : WorksOnTheUpdate(p, Idle, listLock, available, archive, template)
    BY IdleTask, NothingInHand
  <2> QED
    BY <1>1, <1>2, <1>3, <2>1 DEF OneUpdateAtATime, AtMostOne
<1> QED
  BY <1>4, <1>5, <1>6 DEF UpdatesInv

\* Every step keeps the invariant.
LEMMA UpdatesNextInv ==
  ASSUME UpdatesInv, [UpdatesNext]_updatesVars
  PROVE  UpdatesInv'
<1>1. CASE UNCHANGED updatesVars
  BY <1>1 DEF updatesVars, registryVars, UpdatesInv, UpdatesTypes, NoneAboveMajor, Unattended,
              OneUpdateAtATime, Smooth
<1>2. CASE Wake
  <2>1. Daemon \in Tasks
    BY DEF Tasks
  <2> QED
    BY <1>2, <2>1, CheckInv DEF Wake
<1>3. CASE UpdatesDaemonEnds
  BY <1>3, DaemonEndsInv
<1>4. CASE Remove \/ \E v \in Versions : Publish(v)
  BY <1>4, AroundInv
<1>5. ASSUME NEW p \in Requests, UpdateRequest(p) PROVE UpdatesInv'
  <2>1. p \in Tasks
    BY DEF Tasks
  <2> QED
    BY <1>5, <2>1, CheckInv, ApplyInv, ByHandInv DEF UpdateRequest
<1>6. ASSUME NEW p \in Tasks, UpdateStep(p) PROVE UpdatesInv'
  BY <1>6, CheckLatestInv, CheckStoreInv, ApplyReadInv, FailsInv, WriteArchiveInv,
     OpenArchiveInv, ExtractInv, ExtractedInv DEF UpdateStep
<1> QED
  BY <1>1, <1>2, <1>3, <1>4, <1>5, <1>6 DEF UpdatesNext

\* The invariant holds at all times.
THEOREM UpdatesInvariant == UpdatesSpec => []UpdatesInv
BY UpdatesInitInv, UpdatesNextInv, PTL DEF UpdatesSpec

\* For any number of requests and any versions: as long as nobody installs by hand
\* and no extraction fails, a template at rest is of one version (updates.rs and
\* templates.rs).
THEOREM UpdatesDoNotMix == UpdatesSpec => []TemplateNotMixed
<1>1. UpdatesInv => TemplateNotMixed
  BY DEF UpdatesInv, OneUpdateAtATime, Smooth, TemplateNotMixed, Extracting, At
<1> QED
  BY <1>1, UpdatesInvariant, PTL

\* For any versions that begin with a number, whatever the registry publishes or
\* withdraws: updates alone never lead above the major version that was installed
\* (updates.rs, is_major_update and apply_template_updates).
THEOREM UpdatesNotAboveMajor == UpdatesSpec => []AutoNotAboveMajor
<1>1. UpdatesInv => AutoNotAboveMajor
  BY DEF UpdatesInv, NoneAboveMajor, Unattended, Trusted, AutoNotAboveMajor
<1> QED
  BY <1>1, UpdatesInvariant, PTL

=============================================================================
