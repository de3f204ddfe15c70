----------------------------- MODULE Supervisor -----------------------------
(***************************************************************************)
(* The daemon's agent supervisor (grokingclaw-daemon/src/supervisor.rs)    *)
(* with the two things that drive it: the main loop of cmd_start (main.rs) *)
(* and the requests of IPC clients (ipc.rs, DaemonState::birth_agent).     *)
(*                                                                         *)
(* The agents map is behind one tokio RwLock.  A critical section under    *)
(* that lock is one action; an operation that takes the lock several times *)
(* (birth, delete, the main loop, stop_all) is several actions, and other  *)
(* operations interleave between them.                                     *)
(*                                                                         *)
(* Time is kept as ages.  restart_timestamps holds instants that the code  *)
(* only ever compares with "now - t < window"; here it is the set of their *)
(* ages, in ticks, cut off at Window, from which on they are all alike.    *)
(* Two restarts of one agent never have the same age: health passes are at *)
(* least the loop's sleep apart, so each one ages everything by a tick.    *)
(***************************************************************************)
EXTENDS Naturals, FiniteSets

CONSTANTS
  Names,            \* agent names
  Clients,          \* IPC connections that may have a request in progress
  MaxAgents,        \* the smaller of the license's and daemon.toml's limit
  MaxRestarts,      \* RestartConfig::max_restarts
  Window,           \* RestartConfig::restart_window_seconds, in ticks
  RestartOnSuccess  \* the names whose restart_on_success is set

ASSUME SupervisorAssumption ==
  /\ MaxAgents \in Nat
  /\ MaxRestarts \in Nat
  /\ Window \in Nat \ {0}
  /\ RestartOnSuccess \subseteq Names

VARIABLES
  agents,    \* HashMap<String, AgentProcess>; status "absent" = no entry
  disk,      \* what agents/<name>/ holds
  expired,   \* config.expires_at has passed
  leaked,    \* an accept loop of <name>'s proxy lives that no handle refers to
  stray,     \* a process of <name> that outlived its daemon
  main,      \* control point of the main loop
  todo,      \* names the main loop still has to (re)start or stop
  shutdown,  \* DaemonState::shutdown
  requests,  \* birth and delete requests between two critical sections
  marks      \* history: ages of the automatic restarts granted to <name>

vars == <<agents, disk, expired, leaked, stray, main, todo, shutdown,
          requests, marks>>

-----------------------------------------------------------------------------
(* State *)

Status == {"absent", "creating", "starting", "running", "stopped", "crashed"}

\* A child handle: none, or one whose process is alive or has exited with
\* success ("exit0") or failure ("exit1") and has not been reaped yet.
Exited == {"exit0", "exit1"}
Child == {"none", "alive"} \cup Exited

AgentProcess ==
  [status: Status, child: Child, proxy: BOOLEAN, restarts: SUBSET (0..Window)]

\* agents/<name>/ on disk: nothing, a half-written agent.toml, an agent.toml
\* without run.sh, or an agent.toml with run.sh.
Disk == {"none", "torn", "toml", "full"}

\* Where a request is between two critical sections.
Stage == {"named", "counted", "certified", "local", "written", "installed",
          "saved", "stopped", "removed"}

Request == [who: Clients, name: Names, at: Stage]

MainPC == {"down", "top", "snapshot", "restart", "stopall"}

Up == main # "down"

Absent == [status |-> "absent", child |-> "none", proxy |-> FALSE, restarts |-> {}]

\* A new AgentProcess, as register and init insert it.
NewProcess(s) == [Absent EXCEPT !.status = s]

Registered == {n \in Names : agents[n].status # "absent"}

Init ==
  /\ agents = [n \in Names |-> Absent]
  /\ disk = [n \in Names |-> "none"]
  /\ expired = [n \in Names |-> FALSE]
  /\ leaked = [n \in Names |-> FALSE]
  /\ stray = [n \in Names |-> FALSE]
  /\ main = "top"
  /\ todo = {}
  /\ shutdown = FALSE
  /\ requests = {}
  /\ marks = [n \in Names |-> {}]

-----------------------------------------------------------------------------
(* Operations on one agent, each under the write lock *)

\* Replacing or dropping an AgentProcess drops its handles: the child has
\* kill_on_drop, but a dropped JoinHandle detaches the proxy's accept loop.
Detach(n) == leaked' = [leaked EXCEPT ![n] = @ \/ agents[n].proxy]

\* start_agent.  It asks for run.sh and refuses only a running agent.  With an
\* agent.pem the proxy comes up before the child; the new handle (or None,
\* when there is no agent.pem) is assigned over the old one.
StartAgent(n) ==
  /\ disk[n] = "full"
  /\ agents[n].status \notin {"absent", "running"}
  /\ \/ /\ \E p \in BOOLEAN :
             agents' = [agents EXCEPT ![n].status = "running",
                                      ![n].child = "alive",
                                      ![n].proxy = p]
        /\ Detach(n)
     \/ /\ leaked' = [leaked EXCEPT ![n] = TRUE]  \* log file or spawn failed
        /\ UNCHANGED agents

\* An agent after stop_agent: the proxy is aborted, the child terminated and
\* reaped (SIGTERM, then SIGKILL, the lock being held all along).
Halted(p) == [p EXCEPT !.status = "stopped", !.child = "none", !.proxy = FALSE]

StopAgent(n) ==
  /\ agents[n].status # "absent"
  /\ agents' = [agents EXCEPT ![n] = Halted(@)]

-----------------------------------------------------------------------------
(* check_health *)

\* One tick later.
Grow(s) == {IF a < Window THEN a + 1 ELSE Window : a \in s}

\* restart_timestamps.retain(now - t < window).
Retain(s) == {a \in s : a < Window}

MutantBudgetLeft(s) == Cardinality(s) <= MaxRestarts
BudgetLeft(s) == Cardinality(s) < MaxRestarts

\* The agent after its exited child was noticed.  The proxy handle stays.
MutantReap(n, p) ==
  IF p.child = "exit0" THEN [p EXCEPT !.status = "stopped", !.child = "none"]
                       ELSE p
MutantReapKeepsChild(n, p) ==
  IF p.child = "exit0" /\ n \notin RestartOnSuccess
    THEN [p EXCEPT !.status = "stopped", !.child = "none"]
  ELSE IF BudgetLeft(Retain(p.restarts))
    THEN [p EXCEPT !.status = "starting", !.restarts = Retain(@) \cup {0}]
  ELSE [p EXCEPT !.status = "crashed", !.restarts = Retain(@), !.child = "none"]
MutantReapUnpruned(n, p) ==
  IF p.child = "exit0" /\ n \notin RestartOnSuccess
    THEN [p EXCEPT !.status = "stopped", !.child = "none"]
  ELSE IF BudgetLeft(p.restarts)
    THEN [p EXCEPT !.status = "starting", !.child = "none", !.restarts = @ \cup {0}]
  ELSE [p EXCEPT !.status = "crashed", !.child = "none"]
Reap(n, p) ==
  IF p.child = "exit0" /\ n \notin RestartOnSuccess
    THEN [p EXCEPT !.status = "stopped", !.child = "none"]
  ELSE IF BudgetLeft(Retain(p.restarts))
    THEN [p EXCEPT !.status = "starting", !.child = "none",
                   !.restarts = Retain(@) \cup {0}]
  ELSE [p EXCEPT !.status = "crashed", !.child = "none", !.restarts = Retain(@)]

\* The agent after the expiry check, which comes last and overrides whatever
\* the exit check decided.  It does not touch the proxy handle either.
MutantExpire(n, p) == p
Expire(n, p) ==
  IF expired[n] THEN [p EXCEPT !.status = "stopped", !.child = "none"] ELSE p

\* What a health pass makes of agent n, its timestamps being p.restarts.
Checked(n, p) ==
  IF p.status # "running" THEN p
  ELSE Expire(n, IF p.child \in Exited THEN Reap(n, p) ELSE p)

Aged(n) == [agents[n] EXCEPT !.restarts = Grow(@)]

-----------------------------------------------------------------------------
(* The main loop *)

\* check_health: one critical section over all agents.
LoopHealth ==
  /\ main = "top"
  /\ ~shutdown
  /\ agents' = [n \in Names |-> Checked(n, Aged(n))]
  /\ marks' = [n \in Names |->
                Retain(Grow(marks[n])) \cup
                  (IF agents[n].status = "running" /\ agents'[n].status = "starting"
                     THEN {0} ELSE {})]
  /\ main' = "snapshot"
  /\ UNCHANGED <<disk, expired, leaked, stray, todo, shutdown, requests>>

\* agents_needing_start: a read lock of its own.
LoopSnapshot ==
  /\ main = "snapshot"
  /\ todo' = {n \in Names : agents[n].status = "starting"}
  /\ main' = "restart"
  /\ UNCHANGED <<agents, disk, expired, leaked, stray, shutdown, requests, marks>>

\* start_agent of one name of the snapshot; an error is only logged.
LoopRestart(n) ==
  /\ main = "restart"
  /\ n \in todo
  /\ todo' = todo \ {n}
  /\ StartAgent(n) \/ UNCHANGED <<agents, leaked>>
  /\ UNCHANGED <<disk, expired, stray, main, shutdown, requests, marks>>

\* The sleep that ends an iteration.
LoopSleep ==
  /\ main = "restart"
  /\ todo = {}
  /\ main' = "top"
  /\ UNCHANGED <<agents, disk, expired, leaked, stray, todo, shutdown,
                 requests, marks>>

\* Shutdown was requested: stop_all takes the names under a read lock ...
MutantLoopShutdown ==
  /\ main = "top"
  /\ shutdown
  /\ \A n \in Names : agents[n].status # "running"
  /\ todo' = Registered
  /\ main' = "stopall"
  /\ UNCHANGED <<agents, disk, expired, leaked, stray, shutdown, requests, marks>>
LoopShutdown ==
  /\ main = "top"
  /\ shutdown
  /\ todo' = Registered
  /\ main' = "stopall"
  /\ UNCHANGED <<agents, disk, expired, leaked, stray, shutdown, requests, marks>>

\* ... and stops them one by one; a name that is gone by then is an error that
\* is only logged.
LoopStop(n) ==
  /\ main = "stopall"
  /\ n \in todo
  /\ todo' = todo \ {n}
  /\ IF n \in Registered THEN StopAgent(n) ELSE UNCHANGED agents
  /\ UNCHANGED <<disk, expired, leaked, stray, main, shutdown, requests, marks>>

\* The process of the daemon is gone, and with it all it held in memory.
Vanish ==
  /\ main' = "down"
  /\ agents' = [n \in Names |-> Absent]
  /\ leaked' = [n \in Names |-> FALSE]
  /\ todo' = {}
  /\ shutdown' = FALSE
  /\ requests' = {}
  /\ marks' = [n \in Names |-> {}]

\* main returns: the runtime drops the state, which kills remaining children.
LoopExit ==
  /\ main = "stopall"
  /\ todo = {}
  /\ Vanish
  /\ UNCHANGED <<disk, expired, stray>>

MainLoop ==
  \/ LoopHealth
  \/ LoopSnapshot
  \/ \E n \in Names : LoopRestart(n)
  \/ LoopSleep
  \/ LoopShutdown
  \/ \E n \in Names : LoopStop(n)
  \/ LoopExit

-----------------------------------------------------------------------------
(* IPC requests that are one critical section *)

\* "agents.start"
AgentsStart(n) ==
  /\ Up
  /\ StartAgent(n)
  /\ UNCHANGED <<disk, expired, stray, main, todo, shutdown, requests, marks>>

\* "agents.stop", and the control channel's revocation, which only stops
AgentsStop(n) ==
  /\ Up
  /\ StopAgent(n)
  /\ UNCHANGED <<disk, expired, leaked, stray, main, todo, shutdown, requests,
                 marks>>

\* "shutdown"
Shutdown ==
  /\ Up
  /\ ~shutdown
  /\ shutdown' = TRUE
  /\ UNCHANGED <<agents, disk, expired, leaked, stray, main, todo, requests,
                 marks>>

-----------------------------------------------------------------------------
(* "birth": DaemonState::birth_agent, birth::birth_agent, register *)

NoRequestOf(c) == \A r \in requests : r.who # c
Advance(r, s) == requests' = (requests \ {r}) \cup {[r EXCEPT !.at = s]}
Finish(r) == requests' = requests \ {r}

\* No agent of that name yet (a read lock of its own).
BirthNamed(c, n) ==
  /\ Up
  /\ NoRequestOf(c)
  /\ n \notin Registered
  /\ requests' = requests \cup {[who |-> c, name |-> n, at |-> "named"]}
  /\ UNCHANGED <<agents, disk, expired, leaked, stray, main, todo, shutdown,
                 marks>>

\* The license's and the configuration's limit on the number of agents.
BirthCounted(r) ==
  /\ r.at = "named"
  /\ IF Cardinality(Registered) < MaxAgents THEN Advance(r, "counted") ELSE Finish(r)
  /\ UNCHANGED <<agents, disk, expired, leaked, stray, main, todo, shutdown,
                 marks>>

\* agent.toml is written in place.  A registered agent keeps the expiry that
\* its entry has in memory.
WriteToml(n) ==
  /\ disk' = [disk EXCEPT ![n] = IF @ = "full" THEN "full" ELSE "toml"]
  /\ expired' = [expired EXCEPT ![n] = @ /\ n \in Registered]

\* The write of agent.toml, or one before it, fails: nothing changed, or the
\* file is torn.
WriteTomlFails(n) ==
  /\ disk' \in {disk, [disk EXCEPT ![n] = "torn"]}
  /\ UNCHANGED expired

\* install_for_agent copies the template's files, which may hold no run.sh.
InstallForAgent(n) ==
  /\ disk[n] \in {"toml", "full"}
  /\ disk' \in {disk, [disk EXCEPT ![n] = "full"]}

\* A key, card or template file cannot be written, before or after run.sh.
InstallFails(n) == InstallForAgent(n) \/ UNCHANGED disk

\* birth_via_mesh: the coordination server certifies the agent, whose
\* certificate, key, card and agent.toml are written.
BirthCertified(r) ==
  /\ r.at = "counted"
  /\ WriteToml(r.name)
  /\ Advance(r, "certified")
  /\ UNCHANGED <<agents, leaked, stray, main, todo, shutdown, marks>>

\* The template's files for a certified agent.  A failed registration on the
\* mesh changes nothing here.
BirthMeshInstalled(r) ==
  /\ r.at = "certified"
  /\ InstallForAgent(r.name)
  /\ Advance(r, "installed")
  /\ UNCHANGED <<agents, expired, leaked, stray, main, todo, shutdown, marks>>

\* birth_agent goes on locally without a connection or a license for the mesh,
\* and after a refusal or a failed write, which leaves what was written.
BirthFallsBack(r) ==
  /\ \/ r.at = "counted" /\ WriteTomlFails(r.name)
     \/ r.at = "certified" /\ InstallFails(r.name) /\ UNCHANGED expired
  /\ Advance(r, "local")
  /\ UNCHANGED <<agents, leaked, stray, main, todo, shutdown, marks>>

\* birth_local: the directories and agent.toml.
BirthWritten(r) ==
  /\ r.at = "local"
  /\ \/ WriteToml(r.name) /\ Advance(r, "written")
     \/ WriteTomlFails(r.name) /\ Finish(r)
  /\ UNCHANGED <<agents, leaked, stray, main, todo, shutdown, marks>>

\* Keys, card and template files.  Any of the writes may fail: agent.toml is
\* then left where it is.
BirthInstalled(r) ==
  /\ r.at = "written"
  /\ \/ InstallForAgent(r.name) /\ Advance(r, "installed")
     \/ InstallFails(r.name) /\ Finish(r)
  /\ UNCHANGED <<agents, expired, leaked, stray, main, todo, shutdown, marks>>

\* If agent.toml still exists, register writes it again.
BirthSaved(r) ==
  /\ r.at = "installed"
  /\ \/ /\ disk[r.name] \in {"toml", "full"}
        /\ Advance(r, "saved")
        /\ UNCHANGED disk
     \/ /\ disk' \in {disk, [disk EXCEPT ![r.name] = "torn"]}
        /\ Finish(r)
  /\ UNCHANGED <<agents, expired, leaked, stray, main, todo, shutdown, marks>>

\* register inserts the new agent over whatever entry the name has.
BirthRegistered(r) ==
  /\ r.at = "saved"
  /\ Detach(r.name)
  /\ agents' = [agents EXCEPT ![r.name] = NewProcess("creating")]
  /\ expired' = [expired EXCEPT ![r.name] = FALSE]
  /\ marks' = [marks EXCEPT ![r.name] = {}]
  /\ Finish(r)
  /\ UNCHANGED <<disk, stray, main, todo, shutdown>>

-----------------------------------------------------------------------------
(* "agents.delete": delete_agent *)

\* stop_agent, whose error is ignored.
DeleteStopped(c, n) ==
  /\ Up
  /\ NoRequestOf(c)
  /\ IF n \in Registered THEN StopAgent(n) ELSE UNCHANGED agents
  /\ requests' = requests \cup {[who |-> c, name |-> n, at |-> "stopped"]}
  /\ UNCHANGED <<disk, expired, leaked, stray, main, todo, shutdown, marks>>

\* remove_dir_all, outside of the lock; an error ends the request.
DeleteRemoved(r) ==
  /\ r.at = "stopped"
  /\ \/ disk' = [disk EXCEPT ![r.name] = "none"] /\ Advance(r, "removed")
     \/ disk' \in {disk, [disk EXCEPT ![r.name] = "none"]} /\ Finish(r)
  /\ UNCHANGED <<agents, expired, leaked, stray, main, todo, shutdown, marks>>

\* The entry goes, whatever it has become since the stop.
DeleteForgotten(r) ==
  /\ r.at = "removed"
  /\ Detach(r.name)
  /\ agents' = [agents EXCEPT ![r.name] = Absent]
  /\ marks' = [marks EXCEPT ![r.name] = {}]
  /\ Finish(r)
  /\ UNCHANGED <<disk, expired, stray, main, todo, shutdown>>

IPC ==
  \/ \E n \in Names : AgentsStart(n) \/ AgentsStop(n)
  \/ Shutdown
  \/ \E c \in Clients, n \in Names : BirthNamed(c, n) \/ DeleteStopped(c, n)
  \/ \E r \in requests :
       \/ BirthCounted(r) \/ BirthCertified(r) \/ BirthMeshInstalled(r) \/ BirthFallsBack(r)
       \/ BirthWritten(r) \/ BirthInstalled(r)
       \/ BirthSaved(r) \/ BirthRegistered(r)
       \/ DeleteRemoved(r) \/ DeleteForgotten(r)

-----------------------------------------------------------------------------
(* The environment *)

\* The process of an agent ends by itself.
ChildExits(n) ==
  /\ agents[n].child = "alive"
  /\ \E e \in Exited : agents' = [agents EXCEPT ![n].child = e]
  /\ UNCHANGED <<disk, expired, leaked, stray, main, todo, shutdown, requests,
                 marks>>

StrayExits(n) ==
  /\ stray[n]
  /\ stray' = [stray EXCEPT ![n] = FALSE]
  /\ UNCHANGED <<agents, disk, expired, leaked, main, todo, shutdown, requests,
                 marks>>

\* The delegation of an agent runs out.
Expires(n) ==
  /\ ~expired[n]
  /\ disk[n] # "none" \/ n \in Registered
  /\ expired' = [expired EXCEPT ![n] = TRUE]
  /\ UNCHANGED <<agents, disk, leaked, stray, main, todo, shutdown, requests,
                 marks>>

\* Time passes outside of the main loop's sleep.
Tick ==
  /\ agents' = [n \in Names |-> Aged(n)]
  /\ marks' = [n \in Names |-> Retain(Grow(marks[n]))]
  /\ UNCHANGED <<disk, expired, leaked, stray, main, todo, shutdown, requests>>

\* The daemon installs no signal handler: SIGTERM, SIGINT or SIGKILL end it
\* without dropping anything, and the agents' processes live on.
Killed ==
  /\ Up
  /\ stray' = [n \in Names |-> stray[n] \/ agents[n].child = "alive"]
  /\ Vanish
  /\ UNCHANGED <<disk, expired>>

\* cmd_start and Supervisor::init: every agent.toml becomes a stopped agent;
\* one that does not parse ends the start with an error.
Boot ==
  /\ main = "down"
  /\ \A n \in Names : disk[n] # "torn"
  /\ main' = "top"
  /\ agents' = [n \in Names |->
                 IF disk[n] = "none" THEN Absent ELSE NewProcess("stopped")]
  /\ UNCHANGED <<disk, expired, leaked, stray, todo, shutdown, requests, marks>>

Environment ==
  \/ \E n \in Names : ChildExits(n) \/ StrayExits(n) \/ Expires(n)
  \/ Tick
  \/ Killed
  \/ Boot

-----------------------------------------------------------------------------
Next == MainLoop \/ IPC \/ Environment

Spec == Init /\ [][Next]_vars

\* The main loop is one task of a multi-threaded runtime whose waits are all
\* bounded (a sleep, a FIFO lock, a kill after a timeout), so it keeps running.
\* Nothing is assumed of clients, agents or the operator.
FairSpec == Spec /\ WF_vars(MainLoop)

-----------------------------------------------------------------------------
(* Properties *)

\* Every variable has its type.
TypeOK ==
  /\ agents \in [Names -> AgentProcess]
  /\ disk \in [Names -> Disk]
  /\ expired \in [Names -> BOOLEAN]
  /\ leaked \in [Names -> BOOLEAN]
  /\ stray \in [Names -> BOOLEAN]
  /\ main \in MainPC
  /\ todo \subseteq Names
  /\ shutdown \in BOOLEAN
  /\ requests \subseteq Request
  /\ marks \in [Names -> SUBSET (0..Window)]

\* The status shown for an agent tells the truth about its process: whatever
\* start, stop, delete, re-registration, restarts and expiry do between them,
\* the supervisor holds a child for exactly the agents it calls running.
StatusMatchesProcess ==
  \A n \in Names : agents[n].status = "running" <=> agents[n].child # "none"

\* The restart limit is a limit on the rate: an observer who counts the
\* automatic restarts granted in the last Window ticks never counts more than
\* max_restarts, however exits, manual starts and stops are interleaved.
RestartBudget == \A n \in Names : Cardinality(marks[n]) <= MaxRestarts

\* An agent is given up as CRASHED only when it has used its whole budget
\* within the last Window ticks: an old crash never counts against it.
NotGivenUpEarly ==
  [][\A n \in Names :
       agents[n].status # "crashed" /\ agents'[n].status = "crashed"
         => Cardinality(marks'[n]) = MaxRestarts]_vars

\* A process that ended is noticed: its agent does not stay running forever.
DeadChildNoticed ==
  \A n \in Names : agents[n].child \in Exited ~> agents[n].child \notin Exited

\* An agent whose delegation ran out does not keep running, even if clients
\* keep starting it again.
ExpiredIsStopped ==
  \A n \in Names :
    expired[n] /\ agents[n].status = "running" ~> agents[n].status # "running"

\* A requested shutdown completes, whatever clients do meanwhile.
ShutdownCompletes == shutdown ~> main = "down"

-----------------------------------------------------------------------------
(* What docs and comments say and the code does not do *)

\* "Each agent gets one proxy instance on localhost."
OneProxyPerAgent == \A n \in Names : ~(agents[n].proxy /\ leaked[n])

\* "Restart agents that need it": the main loop starts only agents that are
\* in status starting when it starts them.
RestartsOnlyNeeded ==
  [][\A n \in Names :
       main = "restart" /\ n \in todo \ todo' /\ agents'[n].status = "running"
         => agents[n].status \in {"starting", "running"}]_vars

\* "Enforces license limits before allowing agent creation."
AgentLimit == Cardinality(Registered) <= MaxAgents

\* "Each agent runs as an isolated child process": never two processes of one
\* agent, in one working directory.
OneProcessPerAgent == \A n \in Names : ~(stray[n] /\ agents[n].child = "alive")

\* "The birth flow is idempotent and handles failures gracefully": no failed
\* birth leaves a configuration behind that keeps the daemon from starting.
DaemonCanBoot == \A n \in Names : disk[n] # "torn"

=============================================================================
