-------------------------------- MODULE A2A --------------------------------
(***************************************************************************)
(* The A2A server of the daemon (a2a.rs): HTTP connections that send       *)
(* messages to agents, look at the tasks that come of them, cancel them,   *)
(* and stop agents through the control channel.                            *)
(*                                                                         *)
(* Two locks are shared: the one of the tasks and the supervisor's one of  *)
(* the agents, which the rest of the daemon holds too.  A message holds    *)
(* the first while it waits for the second.  A connection may break off    *)
(* whenever its handler waits: the handler is dropped there, and with it   *)
(* the locks it holds.                                                     *)
(***************************************************************************)
EXTENDS Naturals

CONSTANTS
  Clients,       \* connections
  TaskIds,       \* ids of tasks, chosen by the clients or generated
  RequireAuth,   \* a2a.require_auth
  MaxMessages    \* bound on the messages received

ASSUME A2AAssumption ==
  /\ RequireAuth \in BOOLEAN
  /\ MaxMessages \in Nat
  /\ {"free", "daemon"} \cap Clients = {}

VARIABLES
  client,      \* what the handler of each connection is doing
  tasks,       \* the stored tasks
  tasksLock,   \* who holds the tasks for writing
  agentsLock,  \* who holds the agents for writing
  known,       \* whether the agent that is spoken of exists
  sent,        \* number of messages received
  last,        \* history: the last message stored under each id
  broken       \* history: the messages whose handler was dropped

vars == <<client, tasks, tasksLock, agentsLock, known, sent, last, broken>>

Methods == {"message/send", "tasks/get", "tasks/cancel", "revoke"}
States == {"submitted", "completed", "canceled"}

\* A2aTask: the message it came of and its state.  A task is working only in
\* the hands of its handler.
Task == [message: 1..MaxMessages, state: States]
NoTask == [message |-> 0, state |-> "none"]

Idle == [at |-> "idle", method |-> "none", id |-> "none", message |-> 0]

Init ==
  /\ client = [c \in Clients |-> Idle]
  /\ tasks = [id \in TaskIds |-> NoTask]
  /\ tasksLock = "free"
  /\ agentsLock = "free"
  /\ known \in BOOLEAN
  /\ sent = 0
  /\ last = [id \in TaskIds |-> 0]
  /\ broken = {}

Move(c, at) == client' = [client EXCEPT ![c].at = at]
End(c) == client' = [client EXCEPT ![c] = Idle]
At(c, at) == client[c].at = at

-----------------------------------------------------------------------------
(* Requests *)

\* Messages are numbered as they come in.
Receive(c, method, id) ==
  /\ At(c, "idle")
  /\ method = "message/send" => sent < MaxMessages
  /\ sent' = IF method = "message/send" THEN sent + 1 ELSE sent
  /\ client' = [client EXCEPT ![c] =
       [at |-> "verify", method |-> method, id |-> id,
        message |-> IF method = "message/send" THEN sent + 1 ELSE 0]]
  /\ UNCHANGED <<tasks, tasksLock, agentsLock, known, last, broken>>

\* Where a request goes on; a message may be for an agent or for the daemon.
After(c) ==
  CASE client[c].method = "revoke" -> {"stop"}
    [] client[c].method = "message/send" -> {"target", "tasks"}
    [] OTHER -> {"tasks"}

\* verify_request_signature looks the caller up among the agents.
Verified(c) ==
  /\ At(c, "verify")
  /\ agentsLock = "free"
  /\ \E at \in After(c) : Move(c, at)
  /\ UNCHANGED <<tasks, tasksLock, agentsLock, known, sent, last, broken>>

\* The control channel always wants a signature, the tasks if so configured.
NotVerified(c) ==
  /\ At(c, "verify")
  /\ IF client[c].method = "revoke" \/ RequireAuth
     THEN End(c)
     ELSE \E at \in After(c) : Move(c, at)
  /\ UNCHANGED <<tasks, tasksLock, agentsLock, known, sent, last, broken>>

\* A message for an agent is refused if there is no such agent by now.
FindTarget(c) ==
  /\ At(c, "target")
  /\ agentsLock = "free"
  /\ IF known THEN Move(c, "tasks") ELSE End(c)
  /\ UNCHANGED <<tasks, tasksLock, agentsLock, known, sent, last, broken>>

\* handle_message_send takes the lock and stores the task, over one that has
\* the same id, and keeps the lock.  Some texts ask the supervisor.
MutantSubmit(c) ==
  /\ At(c, "tasks") /\ client[c].method = "message/send"
  /\ tasksLock = "free"
  /\ tasks' = [tasks EXCEPT ![client[c].id] =
       [message |-> client[c].message, state |-> "submitted"]]
  /\ last' = [last EXCEPT ![client[c].id] = client[c].message]
  /\ \E at \in {"work", "ask"} : Move(c, at)
  /\ UNCHANGED <<tasksLock, agentsLock, known, sent, broken>>
Submit(c) ==
  /\ At(c, "tasks") /\ client[c].method = "message/send"
  /\ tasksLock = "free"
  /\ tasksLock' = c
  /\ tasks' = [tasks EXCEPT ![client[c].id] =
       [message |-> client[c].message, state |-> "submitted"]]
  /\ last' = [last EXCEPT ![client[c].id] = client[c].message]
  /\ \E at \in {"work", "ask"} : Move(c, at)
  /\ UNCHANGED <<agentsLock, known, sent, broken>>

Release(c) == tasksLock' = IF tasksLock = c THEN "free" ELSE tasksLock

\* process_task and the second store
MutantUnstored(c) ==
  /\ At(c, "work") \/ (At(c, "ask") /\ agentsLock = "free")
  /\ Release(c)
  /\ End(c)
  /\ UNCHANGED <<tasks, agentsLock, known, sent, last, broken>>
Complete(c) ==
  /\ At(c, "work") \/ (At(c, "ask") /\ agentsLock = "free")
  /\ tasks' = [tasks EXCEPT ![client[c].id] =
       [message |-> client[c].message, state |-> "completed"]]
  /\ Release(c)
  /\ End(c)
  /\ UNCHANGED <<agentsLock, known, sent, last, broken>>

\* tasks/get and tasks/list only read.
Get(c) ==
  /\ At(c, "tasks") /\ client[c].method = "tasks/get"
  /\ tasksLock = "free"
  /\ End(c)
  /\ UNCHANGED <<tasks, tasksLock, agentsLock, known, sent, last, broken>>

\* handle_tasks_cancel
MutantCancelable(task) == task # NoTask
Cancelable(task) == task # NoTask /\ task.state \notin {"completed", "canceled"}

Cancel(c) ==
  /\ At(c, "tasks") /\ client[c].method = "tasks/cancel"
  /\ tasksLock = "free"
  /\ tasks' = IF Cancelable(tasks[client[c].id])
              THEN [tasks EXCEPT ![client[c].id].state = "canceled"] ELSE tasks
  /\ End(c)
  /\ UNCHANGED <<tasksLock, agentsLock, known, sent, last, broken>>

\* handle_control_revoke: stop_agent holds the agents while the process ends.
StopAgent(c) ==
  /\ At(c, "stop")
  /\ agentsLock = "free"
  /\ agentsLock' = c
  /\ Move(c, "stopping")
  /\ UNCHANGED <<tasks, tasksLock, known, sent, last, broken>>

MutantStopped(c) ==
  /\ At(c, "stopping")
  /\ tasksLock = "free"
  /\ agentsLock' = "free"
  /\ End(c)
  /\ UNCHANGED <<tasks, tasksLock, known, sent, last, broken>>
Stopped(c) ==
  /\ At(c, "stopping")
  /\ agentsLock' = "free"
  /\ End(c)
  /\ UNCHANGED <<tasks, tasksLock, known, sent, last, broken>>

\* The request is malformed, or the connection breaks off while its handler waits.
Break(c) ==
  /\ ~At(c, "idle")
  /\ End(c)
  /\ Release(c)
  /\ agentsLock' = IF agentsLock = c THEN "free" ELSE agentsLock
  /\ broken' = broken \cup {client[c].message}
  /\ UNCHANGED <<tasks, known, sent, last>>

Handle(c) ==
  \/ Verified(c) \/ NotVerified(c) \/ FindTarget(c)
  \/ Submit(c) \/ Complete(c)
  \/ Get(c) \/ Cancel(c)
  \/ StopAgent(c) \/ Stopped(c)

-----------------------------------------------------------------------------
(* The rest of the daemon *)

DaemonLocks ==
  /\ agentsLock = "free"
  /\ agentsLock' = "daemon"
  /\ UNCHANGED <<client, tasks, tasksLock, known, sent, last, broken>>

\* The agent may have been born or deleted.
DaemonUnlocks ==
  /\ agentsLock = "daemon"
  /\ agentsLock' = "free"
  /\ known' \in BOOLEAN
  /\ UNCHANGED <<client, tasks, tasksLock, sent, last, broken>>

-----------------------------------------------------------------------------
Next ==
  \/ \E c \in Clients :
       \/ \E method \in Methods, id \in TaskIds : Receive(c, method, id)
       \/ Handle(c)
       \/ Break(c)
  \/ DaemonLocks
  \/ DaemonUnlocks

Spec == Init /\ [][Next]_vars

\* Tokio's locks serve those who wait in order, so that no one waits for ever
\* for a lock that is free again and again; whoever holds the agents lets go.
FairSpec ==
  /\ Spec
  /\ \A c \in Clients : SF_vars(Handle(c))
  /\ WF_vars(DaemonUnlocks)

-----------------------------------------------------------------------------
(* Properties *)

\* A request that is being handled
Handling ==
  [at: {"verify", "target", "tasks", "work", "ask", "stop", "stopping"},
   method: Methods, id: TaskIds, message: 0..MaxMessages]

\* Every variable has its type.
TypeOK ==
  /\ client \in [Clients -> Handling \cup {Idle}]
  /\ tasks \in [TaskIds -> Task \cup {NoTask}]
  /\ tasksLock \in Clients \cup {"free"}
  /\ agentsLock \in Clients \cup {"free", "daemon"}
  /\ known \in BOOLEAN
  /\ sent \in 0..MaxMessages
  /\ last \in [TaskIds -> 0..MaxMessages]
  /\ broken \subseteq 0..MaxMessages

\* Who can look at the tasks never finds one half done: a task is submitted only
\* if the connection that sent it broke off.
SubmittedIsAbandoned ==
  tasksLock = "free" =>
    \A id \in TaskIds : tasks[id].state = "submitted" => tasks[id].message \in broken

\* Of two messages with the same id the later one is what is kept.
LastMessageKept ==
  tasksLock = "free" => \A id \in TaskIds : tasks[id].message = last[id]

\* What has been completed or canceled stays so, unless a new message takes its
\* id: no cancellation that was answered is undone by the end of the work.
SettledStays ==
  [][\A id \in TaskIds :
       /\ tasks[id].state \in {"completed", "canceled"}
       /\ tasks'[id].message = tasks[id].message
       => tasks'[id] = tasks[id]]_vars

\* Every request ends, although one lock is held while another is waited for.
RequestsEnd ==
  \A c \in Clients : client[c].at # "idle" ~> client[c].at = "idle"

=============================================================================
