------------------------------- MODULE Tasks --------------------------------
(***************************************************************************)
(* The tasks of the daemon that a service sees: IPC requests in progress   *)
(* (ipc.rs, one task for each connection) and the daemon's own task.  A    *)
(* request goes on when its client is gone.                                *)
(***************************************************************************)
EXTENDS Naturals, RWLock

CONSTANTS
  Requests,   \* IPC requests that may be in progress at once
  Daemon      \* the daemon's own task

ASSUME TasksAssumption == Daemon \notin Requests

VARIABLES
  task        \* what each task is doing

Tasks == Requests \cup {Daemon}

\* A task has a command, a place in it, a version it works with and what it has
\* found out.
Idle == [cmd |-> "none", at |-> "none", version |-> 0, found |-> {}]

Doing(p, cmd) == task[p].cmd = cmd
At(p, at) == task[p].at = at
Start(p, cmd, at) == task' = [task EXCEPT ![p] = [Idle EXCEPT !.cmd = cmd, !.at = at]]
Go(p, at) == task' = [task EXCEPT ![p].at = at]
End(p) == task' = [task EXCEPT ![p] = Idle]
=============================================================================
