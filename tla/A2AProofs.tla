------------------------------ MODULE A2AProofs ------------------------------
(***************************************************************************)
(* Proofs about A2A, for any connections, task ids and number of messages. *)
(***************************************************************************)
EXTENDS A2A, TLAPS

-----------------------------------------------------------------------------
(* The inductive invariant *)

\* The handlers that have stored their task and not completed it; those that
\* have a message and have not stored a task.
Working(c) == client[c].at \in {"work", "ask"}
Coming(c) ==
  client[c].method = "message/send" /\ client[c].at \in {"verify", "target", "tasks"}

\* The lock of the tasks is held by the handler that works on one.
LockIsHeld == \A c \in Clients : Working(c) <=> tasksLock = c

\* A handler beyond the signature is where its method takes it, with a message
\* that was received.
MessagesInHand ==
  \A c \in Clients :
    /\ Working(c) => client[c].method = "message/send"
    /\ client[c].method = "message/send" => client[c].message \in 1..sent

\* A message that is not stored yet is nobody else's.
ComingIsNew ==
  \A c \in Clients : Coming(c) =>
    /\ \A id \in TaskIds : tasks[id].message # client[c].message
    /\ \A d \in Clients : d # c /\ client[d].method = "message/send"
                            => client[d].message # client[c].message

StoredWasSent == \A id \in TaskIds : tasks[id].message <= sent

\* What a handler works on is in the store as it left it.
WorkIsStored ==
  \A c \in Clients : Working(c) =>
    tasks[client[c].id] = [message |-> client[c].message, state |-> "submitted"]

SubmittedHasReason ==
  \A id \in TaskIds : tasks[id].state = "submitted" =>
    \/ tasks[id].message \in broken
    \/ \E c \in Clients : Working(c) /\ client[c].id = id

StoredIsLast == \A id \in TaskIds : tasks[id].message = last[id]

A2AInv ==
  /\ TypeOK
  /\ LockIsHeld
  /\ MessagesInHand
  /\ ComingIsNew
  /\ StoredWasSent
  /\ WorkIsStored
  /\ SubmittedHasReason
  /\ StoredIsLast

-----------------------------------------------------------------------------
(* The proof *)

\* The invariant holds initially: nothing was received and no lock is held.
LEMMA A2AInit == Init => A2AInv
<1> SUFFICES ASSUME Init PROVE A2AInv
  OBVIOUS
<1> USE A2AAssumption DEF Init, Idle, NoTask
<1>1. TypeOK
  BY DEF TypeOK
<1>2. LockIsHeld /\ MessagesInHand /\ ComingIsNew
  BY DEF LockIsHeld, MessagesInHand, ComingIsNew, Working, Coming
<1>3. StoredWasSent /\ WorkIsStored /\ SubmittedHasReason /\ StoredIsLast
  BY DEF StoredWasSent, WorkIsStored, SubmittedHasReason, StoredIsLast, Working
<1> QED
  BY <1>1, <1>2, <1>3 DEF A2AInv

\* What is known of the handler of a connection.
LEMMA HandlerType ==
  ASSUME TypeOK, NEW c \in Clients
  PROVE  /\ \/ client[c] = Idle
            \/ client[c] \in Handling
         /\ client[c].at # "idle" =>
              /\ client[c] \in Handling
              /\ client[c].id \in TaskIds /\ client[c].message \in 0..MaxMessages
              /\ client[c].method \in Methods
         /\ ~Working(c) /\ ~Coming(c) =>
              client[c].method # "message/send" \/ client[c].at \in {"stop", "stopping"}
BY DEF TypeOK, Handling, Idle, Working, Coming, Methods

\* The two ways in which a handler changes its record.
LEMMA HandlerMoves ==
  ASSUME TypeOK, NEW c \in Clients
  PROVE  /\ \A at \in {"target", "tasks", "work", "ask", "stop", "stopping"} :
              client[c].at # "idle" /\ Move(c, at) =>
                /\ client' = [client EXCEPT ![c] = [client[c] EXCEPT !.at = at]]
                /\ client'[c] \in Handling
                /\ client'[c].at = at /\ client'[c].method = client[c].method
                /\ client'[c].id = client[c].id /\ client'[c].message = client[c].message
                /\ \A d \in Clients : d # c => client'[d] = client[d]
         /\ End(c) =>
                /\ client' = [client EXCEPT ![c] = Idle]
                /\ client'[c] = Idle
                /\ client'[c].at = "idle" /\ client'[c].method = "none"
                /\ \A d \in Clients : d # c => client'[d] = client[d]
BY HandlerType DEF TypeOK, Handling, Move, End, Idle, Methods

\* A step of a handler that neither takes nor holds the lock of the tasks, and
\* leaves the tasks and messages alone, keeps the invariant.
LEMMA A2AQuiet ==
  ASSUME A2AInv, NEW c \in Clients, ~Working(c), client[c].at # "idle",
         \/ End(c)
         \/ \E at \in {"target", "tasks", "stop", "stopping"} :
              Move(c, at) /\ (at \in {"target", "tasks"} => client[c].at \in {"verify", "target"}),
         UNCHANGED <<tasks, tasksLock, known, sent, last, broken>>,
         agentsLock' \in Clients \cup {"free", "daemon"}
  PROVE  A2AInv'
<1> USE DEF A2AInv
<1>1. TypeOK'
  <2>1. client' \in [Clients -> Handling \cup {Idle}]
    BY HandlerMoves DEF TypeOK
  <2> QED
    BY <2>1 DEF TypeOK
<1>2. /\ \A d \in Clients : d # c => client'[d] = client[d]
      /\ ~Working(c)'
      /\ Coming(c)' => Coming(c) /\ client'[c].message = client[c].message
      /\ client'[c].method = "message/send" =>
           client[c].method = "message/send" /\ client'[c].message = client[c].message
  BY HandlerMoves DEF Working, Coming
<1>3. LockIsHeld' /\ MessagesInHand'
  BY <1>2 DEF LockIsHeld, MessagesInHand, Working
<1>4. ComingIsNew'
  BY <1>2 DEF ComingIsNew, Coming
<1>5. StoredWasSent' /\ StoredIsLast'
  BY DEF StoredWasSent, StoredIsLast
<1>6. WorkIsStored' /\ SubmittedHasReason'
  BY <1>2 DEF WorkIsStored, SubmittedHasReason, Working
<1> QED
  BY <1>1, <1>3, <1>4, <1>5, <1>6

\* A request arrives: a message gets a number that no other has.
LEMMA A2AReceive ==
  ASSUME A2AInv,
         NEW c \in Clients, NEW method \in Methods, NEW id \in TaskIds, Receive(c, method, id)
  PROVE  A2AInv'
<1> USE DEF A2AInv
<1> DEFINE number == IF method = "message/send" THEN sent + 1 ELSE 0
           new == [at |-> "verify", method |-> method, id |-> id, message |-> number]
<1>1. /\ client[c].at = "idle"
      /\ sent' = IF method = "message/send" THEN sent + 1 ELSE sent
      /\ method = "message/send" => sent < MaxMessages
      /\ client' = [client EXCEPT ![c] = new]
      /\ UNCHANGED <<tasks, tasksLock, agentsLock, known, last, broken>>
  BY DEF Receive, At
<1>2. sent \in 0..MaxMessages /\ MaxMessages \in Nat
  BY A2AAssumption DEF TypeOK
<1>3. /\ number \in 0..MaxMessages /\ sent' \in 0..MaxMessages /\ sent <= sent'
      /\ method = "message/send" => number = sent' /\ sent' = sent + 1
  BY <1>1, <1>2
<1>4. /\ new \in Handling
      /\ new.at = "verify" /\ new.method = method /\ new.message = number
  BY <1>3 DEF Handling
<1> HIDE DEF new
<1>5. /\ client'[c] = new
      /\ \A d \in Clients : d # c => client'[d] = client[d]
      /\ client' \in [Clients -> Handling \cup {Idle}]
  BY <1>1, <1>4 DEF TypeOK
<1>6. TypeOK'
  BY <1>1, <1>3, <1>5 DEF TypeOK
<1>7. ~Working(c) /\ ~Working(c)'
  BY <1>1, <1>4, <1>5 DEF Working
<1>8. LockIsHeld'
  BY <1>1, <1>5, <1>7 DEF LockIsHeld, Working
<1>9. MessagesInHand'
  <2> SUFFICES ASSUME NEW d \in Clients
               PROVE  /\ Working(d)' => client'[d].method = "message/send"
                      /\ client'[d].method = "message/send" => client'[d].message \in 1..sent'
    BY DEF MessagesInHand
  <2>1. CASE d = c
    BY <1>2, <1>3, <1>4, <1>5, <1>7, <2>1
  <2>2. CASE d # c
    BY <1>2, <1>3, <1>5, <2>2 DEF MessagesInHand, Working
  <2> QED
    BY <2>1, <2>2
<1>10. ComingIsNew'
  <2>1. \A i \in TaskIds : tasks[i].message \in Nat /\ tasks[i].message <= sent
    BY DEF StoredWasSent, TypeOK, Task, NoTask
  <2>2. \A d \in Clients : client[d].method = "message/send" => client[d].message \in 1..sent
    BY DEF MessagesInHand
  <2> SUFFICES ASSUME NEW d \in Clients, Coming(d)'
               PROVE  /\ \A i \in TaskIds : tasks'[i].message # client'[d].message
                      /\ \A e \in Clients : e # d /\ client'[e].method = "message/send"
                                              => client'[e].message # client'[d].message
    BY DEF ComingIsNew
  <2>3. CASE d = c
    <3>1. client'[d].message = sent + 1
      BY <1>3, <1>4, <1>5, <2>3 DEF Coming
    <3> QED
      BY <1>1, <1>2, <1>5, <2>1, <2>2, <2>3, <3>1
  <2>4. CASE d # c
    <3>1. Coming(d) /\ client'[d] = client[d] /\ client[d].message \in 1..sent
      BY <1>5, <2>2, <2>4 DEF Coming
    <3> QED
      BY <1>1, <1>2, <1>3, <1>4, <1>5, <2>4, <3>1 DEF ComingIsNew
  <2> QED
    BY <2>3, <2>4
<1>11. StoredWasSent'
  BY <1>1, <1>2, <1>3 DEF StoredWasSent, TypeOK, Task, NoTask
<1>12. WorkIsStored' /\ SubmittedHasReason' /\ StoredIsLast'
  BY <1>1, <1>5, <1>7 DEF WorkIsStored, SubmittedHasReason, StoredIsLast, Working
<1> QED
  BY <1>6, <1>8, <1>9, <1>10, <1>11, <1>12
\* A task is stored for a message that was not stored before, while nobody works.
LEMMA A2ASubmit ==
  ASSUME A2AInv, NEW c \in Clients, Submit(c)
  PROVE  A2AInv'
<1> USE DEF A2AInv
<1> DEFINE id == client[c].id
           new == [message |-> client[c].message, state |-> "submitted"]
<1>1. /\ client[c].at = "tasks" /\ client[c].method = "message/send"
      /\ tasksLock = "free" /\ tasksLock' = c
      /\ tasks' = [tasks EXCEPT ![id] = new]
      /\ last' = [last EXCEPT ![id] = client[c].message]
      /\ UNCHANGED <<agentsLock, known, sent, broken>>
  BY DEF Submit, At
<1>2. Coming(c) /\ ~Working(c)
  BY <1>1 DEF Coming, Working
<1>3. /\ client' \in [Clients -> Handling \cup {Idle}]
      /\ Working(c)' /\ ~Coming(c)'
      /\ client'[c].method = client[c].method /\ client'[c].id = id
      /\ client'[c].message = client[c].message
      /\ \A d \in Clients : d # c => client'[d] = client[d]
  <2>1. PICK at \in {"work", "ask"} : Move(c, at)
    BY DEF Submit
  <2> QED
    BY <1>1, <2>1, HandlerMoves DEF TypeOK, Working, Coming
<1>4. /\ id \in TaskIds /\ client[c].message \in 1..sent
      /\ sent \in 0..MaxMessages /\ MaxMessages \in Nat
  BY <1>1, HandlerType, A2AAssumption DEF MessagesInHand, TypeOK
<1>5. /\ new \in Task /\ new.message = client[c].message /\ new.state = "submitted"
      /\ client[c].message \in 0..MaxMessages
  BY <1>4 DEF Task, States
<1> HIDE DEF new
<1>6. /\ tasks'[id] = new /\ last'[id] = client[c].message
      /\ \A i \in TaskIds : i # id => tasks'[i] = tasks[i] /\ last'[i] = last[i]
  BY <1>1, <1>4 DEF TypeOK
<1> HIDE DEF id
<1>7. TypeOK'
  BY <1>1, <1>3, <1>4, <1>5 DEF TypeOK
<1>8. \A d \in Clients : ~Working(d)
  BY <1>1, A2AAssumption DEF LockIsHeld
<1>9. LockIsHeld' /\ MessagesInHand'
  BY <1>1, <1>3, <1>8 DEF LockIsHeld, MessagesInHand, Working
<1>10. ComingIsNew'
  <2> SUFFICES ASSUME NEW d \in Clients, Coming(d)'
               PROVE  /\ \A i \in TaskIds : tasks'[i].message # client'[d].message
                      /\ \A e \in Clients : e # d /\ client'[e].method = "message/send"
                                              => client'[e].message # client'[d].message
    BY DEF ComingIsNew
  <2>1. d # c /\ Coming(d) /\ client'[d] = client[d]
    BY <1>3 DEF Coming
  <2> QED
    BY <1>1, <1>3, <1>5, <1>6, <2>1 DEF ComingIsNew
<1>11. StoredWasSent' /\ StoredIsLast'
  BY <1>1, <1>4, <1>5, <1>6 DEF StoredWasSent, StoredIsLast
<1>12. WorkIsStored'
  <2>1. tasks'[client'[c].id] = [message |-> client'[c].message, state |-> "submitted"]
    BY <1>3, <1>6 DEF new
  <2> QED
    BY <1>3, <1>8, <2>1 DEF WorkIsStored, Working
<1>13. SubmittedHasReason'
  BY <1>1, <1>3, <1>6, <1>8 DEF SubmittedHasReason
<1> QED
  BY <1>7, <1>9, <1>10, <1>11, <1>12, <1>13

\* The handler that holds the lock ends its work.
LEMMA A2AComplete ==
  ASSUME A2AInv, NEW c \in Clients, Complete(c)
  PROVE  /\ A2AInv'
         /\ \A id \in TaskIds : tasks[id].state # "submitted" => tasks'[id] = tasks[id]
<1> USE DEF A2AInv
<1> DEFINE id == client[c].id
           new == [message |-> client[c].message, state |-> "completed"]
<1>1. /\ Working(c) /\ client[c].at # "idle"
      /\ tasks' = [tasks EXCEPT ![id] = new]
      /\ Release(c) /\ End(c)
      /\ UNCHANGED <<agentsLock, known, sent, last, broken>>
  BY DEF Complete, At, Working
<1>2. /\ client' = [client EXCEPT ![c] = Idle]
      /\ client'[c].at = "idle" /\ client'[c].method = "none"
      /\ \A d \in Clients : d # c => client'[d] = client[d]
      /\ ~Working(c)' /\ ~Coming(c)'
  BY <1>1, HandlerMoves DEF Working, Coming
<1>3. tasksLock = c /\ tasksLock' = "free" /\ \A d \in Clients : d # c => ~Working(d)
  BY <1>1 DEF LockIsHeld, Release
<1>4. /\ id \in TaskIds /\ client[c].message \in 1..sent
      /\ sent \in 0..MaxMessages /\ MaxMessages \in Nat
      /\ tasks[id].message = client[c].message /\ tasks[id].state = "submitted"
  <2>1. tasks[id] = [message |-> client[c].message, state |-> "submitted"]
    BY <1>1 DEF WorkIsStored
  <2>2. id \in TaskIds /\ client[c].message \in 1..sent
    BY <1>1, HandlerType DEF MessagesInHand
  <2> QED
    BY <2>1, <2>2, A2AAssumption DEF TypeOK
<1>5. new \in Task /\ new.message = client[c].message /\ new.state = "completed"
  BY <1>4 DEF Task, States
<1> HIDE DEF new, id
<1>6. /\ tasks'[id] = new
      /\ \A i \in TaskIds : i # id => tasks'[i] = tasks[i]
  BY <1>1, <1>4 DEF TypeOK
<1>7. TypeOK'
  BY <1>1, <1>2, <1>3, <1>4, <1>5 DEF TypeOK
<1>8. LockIsHeld' /\ MessagesInHand'
  BY <1>1, <1>2, <1>3, A2AAssumption DEF LockIsHeld, MessagesInHand, Working
<1>9. ComingIsNew'
  <2> SUFFICES ASSUME NEW d \in Clients, Coming(d)'
               PROVE  /\ \A i \in TaskIds : tasks'[i].message # client'[d].message
                      /\ \A e \in Clients : e # d /\ client'[e].method = "message/send"
                                              => client'[e].message # client'[d].message
    BY DEF ComingIsNew
  <2>1. d # c /\ Coming(d) /\ client'[d] = client[d]
    BY <1>2 DEF Coming
  <2> QED
    BY <1>2, <1>4, <1>5, <1>6, <2>1 DEF ComingIsNew
<1>10. StoredWasSent' /\ StoredIsLast' /\ WorkIsStored'
  BY <1>1, <1>2, <1>3, <1>4, <1>5, <1>6
     DEF StoredWasSent, StoredIsLast, WorkIsStored, Working
<1>11. SubmittedHasReason'
  BY <1>1, <1>3, <1>5, <1>6 DEF SubmittedHasReason, id
<1> QED
  BY <1>4, <1>6, <1>7, <1>8, <1>9, <1>10, <1>11

\* A cancellation finds no task in work, and settles one that nobody will.
LEMMA A2ACancel ==
  ASSUME A2AInv, NEW c \in Clients, Cancel(c)
  PROVE  /\ A2AInv'
         /\ \A id \in TaskIds : tasks[id].state # "submitted" => tasks'[id] = tasks[id]
<1> USE DEF A2AInv
<1> DEFINE id == client[c].id
<1>1. /\ client[c].at = "tasks" /\ client[c].at # "idle" /\ ~Working(c)
      /\ tasksLock = "free"
      /\ tasks' = IF Cancelable(tasks[id])
                  THEN [tasks EXCEPT ![id].state = "canceled"] ELSE tasks
      /\ End(c)
      /\ UNCHANGED <<tasksLock, agentsLock, known, sent, last, broken>>
  BY DEF Cancel, At, Working
<1>2. /\ client' = [client EXCEPT ![c] = Idle]
      /\ client'[c].at = "idle" /\ client'[c].method = "none"
      /\ \A d \in Clients : d # c => client'[d] = client[d]
      /\ ~Working(c)' /\ ~Coming(c)'
  BY <1>1, HandlerMoves DEF Working, Coming
<1>3. \A d \in Clients : ~Working(d)
  BY <1>1, A2AAssumption DEF LockIsHeld
<1>4. id \in TaskIds
  BY <1>1, HandlerType
<1>5. ASSUME NEW i \in TaskIds
      PROVE  /\ tasks'[i].message = tasks[i].message
             /\ tasks'[i] \in Task \cup {NoTask}
             /\ tasks'[i].state = "submitted" => tasks'[i] = tasks[i]
             /\ tasks[i].state # "submitted" => tasks'[i] = tasks[i]
  <2>1. tasks[i] \in Task \cup {NoTask}
    BY DEF TypeOK
  <2>2. CASE i = id /\ Cancelable(tasks[id])
    <3>1. tasks'[i] = [tasks[i] EXCEPT !.state = "canceled"]
      BY <1>1, <2>2 DEF TypeOK
    <3>2. tasks[i] \in Task /\ tasks[i].state \notin {"completed", "canceled"}
      BY <2>1, <2>2 DEF Cancelable
    <3> QED
      BY <3>1, <3>2 DEF Task, States
  <2>3. CASE i # id \/ ~Cancelable(tasks[id])
    <3>1. tasks'[i] = tasks[i]
      BY <1>1, <2>3 DEF TypeOK
    <3> QED
      BY <2>1, <3>1
  <2> QED
    BY <2>2, <2>3
<1> HIDE DEF id
<1>6. TypeOK'
  <2>1. tasks' = [i \in TaskIds |-> tasks'[i]]
    BY <1>1 DEF TypeOK
  <2>2. tasks' \in [TaskIds -> Task \cup {NoTask}]
    BY <1>5, <2>1
  <2> QED
    BY <1>1, <1>2, <2>2 DEF TypeOK
<1>7. LockIsHeld' /\ MessagesInHand'
  BY <1>1, <1>2, <1>3 DEF LockIsHeld, MessagesInHand, Working
<1>8. ComingIsNew'
  BY <1>1, <1>2, <1>5 DEF ComingIsNew, Coming
<1>9. StoredWasSent' /\ StoredIsLast' /\ WorkIsStored' /\ SubmittedHasReason'
  BY <1>1, <1>2, <1>3, <1>5
     DEF StoredWasSent, StoredIsLast, WorkIsStored, SubmittedHasReason, Working
<1> QED
  BY <1>5, <1>6, <1>7, <1>8, <1>9
\* A handler is dropped: the message it was working on is broken off.
LEMMA A2ABreak ==
  ASSUME A2AInv, NEW c \in Clients, Break(c)
  PROVE  A2AInv'
<1> USE DEF A2AInv
<1>1. /\ client[c].at # "idle" /\ End(c) /\ Release(c)
      /\ agentsLock' = IF agentsLock = c THEN "free" ELSE agentsLock
      /\ broken' = broken \cup {client[c].message}
      /\ UNCHANGED <<tasks, known, sent, last>>
  BY DEF Break, At
<1>2. /\ client' = [client EXCEPT ![c] = Idle]
      /\ client'[c].at = "idle" /\ client'[c].method = "none"
      /\ \A d \in Clients : d # c => client'[d] = client[d]
      /\ ~Working(c)' /\ ~Coming(c)'
  BY <1>1, HandlerMoves DEF Working, Coming
<1>3. client[c].message \in 0..MaxMessages
  BY <1>1, HandlerType
<1>4. TypeOK'
  BY <1>1, <1>2, <1>3 DEF TypeOK, Release
<1>5. LockIsHeld' /\ MessagesInHand'
  BY <1>1, <1>2, A2AAssumption DEF LockIsHeld, MessagesInHand, Working, Release
<1>6. ComingIsNew'
  BY <1>1, <1>2 DEF ComingIsNew, Coming
<1>7. StoredWasSent' /\ StoredIsLast' /\ WorkIsStored'
  BY <1>1, <1>2 DEF StoredWasSent, StoredIsLast, WorkIsStored, Working
<1>8. SubmittedHasReason'
  <2> SUFFICES ASSUME NEW id \in TaskIds, tasks[id].state = "submitted"
               PROVE  \/ tasks[id].message \in broken'
                      \/ \E d \in Clients : Working(d)' /\ client'[d].id = id
    BY <1>1 DEF SubmittedHasReason
  <2>1. CASE tasks[id].message \in broken
    BY <1>1, <2>1
  <2>2. ASSUME NEW d \in Clients, Working(d), client[d].id = id
        PROVE  \/ tasks[id].message \in broken'
               \/ Working(d)' /\ client'[d].id = id
    <3>1. CASE d = c
      <4>1. tasks[id] = [message |-> client[c].message, state |-> "submitted"]
        BY <2>2, <3>1 DEF WorkIsStored
      <4> QED
        BY <1>1, <4>1
    <3>2. CASE d # c
      BY <1>2, <2>2, <3>2 DEF Working
    <3> QED
      BY <3>1, <3>2
  <2> QED
    BY <2>1, <2>2 DEF SubmittedHasReason
<1> QED
  BY <1>4, <1>5, <1>6, <1>7, <1>8

\* The rest of the daemon only touches the lock of the agents.
LEMMA A2ADaemon ==
  ASSUME A2AInv, DaemonLocks \/ DaemonUnlocks \/ UNCHANGED vars
  PROVE  A2AInv'
<1> USE DEF DaemonLocks, DaemonUnlocks, vars
<1>1. /\ UNCHANGED <<client, tasks, tasksLock, sent, last, broken>>
      /\ known' \in BOOLEAN /\ agentsLock' \in Clients \cup {"free", "daemon"}
  BY DEF A2AInv, TypeOK
<1>2. TypeOK'
  BY <1>1 DEF A2AInv, TypeOK
<1> QED
  BY <1>1, <1>2 DEF A2AInv, LockIsHeld, MessagesInHand, ComingIsNew, StoredWasSent,
    WorkIsStored, SubmittedHasReason, StoredIsLast, Working, Coming

\* The steps of a handler that leave the tasks alone.
LEMMA A2AOther ==
  ASSUME A2AInv, NEW c \in Clients,
         Verified(c) \/ NotVerified(c) \/ FindTarget(c) \/ Get(c)
           \/ StopAgent(c) \/ Stopped(c)
  PROVE  A2AInv' /\ UNCHANGED tasks
<1>1. agentsLock \in Clients \cup {"free", "daemon"}
  BY DEF A2AInv, TypeOK
<1>2. After(c) \subseteq {"target", "tasks", "stop"}
  BY DEF After
<1>3. CASE Verified(c) \/ NotVerified(c)
  <2>1. /\ client[c].at = "verify" /\ ~Working(c)
        /\ UNCHANGED <<tasks, tasksLock, agentsLock, known, sent, last, broken>>
        /\ End(c) \/ \E at \in After(c) : Move(c, at)
    BY <1>3 DEF Verified, NotVerified, At, Working
  <2> QED
    BY <1>1, <1>2, <2>1, A2AQuiet
<1>4. CASE FindTarget(c) \/ Get(c)
  <2>1. /\ client[c].at \in {"target", "tasks"} /\ ~Working(c)
        /\ UNCHANGED <<tasks, tasksLock, agentsLock, known, sent, last, broken>>
        /\ End(c) \/ (Move(c, "tasks") /\ client[c].at = "target")
    BY <1>4 DEF FindTarget, Get, At, Working
  <2> QED
    BY <1>1, <2>1, A2AQuiet
<1>5. CASE StopAgent(c) \/ Stopped(c)
  <2>1. /\ client[c].at \in {"stop", "stopping"} /\ ~Working(c)
        /\ UNCHANGED <<tasks, tasksLock, known, sent, last, broken>>
        /\ agentsLock' \in Clients \cup {"free"}
        /\ End(c) \/ Move(c, "stopping")
    BY <1>5 DEF StopAgent, Stopped, At, Working
  <2> QED
    BY <2>1, A2AQuiet
<1> QED
  BY <1>3, <1>4, <1>5

\* Every step keeps the invariant.
LEMMA A2AStep == A2AInv /\ [Next]_vars => A2AInv'
<1> SUFFICES ASSUME A2AInv, [Next]_vars PROVE A2AInv'
  OBVIOUS
<1>1. ASSUME NEW c \in Clients, Handle(c) PROVE A2AInv'
  BY <1>1, A2ASubmit, A2AComplete, A2ACancel, A2AOther DEF Handle
<1>2. ASSUME NEW c \in Clients, Break(c) PROVE A2AInv'
  BY <1>2, A2ABreak
<1>3. ASSUME NEW c \in Clients, NEW method \in Methods, NEW id \in TaskIds,
             Receive(c, method, id)
      PROVE  A2AInv'
  BY <1>3, A2AReceive
<1>4. CASE DaemonLocks \/ DaemonUnlocks \/ UNCHANGED vars
  BY <1>4, A2ADaemon
<1> QED
  BY <1>1, <1>2, <1>3, <1>4 DEF Next

\* Whoever can look at the tasks never finds one half done, unless its connection
\* broke off, however requests interleave (handle_message_send).
THEOREM NothingHalfDone ==
  Spec => []SubmittedIsAbandoned
<1>1. A2AInv => SubmittedIsAbandoned
  BY A2AAssumption DEF A2AInv, LockIsHeld, SubmittedHasReason, SubmittedIsAbandoned
<1> QED
  BY <1>1, A2AInit, A2AStep, PTL DEF Spec

\* Of two messages with the same id the later one is what is kept.
THEOREM TheLastIsKept ==
  Spec => []LastMessageKept
<1>1. A2AInv => LastMessageKept
  BY DEF A2AInv, StoredIsLast, LastMessageKept
<1> QED
  BY <1>1, A2AInit, A2AStep, PTL DEF Spec

\* A task that was completed or canceled stays so until a new message takes its
\* id: no answered cancellation is undone by the end of the work.
THEOREM SettledForGood ==
  Spec => SettledStays
<1> DEFINE Stays == \A id \in TaskIds :
             /\ tasks[id].state \in {"completed", "canceled"}
             /\ tasks'[id].message = tasks[id].message
             => tasks'[id] = tasks[id]
<1>1. ASSUME A2AInv, [Next]_vars PROVE [Stays]_vars
  <2>1. ASSUME NEW c \in Clients, Submit(c) PROVE Stays
    <3>1. Coming(c) /\ client[c].id \in TaskIds
      BY <1>1, <2>1, HandlerType DEF Submit, At, Coming, A2AInv
    <3>2. \A id \in TaskIds :
            tasks'[id] = IF id = client[c].id
                         THEN [message |-> client[c].message, state |-> "submitted"]
                         ELSE tasks[id]
      BY <1>1, <2>1 DEF Submit, A2AInv, TypeOK
    <3>3. \A id \in TaskIds : tasks[id].message # client[c].message
      BY <1>1, <3>1 DEF A2AInv, ComingIsNew
    <3> QED
      BY <3>2, <3>3
  <2>2. ASSUME NEW c \in Clients, Complete(c) \/ Cancel(c) PROVE Stays
    BY <1>1, <2>2, A2AComplete, A2ACancel
  <2>3. ASSUME NEW c \in Clients,
               Verified(c) \/ NotVerified(c) \/ FindTarget(c) \/ Get(c)
                 \/ StopAgent(c) \/ Stopped(c)
        PROVE  Stays
    BY <1>1, <2>3, A2AOther
  <2>4. ASSUME NEW c \in Clients, NEW method \in Methods, NEW id \in TaskIds,
               Receive(c, method, id)
        PROVE  Stays
    BY <2>4 DEF Receive
  <2>5. ASSUME NEW c \in Clients, Break(c) PROVE Stays
    BY <2>5 DEF Break
  <2>6. CASE DaemonLocks \/ DaemonUnlocks \/ UNCHANGED vars
    BY <2>6 DEF DaemonLocks, DaemonUnlocks, vars
  <2> QED
    BY <1>1, <2>1, <2>2, <2>3, <2>4, <2>5, <2>6 DEF Next, Handle
<1> QED
  BY <1>1, A2AInit, A2AStep, PTL DEF Spec, SettledStays
=============================================================================
