-------------------------------- MODULE Mesh --------------------------------
(***************************************************************************)
(* The mesh client of the daemon (mesh.rs) and the requests that use it    *)
(* (ipc.rs: mesh.connect, mesh.disconnect, mesh.peers, mesh.ping, and the  *)
(* registration of a newborn agent).                                       *)
(*                                                                         *)
(* Its state is behind a lock that is only held to read or to set it, so   *)
(* requests interleave between their awaits.  The token of the transport   *)
(* is behind a lock of its own, held over every call of the coordination   *)
(* server that needs the token.  A call is answered, refused or given up   *)
(* after 30 seconds.                                                       *)
(***************************************************************************)
EXTENDS License, Tasks

CONSTANTS
  Peers       \* peers the coordination server knows

VARIABLES
  mesh,       \* MeshState
  token,      \* HeadscaleTransport.auth_token is set
  tokenLock,
  phase,      \* of cmd_start: before and while the mesh is started, or serving
  outcome     \* history: what the last connect or disconnect to end came to

clientVars == <<mesh, token, tokenLock, outcome>>
meshVars == <<licenseVars, clientVars, task, phase>>

Disconnected == [state |-> "disconnected", peers |-> {}]
Connecting == [state |-> "connecting", peers |-> {}]
Connected(peers) == [state |-> "connected", peers |-> peers]
IsConnected == mesh.state = "connected"

MeshInit ==
  /\ LicenseInit
  /\ task = [p \in Tasks |-> Idle]
  /\ phase = "boot"
  /\ mesh = Disconnected
  /\ token = FALSE
  /\ tokenLock = Free
  /\ outcome = "disconnected"

-----------------------------------------------------------------------------
(* MeshClient::connect *)

\* The license is looked at first, and without it nothing else happens.
Connect(p) ==
  /\ task[p] = Idle
  /\ HasFeature("mesh")
  /\ Start(p, "connect", "set")
  /\ UNCHANGED clientVars

SetConnecting(p) ==
  /\ Doing(p, "connect") /\ At(p, "set")
  /\ mesh' = Connecting
  /\ Go(p, "auth")
  /\ UNCHANGED <<token, tokenLock, outcome>>

\* The daemon's card and key cannot be read, or the server does not answer,
\* refuses, or gives no address.
MutantConnectFails(p) ==
  /\ Doing(p, "connect") /\ task[p].at \in {"auth", "address"}
  /\ outcome' = "disconnected"
  /\ End(p)
  /\ UNCHANGED <<mesh, token, tokenLock>>
ConnectFails(p) ==
  /\ Doing(p, "connect") /\ task[p].at \in {"auth", "address"}
  /\ mesh' = Disconnected
  /\ outcome' = "disconnected"
  /\ End(p)
  /\ UNCHANGED <<token, tokenLock>>

\* authenticate succeeds, with a token to be stored or without one.
Authenticated(p, hasToken) ==
  /\ Doing(p, "connect") /\ At(p, "auth")
  /\ IF hasToken
       THEN tokenLock' = Ask(tokenLock, p, "write") /\ Go(p, "store")
       ELSE Go(p, "address") /\ UNCHANGED tokenLock
  /\ UNCHANGED <<mesh, token, outcome>>

StoreToken(p) ==
  /\ Doing(p, "connect") /\ At(p, "store")
  /\ Granted(tokenLock, p, "write")
  /\ tokenLock' = Pass(tokenLock)
  /\ token' = TRUE
  /\ Go(p, "address")
  /\ UNCHANGED <<mesh, outcome>>

\* wg-quick up, when it is configured, may fail; then the peers are asked for.
SetupWireguard(p) ==
  /\ Doing(p, "connect") /\ At(p, "address")
  /\ tokenLock' = Ask(tokenLock, p, "read")
  /\ Go(p, "call")
  /\ UNCHANGED <<mesh, token, outcome>>

SetConnected(p) ==
  /\ Doing(p, "connect") /\ At(p, "cache")
  /\ mesh' = Connected(task[p].found)
  /\ outcome' = "connected"
  /\ End(p)
  /\ UNCHANGED <<token, tokenLock>>

-----------------------------------------------------------------------------
(* Calls that need the token: list_peers, register_agent, ping_peer *)

\* list_peers and ping of the client do nothing unless connected.
StartCall(p, cmd) ==
  /\ task[p] = Idle
  /\ IsConnected
  /\ Start(p, cmd, "call")
  /\ tokenLock' = Ask(tokenLock, p, "read")
  /\ UNCHANGED <<mesh, token, outcome>>

ListPeers(p) == StartCall(p, "peers")
Ping(p) == StartCall(p, "call")

\* A birth goes through the mesh when that is connected and licensed.  Once the
\* coordination server has certified the agent, the client registers it if it is
\* still connected, and it does not matter whether that succeeds.  A failure before
\* makes it a birth on this machine.
BirthViaMesh(p) ==
  /\ task[p] = Idle
  /\ IsConnected
  /\ HasFeature("birth_mesh")
  /\ Start(p, "call", "certify")
  /\ UNCHANGED clientVars

Certified(p) ==
  /\ At(p, "certify")
  /\ IsConnected
  /\ tokenLock' = Ask(tokenLock, p, "read")
  /\ Go(p, "call")
  /\ UNCHANGED <<mesh, token, outcome>>

BirthLeavesMesh(p) ==
  /\ At(p, "certify")
  /\ End(p)
  /\ UNCHANGED clientVars

\* The read lock is taken; without a token the call fails at once.
BeginCall(p) ==
  /\ At(p, "call")
  /\ Granted(tokenLock, p, "read")
  /\ IF token
       THEN tokenLock' = Take(tokenLock, p, "read") /\ Go(p, "answer")
       ELSE /\ tokenLock' = Pass(tokenLock)
            /\ IF Doing(p, "connect") THEN Go(p, "cache") ELSE End(p)
  /\ UNCHANGED <<mesh, token, outcome>>

\* The server answers; connect and list_peers use what it says.
Answered(p, peers) ==
  /\ At(p, "answer")
  /\ tokenLock' = Release(tokenLock, p)
  /\ IF Doing(p, "call")
       THEN End(p)
       ELSE task' = [task EXCEPT ![p].at = "cache", ![p].found = peers]
  /\ UNCHANGED <<mesh, token, outcome>>

\* No answer, or one that cannot be read: connect goes on without peers.
MutantUnanswered(p) ==
  /\ At(p, "answer")
  /\ IF Doing(p, "connect") THEN Go(p, "cache") ELSE End(p)
  /\ UNCHANGED clientVars
Unanswered(p) ==
  /\ At(p, "answer")
  /\ tokenLock' = Release(tokenLock, p)
  /\ IF Doing(p, "connect") THEN Go(p, "cache") ELSE End(p)
  /\ UNCHANGED <<mesh, token, outcome>>

\* list_peers updates the cached peers of a mesh that is still connected.
CachePeers(p) ==
  /\ Doing(p, "peers") /\ At(p, "cache")
  /\ mesh' = IF IsConnected THEN Connected(task[p].found) ELSE mesh
  /\ End(p)
  /\ UNCHANGED <<token, tokenLock, outcome>>

-----------------------------------------------------------------------------
(* MeshClient::disconnect: wg-quick down, then the state; the token stays *)

Disconnect(p) ==
  /\ task[p] = Idle
  /\ Start(p, "disconnect", "set")
  /\ UNCHANGED clientVars

SetDisconnected(p) ==
  /\ Doing(p, "disconnect") /\ At(p, "set")
  /\ mesh' = Disconnected
  /\ outcome' = "disconnected"
  /\ End(p)
  /\ UNCHANGED <<token, tokenLock>>

-----------------------------------------------------------------------------
(* The daemon *)

\* With mesh.auto_connect the mesh is connected before anything is served, and
\* whether that works does not matter.
AutoConnect ==
  /\ phase = "boot"
  /\ phase' = "connecting"
  /\ Connect(Daemon)
  /\ UNCHANGED licenseVars

Serve ==
  /\ phase # "serving"
  /\ task[Daemon] = Idle
  /\ phase' = "serving"
  /\ UNCHANGED <<licenseVars, clientVars, task>>

\* The process ends and is started again; only the license file stays.
MeshDaemonEnds ==
  /\ phase' = "boot"
  /\ task' = [p \in Tasks |-> Idle]
  /\ mesh' = Disconnected /\ outcome' = "disconnected"
  /\ token' = FALSE /\ tokenLock' = Free
  /\ UNCHANGED licenseVars

MeshRequest(p) ==
  /\ phase = "serving"
  /\ \/ Connect(p) \/ Disconnect(p) \/ BirthViaMesh(p)
     \/ ListPeers(p) \/ Ping(p)
  /\ UNCHANGED <<licenseVars, phase>>

MeshStep(p) ==
  /\ \/ SetConnecting(p) \/ ConnectFails(p)
     \/ \E hasToken \in BOOLEAN : Authenticated(p, hasToken)
     \/ StoreToken(p) \/ SetupWireguard(p) \/ SetConnected(p)
     \/ BeginCall(p) \/ Unanswered(p) \/ CachePeers(p)
     \/ \E peers \in SUBSET Peers : Answered(p, peers)
     \/ Certified(p) \/ BirthLeavesMesh(p)
     \/ SetDisconnected(p)
  /\ UNCHANGED <<licenseVars, phase>>

LicenseChanges == LicenseNext /\ UNCHANGED <<clientVars, task, phase>>

MeshNext ==
  \/ AutoConnect \/ Serve \/ MeshDaemonEnds \/ LicenseChanges
  \/ \E p \in Requests : MeshRequest(p)
  \/ \E p \in Tasks : MeshStep(p)

\* Tasks go on: calls of the server have a timeout, wg-quick ends, and the lock
\* of the token serves its line in order.  Nobody has to send requests.
MeshFairness == \A p \in Tasks : WF_meshVars(MeshStep(p))

MeshSpec == MeshInit /\ [][MeshNext]_meshVars
MeshFairSpec == MeshSpec /\ MeshFairness

-----------------------------------------------------------------------------
(* Properties *)

\* Whatever requests were interleaved, once no connect or disconnect is in
\* progress mesh.status says what the one that ended last came to; in particular
\* it is never left at "connecting", and a late answer of mesh.peers does not
\* bring back a connection that was closed (mesh.rs, connect and list_peers).
MeshSettles ==
  (\A p \in Tasks : ~Doing(p, "connect") /\ ~Doing(p, "disconnect"))
    => mesh.state = outcome

\* The mesh is used only after a license that has it: a file that is torn,
\* edited or signed for another tier never gives the feature (license.rs,
\* load_license, with the check at the start of connect).
MeshWasLicensed ==
  mesh.state # "disconnected" => \E tier \in licensed : "mesh" \in Features[tier]

\* Every request ends, and so does the start of the mesh: nobody keeps the lock of
\* the token, though a connect waits to write it while calls hold it for up to 30
\* seconds each (mesh.rs, authenticate and list_peers).
MeshTasksEnd == \A p \in Tasks : task[p] # Idle ~> task[p] = Idle
=============================================================================
