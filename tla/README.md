# TLA+ models and proofs for grokingclawid

This directory holds TLA+ specifications of the stateful parts of the
repository, the TLC configurations that model-check them on small instances,
and TLAPS proofs of the properties that matter most. Paths below are relative to
the repository; `daemon/` is `crates/grokingclaw-daemon/src/`, `proxy/` is
`crates/grokingclaw-proxy/src/`, `core/` is `crates/grokingclawid-core/src/` and
`cli/` is `crates/grokingclawid-cli/src/`. `PROJECT.json` has the map from every
definition to the lines it models.

## 1. The system

GrokingClaw gives AI agents identities and runs them. The **CLI** issues signed
agent cards, rotates their keys, delegates scopes, revokes and verifies them, and
can stand as a **guard** before an MCP server. The **daemon** births agents,
supervises their processes, serves IPC requests, an A2A endpoint and an OAuth
bridge, and anchors audit logs to the IOTA chain. Each running agent has a
**sidecar proxy** that checks the scope of its requests, adds OAuth tokens, and
writes the audit log.

| Component | State | Operations | Hard because |
|---|---|---|---|
| Supervisor (`daemon/supervisor.rs`) | map of agents behind one `RwLock`: status, child, proxy handle, restart times; `agents/<name>/` | init, register, start, stop, delete, check_health, agents_needing_start, stop_all | several critical sections per operation; processes end by themselves; the daemon can be killed |
| Main loop (`daemon/main.rs`) | shutdown flag, snapshot of names | a pass every 5 seconds, shutdown | snapshot used after the lock is released |
| Birth (`daemon/birth.rs`, `daemon/daemon.rs`) | files of the new agent | mesh birth, fallback, local birth, registration | check-then-act on name and limit; any write can fail |
| IPC (`daemon/ipc.rs`) | none | dispatch | clients run concurrently |
| Audit log (`core/audit.rs`, `daemon/daemon.rs`) | SQLite table, hash chain | record_entry, query_audit with verify_chain | SELECT and INSERT are two transactions; several connections; rows may be edited |
| OAuth bridge (`daemon/oauth_store.rs`, `oauth_flow.rs`, `daemon.rs`) | encrypted file per agent | register, authorize, callback, exchange, refresh, revoke | load–await–save without a lock; temp file and rename |
| Proxy (`proxy/*.rs`) | rate-limit deque, token cache | check, forward, tunnel, refresh | concurrent connections, sliding window, stale tokens |
| Anchor worker (`daemon/anchor.rs`) | SQLite table of anchors, `pending_count` | cycle: read, batch, save, submit | lost answers, restarts, clock, offline node |
| Cards and revocation (`cli/commands/*.rs`, `core/revocation.rs`) | card file, key file, registry, audit log | issue, rotate, delegate, revoke, verify | processes that read and write one file after the other |
| MCP guard (`cli/commands/guard.rs`) | session, failure counter | authenticate, forward | lockout window; card state changes after the check |
| A2A server (`daemon/a2a.rs`) | map of tasks behind a lock | message/send, tasks/get, list, cancel, control stop | one lock held while another is waited for; dropped connections |
| Mesh client (`daemon/mesh.rs`) | connection state; token of the transport behind a lock | connect, disconnect, list_peers, ping, register_agent | state set before, between and after awaits; a lock held over calls |
| License (`core/license.rs`, `cli/commands/license.rs`) | `license.json` | activate, deactivate, load | written in place while the daemon reads it; may be edited |
| Templates, updates (`daemon/templates.rs`, `updates.rs`) | a directory per template; list of updates behind a lock | install, create, check, apply, the loop | read lock held over downloads; one archive file; a list that is stale when applied |
| Request signing (`core/httpsig.rs`, `proxy/signer.rs`, `cli/commands/sign.rs`) | none: card and key files | sign, verify-sig, WebSocket upgrades and messages | card and key are read one after the other; expiry; headers put together |
| Challenge (`core/challenge.rs`, `cli/commands/challenge.rs`) | files exchanged by two parties | create, respond, verify | expiry, late and repeated responses |
| Configuration, IOTA, crypto, wallet, formatting | none of their own | – | – |

How they interact: IPC clients and the main loop call the supervisor, which
starts a proxy and a process per agent; a birth writes an agent's directory and
then registers it; the proxy appends to the agent's audit log and asks the daemon
over IPC to refresh tokens; the anchor worker reads all audit logs; the A2A server
asks and stops agents through the supervisor's lock; the CLI and the guard share
the revocation registry. The license decides whether the mesh may be used and how
births go; a birth registers its agent through the mesh client and copies files
of a template; the update loop and IPC requests install templates; whoever signs
uses the card and the key that `rotate` may be replacing.

## 2. Modules

| Module | Models | Composes |
|---|---|---|
| `Supervisor` | supervisor, main loop, IPC requests on agents, births and deletions | – |
| `AuditLedger` | abstract: an append-only ledger | – |
| `AuditChain` | record_entry, and verify_chain over what query_audit selects | refines `AuditLedger` |
| `OAuthRecords` | the contents of the store and the pure operations on it | – |
| `OAuthRegistry` | abstract: a registry whose operations are atomic | `OAuthRecords` |
| `OAuthStore` | requests on the store file | `OAuthRecords`, refines `OAuthRegistry` |
| `OAuthCascade` | the recursion of cascade_remove, against `Descendants` | `OAuthStore` |
| `Stamps` | instants in a window, as ages, and the deque they are kept in | – |
| `Proxy` | scope, token cache and request handling | `Stamps` |
| `Anchor`, `AnchorRoots` | the anchor cycle; the Merkle root | – |
| `Identity` | the CLI commands on a card and the registry | – |
| `Guard` | the MCP guard | `Stamps` |
| `A2A` | the A2A server's tasks and locks | – |
| `RWLock` | Tokio's fair read-write lock, as functions on its value (external) | – |
| `Tasks` | the daemon's tasks: IPC requests in progress and one of its own | `RWLock` |
| `License` | the license file, its commands and what it permits | – |
| `Mesh` | the mesh client, requests and births that use it | `License`, `Tasks` |
| `Updates` | the template registry, the update checker and its loop | `Tasks` |
| `HttpSig` | signature bases, signing and verifying, as operators | – |
| `Authentic` | abstract: what signatures are for | – |
| `Signing` | who signs and verifies, with rotations in between; challenges | `HttpSig`, refines `Authentic` |
| `MC*` | constants for TLC | the module of the same name |
| `DaemonProofs` | theorems about the daemon's tasks | `Supervisor`, `Mesh`, `Updates` |
| `GatewayProofs` | theorems about what counts over a window | `Proxy`, `Guard` |
| other `*Proofs` | theorems about `AuditChain`, `OAuthStore`, `Anchor`, `Identity`, `A2A`, `Signing` | the module of the same name |

Definitions named `Mutant...` stand before the definition they alter and are used
by no specification: each is a plausible mistake in the code that a property must
detect (`mutants` in `PROJECT.json`).

### Supervisor

A critical section under the agents lock is one action. `StartAgent`,
`StopAgent` and `Checked` (with `Reap` and `Expire`) are start_agent, stop_agent
and check_health; stop_agent keeps the lock while it waits for the process, so it
is one action. The main loop is a control point `main`, with the names of its
snapshot in `todo`. A birth is a request record that goes through the stages
`named` (no such agent), `counted` (limits), `certified` (mesh birth wrote its
files), `local` (fallback), `written`, `installed`, `saved`; a deletion through
`stopped` and `removed`. Between any two stages all other actions may come. `disk` is what `agents/<name>/` holds:
nothing, a torn `agent.toml`, an `agent.toml`, or one with `run.sh`. `leaked` is an
accept loop whose handle was dropped, `stray` a process that outlived its daemon.
Restart times are kept as ages up to `Window`; `marks` is an independent record
of the restarts granted, which `RestartBudget` is about. Simplifications:
start_agent's look for `run.sh` is part of its critical section, register's
rewrite of `agent.toml` is one step with the read before it. A try_wait that fails
(`daemon/supervisor.rs:537`) is only logged and leaves the agent to the next pass; it is
left out, so `DeadChildNoticed` assumes that it does not fail for ever.

### AuditChain

A connection (`Writers`) selects the last hash and inserts the row in two steps;
an insert may fail. A hash is the sequence of contents it was computed from
(SHA-256 without collisions); a content has the agent_id and whatever else is
hashed. `Selections` are the sets of rows that query_audit can hand to verify_chain:
those of one agent_id, or all rows when the supervisor does not know the agent.
`VerifyChain` is verify_chain of the daemon on such a set: each row against the row
selected before it, the first one only against the genesis value; signatures are not
looked at, as in the code. `OverwrittenSpec` adds somebody who writes the database
file: `Overwrite` gives a row any content and any link, with the old hash or one
computed anew. `written` keeps the rows as they were inserted and `changes` counts
the changed ones, so the properties can tell what the code does by itself
(`ChainValid`, `NoDanglingLink` and `LedgerKept`, while nothing was changed) from what
it lets somebody notice (`HeadCommits`). `AuditLedger` says what the log promises: an
append-only sequence, to which `LastHash(log)` is mapped. Several connections can fork
the chain; `Unforked` says that they did not, and `ChainValid` and `LedgerKept` that
this is all that can go wrong among writers. `ChainValid` also says which selections
verify: exactly those without a gap from the first row on.

### OAuthRecords, OAuthStore, OAuthRegistry, OAuthCascade

Each request loads the file, computes or awaits the provider, and saves by
create, write and rename of one temporary file, each a step; the daemon may crash
in between and the file system may refuse. Encryption is abstracted to whether the file is
whole or torn. Requests that overlap share the temporary file: a rename by one
turns the other's open file into the store itself (`WriteThrough`). A token is a
number; which tokens can be refreshed is left open. `Without` removes the
descendants as a closed set; `CascadeIsComplete` compares this with the recursion
that the code performs, in every state where a revocation runs.

### Proxy

A connection goes through the scope check (`stamps` is the deque, as `Stamps` keeps it), the
token cache, an optional wait for a refresh, sending, and logging, with every
early return. `recent` records the admitted requests independently of the deque.
A domain is the sequence of its labels; subdomains are suffixes.

### Anchor, AnchorRoots

A cycle reads the watermark, then each agent's log, saves batches, lists waiting
anchors and submits them one at a time; recording goes on, the clock may be set to
any value, the node goes off and on, answers get lost, and the daemon restarts after any
step. Saving an anchor and counting it are two steps, as are the update of its status
and the decrement, since `pending_count` is behind a lock that is taken in between;
status requests may read it at any time. A submission is a transfer of 1 NANOS that
carries nothing of the anchor: `ledger` has the transactions of the daemon with the
outcome of each, which the code does not look at, and `digest` is the place on the
ledger that the anchor's row names.
`MerkleRoot` is the recursion of compute_merkle_root on hashes that stand for
what they were computed from. `InOrder` is `ORDER BY id`: the k-th row is the one
with k ids up to its own.

### Identity

Each CLI command is a process with one step per file or database that it reads or
writes, any number of which run at once, and each may end after any step. Keys are
numbered. A signature is known by what it was made over (canonical JSON, the JSON
in field order, something else, undecodable). `line` names the card that a card
descends from by rotation. Left out: the archived key, which nothing reads, and
delegate's audit entry.

### Guard

One line of the agent is one action. `handle_authenticate` is `Locked`,
`Countable`, `Signed`, `Acceptable` and what follows in the order of the code's
checks, including which refusals count as failures. `counted` holds a stamp of each
failure within the window since the last success, independently of the counter. A line
other than these is a request, text, or `unparsed`: JSON that a server may take for a
request and that does not parse as JsonRpcRequest (a batch, a line without `jsonrpc`),
which the guard passes on like text. Left out: the reported totals and the
thread that copies answers.

### A2A

A connection waits for the supervisor's lock (to verify a signature, to find the
target, to answer about agents) and for that of the tasks. message/send holds the
lock of the tasks over its whole work. A connection that breaks off drops its
handler at an await, with the locks it holds (`broken`). `agentsLock` may be
taken by the rest of the daemon at any time.

### RWLock, Tasks, License, Mesh

A task has a command and a place in it; between two awaits it makes one step.
connect is `Connect` (the license is looked at), `SetConnecting`, `Authenticated`
with or without a token, `StoreToken`, `SetupWireguard`, the call for the peers
and `SetConnected`, or `ConnectFails` at any of its early returns. MeshState is
only locked to read or set it, so its lock is not modelled; the token's is, with
its line of waiters, because list_peers, register_agent and ping_peer hold it
until the server has answered. `outcome` is an independent record of how the last
connect or disconnect ended. The license file is truncated and then written, the
process that writes it may be killed in between, and its owner may edit it;
`licensed` records the tiers whose signed key was ever completely there. A birth
through the mesh is what it does with the mesh client; what it does on disk is in
`Supervisor`. Left out: register_node and deregister_agent, which have no caller,
and the mock transport.

### Updates

One template with two parts, its manifest and its other files, which tar unpacks
one after the other. check reads the manifest, asks the registry, and waits to
write the list; apply_template_updates reads the list and keeps that lock over its
downloads. install_template writes its archive under one name, runs tar on whatever
is there by then, and removes it. The daemon may end at any time, and a tar at work
may still finish. `byHand` and `failed` record that somebody installed or created
by hand and that an extraction was cut short. The registry may name any other version
as its latest, a lower one too, for check compares with `!=`. Versions are numbers whose tens are
the major version; those in `Unnumbered` do not begin with a number, for which
is_major_update says no.

### HttpSig, Signing, Authentic

A signature is the key with what it was made over; a signature base is its lines
and its parameters in their order, so two texts are the same exactly if their
models are. The proxy's signer and the A2A server's verifier write bases of their
own, with the order and the label the code gives them. Verifiers see any request
of `Requests` with the Signature-Input header of one signed request and the
signatures of another, and hold any card the agent ever had; the second signature may
be missing on arrival (`Arriving`), since it is an optional header or field. `sign` and `respond`
read the card in one step and the key in the next; `rotate` writes the card in one
step and the key in the next, and may be killed in between. `said` and `taken`
record what was signed and what was accepted last; `Authentic` is the abstract
specification in which only what was said, and still counts, is taken. A statement
that needs both signatures (`both`: the response of a hybrid card) is taken only if
the post-quantum key confirmed it; a request or a message of a hybrid card need not be
(section 5). `SignBytes` is what a challenge puts under the signature, in which no
minimum and an empty one, and no scope and an empty one, look the same. The A2A server
is there with its own verifier, but it accepts nothing that any signer here makes, so
about what it accepts the refinement says nothing.

## 3. Runs

All passing runs explore their whole state space. Sizes are distinct states.

| Run | Checks | Bounds | States |
|---|---|---|---|
| `supervisor` | `StatusMatchesProcess`, `RestartBudget`, `NotGivenUpEarly`; live: `DeadChildNoticed`, `ExpiredIsStopped`, `ShutdownCompletes` | 1 agent, 1 client, 2 restarts in 3 ticks | 44,608 |
| `audit_log` | `ChainValid`, `NoDanglingLink`, `HeadCommits`, `LedgerKept` | 2 writers, 2 agents, 3 entries, 2 changed rows | 450,659 |
| `oauth_one_client` | `StoreReadable`, `CascadeIsComplete`, `ImplementsRegistry` | 1 client, 3 registrations, 2 tokens | 152,159 |
| `oauth_two_clients` | `TokensBelong` | 2 clients, 2 registrations, 1 token | 617,986 |
| `proxy_rate` | `RateBound`, `NotDeniedEarly` | 2 connections, 3 domains, 2 requests in 2 ticks | 15,368 |
| `anchor_cycle` | `AnchoredOnce`, `SubmittedHasTransaction`, `SubmittedStays`, `PendingCountBounded`, `RootsIdentify` | 2 agents with 2 entries each, batches of 3, 2 submissions a cycle, 2 transactions, clock 1..2 | 230,400 |
| `identity_cards` | `TokensNarrow`, `AuditedIsDone`, `RevokedForGood`, `RevocationStays` | 2 processes, 2 keys, 2 scopes, clock 0..1, 1 token | 1.59 million |
| `guard_session` | `FailureRate`; live: `LockEnds` | 4 cards, 3 failures, 3 seconds | 322,560 |
| `a2a_tasks` | `SubmittedIsAbandoned`, `LastMessageKept`, `SettledStays`, `RequestsEnd` | 2 connections, 1 task id, 3 messages | 57,432 |
| `mesh_requests` | `MeshSettles`, `MeshWasLicensed`; live: `MeshTasksEnd` | 2 requests and the daemon's connect, 1 peer, keys for 2 tiers, 1 edited | 24,052 |
| `updates_loop` | `TemplateNotMixed`, `AutoNotAboveMajor`; live: `UpdatesTasksEnd` | 1 request and the loop, versions 2.0, 2.1, 3.0 in any order | 287,592 |
| `signatures` | `HonestIsAccepted`, `ImplementsAuthentic` | 3 schemes, 2 keys, 3 requests, 2 signatures or challenges, 4 demands, 1 response, clock 1..3 | 188,572 |

Why the bounds are enough to be interesting:

- Apart from the limit on their number agents do not affect each other, so one
  agent shows every interaction of a client and the loop; three ticks let a window
  slide past two restarts. For more agents and clients there are the proofs.
- Two writers can fork the log at every depth of three entries, and race without
  forking it when a record is given up; three entries of two agents have every kind of
  gap, and two changes can rewrite an entry and its successor consistently.
- Three registrations give chains, siblings and cycles of parents; a second
  client shows every overlap of two saves.
- With two requests in two ticks a window begins in the middle of another.
- A batch of three of four entries has an odd level in the Merkle tree and leaves
  a remainder; two submissions a cycle leave anchors for the next one, and two
  transactions are a lost one and one that is recorded, or two recorded ones.
- Two keys are an issue and one rotation, or two issues, with any other command in
  between; the clock lets a card expire. `identity_cards` does not look for deadlocks because its commands end and
  the bound on keys is reached.
- The guard's cards are one that is accepted, a hybrid one, one as the CLI signs
  it and one with a bad post-quantum signature and without the scopes.
- Two connections with one task id collide in every way; three messages are a
  message, one that replaces it and one that breaks off.

- Two requests and the daemon's own connect are a connect, a disconnect and a call
  that overlap in every order, with a writer waiting between two readers of the
  token; tiers are one with the mesh only and one with births through it.
- A request and the loop are two installations of one template at once; the three
  versions are a minor update, a major one and every way back, so that a list can be
  stale. A lower major version as well would not end in five minutes together with the
  liveness property; for it there is the proof, and section 5.
- Two signatures are a header of one request with a signature of another; two keys
  are a rotation in all its stages; three seconds are before, at and after an end.
  Commands are run by users who may stop, so `signatures` does not look for
  deadlocks.

Symmetry is used only in runs without liveness. The type invariants are not among
the properties of the runs: in the components that have proofs they are theorems or
parts of the inductive invariants.

### Fairness

- `Supervisor!FairSpec`: weak fairness of the main loop as a whole. It is a task
  of a multi-threaded runtime that only waits for a timer, a FIFO lock and a
  process that is killed after a timeout. Nothing is assumed of clients, agents
  or operators.
- `GuardFairSpec`: time passes.
- `A2A!FairSpec`: strong fairness of each handler, because Tokio's locks serve
  waiters in order, so one that becomes free again and again is eventually had;
  and whoever holds the agents' lock lets go. A handler has its request when it begins:
  the body is collected without a timeout (`daemon/a2a.rs:419`, `:804`), so clients are
  assumed to send theirs.
- `MeshFairSpec`, `UpdatesFairSpec`: weak fairness of each task. Calls of the
  server and the registry have timeouts (30 s, 15 s, 120 s), wg-quick and tar are
  taken to end, and the locks are modelled with their line, so no stronger fairness
  is needed. Nobody has to send requests, and the license may change for ever.
- `Anchor!FairSpec` (for `RetriedLater`, section 5): cycles start, and no step that can
  succeed fails for ever.

## 4. Proofs

Checked by TLAPS for every value of the constants, under the `ASSUME` of each
module (types of the constants; a window or a batch is not empty). Two of the proof
modules are about more than one component: each extends several, whose definitions have
names of their own (`MeshSpec`, `UpdatesSpec`, `GuardSpec` beside `Spec`), and proves each
specification apart from the others.

**DaemonProofs**, of `Supervisor`: `TypeCorrect`, `StatusIsTrue`, `RestartsAreBounded`,
`GivenUpOnlyWhenSpent`, for any number of agents, clients, restarts and any
window. The inductive invariant `IndInv` adds to the properties: a daemon that is
down has no agents, requests or work (`DownIsEmpty`), a name without an entry has
no restart times or marks (`AbsentIsFresh`), and the restart times the code keeps,
as far as they are within the window, are the marks (`TimestampsAreMarks`). The last
one is why the rate is bounded: the code counts its own list, the property the
marks. It is needed because pruning and counting happen only when a process is
found to have ended, while time passes in between. One lemma per kind of step
(quiet, adjusting one agent, expiry, reset, health pass) carries the invariant, and each action is reduced
to one of them. `GivenUpOnlyWhenSpent` is an action property, from the same
invariant and `OnlyHealthGivesUp`.

Of `Mesh`: `ConnectionSettles` and `ConnectionWasLicensed`, for any number of requests,
peers, tiers sold and edits. `MeshInv` adds to `MeshSettles` which places of which commands
a task can be at (`MeshTasks`), and that every connect in progress, like every
state but disconnected, was preceded by a signed license with the mesh
(`MeshLicense`): the license is looked at when a connect begins and the state is set
awaits later, when the file may be gone. A step of a task either leaves the connection
aside, begins to settle it, says that it is connecting, or ends with what it came to
(`Aside` and the definitions after it); each action is shown to be one of them. Neither
proof says anything of the token's lock: they hold whoever is served first.

Of `Updates`: `UpdatesDoNotMix` and `UpdatesNotAboveMajor`, for any number of requests, any
versions and a registry that goes back and forth among them. `UpdatesInv` has three parts beside each other. `UpdatesTypes` types the state,
the lock with its line included. `OneUpdateAtATime` says that a task that works on the
template holds the list for reading, that the list has one update, the one it works on,
that the archive, if there is one, is of that version, and that what it unpacked is
still there; so two installations at once are of one version, and a check waits until
both are done to replace the list. `NoneAboveMajor` says of every version that is on its
way, in the template, the archive, the list, or in what a check found or a task installs,
that its major version is not above the first one or that it is marked as major
(`Trusted`, `Harmless`); it does not need the lock, so the list may be as old as it likes.
A step back to a lower major version keeps it, which is why the theorem says "not above"
and not "the same" (section 5). Like the property, it is about unattended updates among
versions that begin with a number, since others escape the comparison.

**AuditChainProofs**: `TypeCorrect`; for any number of writers and agents, with rows
changed at any time: `NeverDangling`, from the strengthening that also the hash
each busy writer holds is the genesis value or that of a row while nothing was changed
(`RecordedInv`); `TamperingIsSeen`, for which the invariant only says that the log and the
record of it are equally long (`RowsAsWritten`) and the argument is the chain itself: in
two logs that verify and end in the same hash, the hashes agree in every row
(`HeadFixesHashes`), and a hash has one link and one content (`SameHash`); and
`ChainStaysValid` and `LedgerIsKept`, from `ManyInv`, which adds that unchanged rows are
linked one to the next if they are unforked and that their last hash is as long as the
log (`ForkedOrValid`). The argument is `UnusedIsLast`: in such a chain every hash but the
last is some row's predecessor, so a writer that forks nothing holds the last hash, however
old its SELECT is. Which selections verify follows from that no two rows hang on one hash:
a row that is not the first fits only the one right before it (`ValidSelection`).
`OneWriterVerifies` and `OneWriterKeepsTheLedger` hold without changes under the assumption
of one writer, from `SingleInv`: what the busy writer holds is the last hash (`HeldIsLast`),
and the last hash is the sequence of all contents (`HeadIsComplete`). The latter is the
refinement of `AuditLedger`: every step appends one content or changes nothing.

**OAuthStoreProofs**: `TypeCorrect`; `TokensAlwaysBelong` for any number of
clients, from `ManyInv`: not only the store but the temporary file and every copy
in memory have no token without a registration (`AllTidy`), and a request that
awaits the provider has the registration in its copy (`AskedIsRegistered`);
`OneClientReadable` and `OneClientRegistry` for one client, from
`OneInv`: the store is readable and each copy is the store or an outcome of one
registry operation on it (`UpToDate`), so that the rename is that operation and all other steps
stutter.

**GatewayProofs**, of `Proxy`: `NeverAboveTheLimit` and `NeverBelowTheLimit`, for any limit, window
and number of connections. The code counts its deque, the properties the record of
what was admitted; `RateInv` says that the two agree once what is too old is left
out, although the deque is only pruned when a request comes (`StampsAreRecent`).
Stamps of one instant are numbered, so that the lemma `PushCounts` can show that
each admitted request adds one to the count.

Of `Guard`: `FailuresAreBounded`, for any cards, limit and window.
The code keeps a counter and the time of the last failure, the property a stamp of each
failure. `FailuresAreCounted` relates them: no stamp is younger than the last
failure, and there are no more of them than the counter says, so that a reset of the
counter, which needs the last failure to be a window old, finds no stamp left. It uses
the lemmas on stamps that were proved for the proxy.

**AnchorProofs**: `EachHasItsTransaction`, `SubmittedForGood` and
`PendingCountHolds`, for any number of agents, entries, anchors and transactions and any
limits, over restarts and lost answers. `QueueInv` adds to the properties that the queue
holds each waiting anchor at most once (`QueueWaits`: two submissions of one anchor
would lower the count twice), that the digest in hand between the transaction and the
update is of an executed transaction that no anchor names (`AnswerIsNew`), and how the
count compares with what waits at each place of the cycle: behind it between a save and
its count, ahead of it by at most one between an update and its decrement (`Counted`). `NothingAnchoredTwice`
holds under the assumption `~MayMisread`, that the query of the last timestamp does
not fail (section 5 says what happens if it does), and from `OnceInv`: what the cycle
has gathered is there once, from agents it has read, and in no anchor; every anchored
entry is no later than its anchor's timestamp, and no anchor is later than the
watermark while agents are read. It does not use the order in which entries were
recorded, so the clock may be set back. That `ORDER BY id` returns each row once is
the lemma `InOrderOnce`, from the ranks of a finite set.

**IdentityProofs**: `DelegationNarrows`, `AuditClaimsNoMore`, `RevocationIsFinal` and
`RevocationCoversLine`, for any number of processes, keys, scopes and tokens. `IndInv`
follows a command between its reads and writes: what it read was issued, the key it
made is new and nobody else's, the token it is about to write is narrower than a card
(`AllFit`, `KeysDiffer`); and it counts: keys audited or about to be audited are no
more than keys filed (`KeysAudited`), and of the processes that revoke one id one
gets to the audit entry (`RevokedOnce`).

**A2AProofs**: `NothingHalfDone`, `TheLastIsKept` and `SettledForGood`, for any number of
connections, task ids and messages. `A2AInv` says who holds the lock of the tasks
(`LockIsHeld`), that a message not stored yet is nobody else's (`ComingIsNew`) and
that what a handler works on is in the store as it left it (`WorkIsStored`), which is
why no other request sees it or is overwritten by its end.

**SigningProofs**: `AcceptedIsAuthentic`, the refinement of `Authentic`, and
`HonestNeverRefused`, for any requests, payloads, demands, keys and times.
`SaidInv` says of every signed request, message and response that it was said, by
its key, with the end and the confirmation it carries, for a response of a hybrid card
that it needs both, and that challenges have ids of their own. The argument of the refinement: equal bases have equal lines and
so state the same (`SameLines`); a base in the proxy's order is none that a verifier
rebuilds (`NotAsTheProxy`), and equal parameters have the same end, present or not
(`SameParams`), so that a header put together with another request's signature can
move neither. The A2A server's base has the label in it and equals none that is
signed (`A2AAcceptsNone`). The argument of the other: a spelling changes no value that
is covered (`SameValue`), for which header names must not begin with "@"
(`SigningAssumption`; HTTP has no such names).

Only model-checked: all liveness, since fairness and ENABLED are beyond the prover
(`DeadChildNoticed`, `ExpiredIsStopped`, `ShutdownCompletes`, `LockEnds`, `RequestsEnd`,
`MeshTasksEnd` and `UpdatesTasksEnd`); and what is defined by recursion
(`CascadeIsComplete`, `RootsIdentify`), since induction over data is out of its reach. Every other property of a run is a
theorem.

## 5. Known deviations

Where a comment, a document or a test says something that the code does not do,
the property that states it is kept in the module, under its own heading, and TLC
refutes it when it is checked; none of these is a standing run.

To see one refuted, put it in place of the properties of its component's cfg, without
the symmetry. `AgentLimit` needs `TwoNames`, `TwoClients` and
`RestartOnSuccess <- NoName`; `ChildrenAreNarrower` needs `OneScope`; `StoreReadable`
and `RevokedStaysRevoked` take `oauth_two_clients.cfg`, the other two of the OAuth
store `oauth_one_client.cfg`; `RetriedLater` is checked under `FairSpec`;
`AutoStaysInMajor` needs `Versions = {10, 20, 30}`; `Unforked` stands for the invariant
`Unforked(log)`, of `Spec`.

- `RevokedStaysRevoked`: oauth_callback and oauth_refresh load the store, wait for
  the provider and write that copy back; a revocation completed meanwhile is undone
  (`daemon/daemon.rs:268`; CHANGELOG.md:18).
- `OneProxyPerAgent`: check_health drops an exited child but keeps the proxy
  handle, which the restart overwrites; the accept loop goes on
  (`daemon/supervisor.rs:512`).
- `RestartsOnlyNeeded`: an agent stopped after the snapshot is started again
  (`daemon/main.rs:585`).
- `AgentLimit`: two births pass the limit before either is registered
  (`daemon/daemon.rs:77`).
- `OneProcessPerAgent`: a signal ends the daemon, its agents live on, and the next
  daemon starts them a second time (`daemon/supervisor.rs:407`).
- `DaemonCanBoot`: a birth that fails inside the write of `agent.toml` leaves a
  file on which init gives up (`daemon/birth.rs:529`, also `:457` if the fallback
  fails before its own write).
- `Unforked`: two connections that select before either inserts fork the chain,
  and verify_chain fails from then on (`core/audit.rs:105`).
- `ChangesDetected`: the content of the first entry is not verified, and of the others
  no signature is: rows that are changed with their hashes and those of their successors
  verify, and only a hash kept elsewhere tells (`HeadCommits`; `daemon/daemon.rs:404-435`,
  against docs/NCCOE-REFERENCE-GUIDE.md:339).
- `OwnRowsVerify`: query_audit selects the rows of one agent_id before the links are
  verified; in a log with the rows of two ids it reports an invalid chain, though
  nothing was changed (`daemon/daemon.rs:155-176`).
- `StoreReadable` with two clients: both write one temporary file
  (`daemon/oauth_store.rs:164`).
- `RevocationEnds`: registrations that are each other's parents make the cascade
  recurse without end (`daemon/oauth_store.rs:242`).
- `ChildrenAreNarrower`: the delegation checks are called by tests only
  (`daemon/daemon.rs:232`; CHANGELOG.md:17).
- `EveryRequestLogged`: several error paths return before the log entry
  (`proxy/server.rs:303, 313, 374, 393, 405`; `proxy/audit.rs:3`).
- `NoRevokedToken`: nothing removes a revoked token from the proxy's cache
  (`proxy/oauth.rs:154`).
- `RetriedLater`: anchors that wait are only submitted in a cycle that finds a new
  entry (`daemon/anchor.rs:339`, against `anchor.rs:9`).
- `RootRecoverable`: the transaction of an anchor is a transfer of 1 NANOS, the same for
  every anchor; the comments say that the Merkle root is in it and recoverable from it
  (`daemon/anchor.rs:492-503`, against `:446-452` and `:488-491`).
- `SubmittedWithSuccess`: a transaction that was executed and failed has a digest too, and
  the effects are not looked at (`core/iota.rs:207-210`, `:414-451`).
- `NothingBeforeSession`: a line that does not parse as JsonRpcRequest is passed on before
  anyone has authenticated (`cli/commands/guard.rs:154-162`, against `:9-10`).
- `AutoStaysInMajor`: a version that differs is an update and only a higher major version
  is a major one, so a registry that goes back is followed to a lower major version
  (`daemon/updates.rs:213`, `:330`, against `:230`).
- `HybridNeedsBoth`: requests and messages of a hybrid card are accepted with the Ed25519
  signature alone if the other one is missing (`cli/commands/sign.rs:149-163`, `:185`,
  `core/httpsig.rs:622`; against SECURITY.md:23 and :53).
- `SessionEnds`: the guard checks a card once (`cli/commands/guard.rs:225`, against
  `:532`).
- `AdmitsIssued`: the guard verifies a signature over the fields in struct order,
  where cards are signed over sorted JSON (`cli/commands/guard.rs:376`,
  `issue.rs:271`).

Found while reading, and part of the models without a property of their own:

- The proxy asks for a refresh under the agent's UUID where the daemon looks for a
  directory by name, and matches bindings differently from scopes
  (`proxy/oauth.rs:248`, `proxy/scope.rs:8`).
- oauth_exchange reads `agent-card.json`, births write `agent.card.json`
  (`daemon/daemon.rs:388`).
- A rotation that ends between the card and the key loses the key
  (`cli/commands/rotate.rs:151`); its archive name has seconds and is overwritten
  (`:145`); revoke does not ask whether the key is the card's
  (`revoke.rs:26`); verify and the guard pass over a registry they cannot read
  (`verify.rs:108`).
- delegate does not ask whether the parent's card is revoked, where
  docs/NCCOE-REFERENCE-GUIDE.md:229 does (`cli/commands/delegate.rs`).
- Entries older than the watermark are never anchored (`daemon/anchor.rs:271`); if
  its query fails, everything is anchored again (`:539`, `MayMisread`); a batch
  size of 0 panics (`:346`).
- The comment on births (`daemon/birth.rs:8`) speaks of queueing and refusing; the code
  falls back to a local birth, and queue_birth has no caller.
- A message with the id of a settled task replaces it; the control channel's
  revoke stops the agent and never sets the status Revoked
  (`daemon/supervisor.rs:37`).
- A token is used after the proxy's cache is unlocked, and a request that waits for
  a refresh waits without a timeout (`proxy/oauth.rs:102`, `:259`).
- The mesh client's disconnect during a connect is overwritten, and a failed second
  connect resets an existing connection (`daemon/mesh.rs:455`): `MeshSettles` is
  about what ended last, not what was asked last. A license that is removed, or
  torn by a killed activate, does not end a connection (`core/license.rs:455`).
- Two installations of a template share `archive.tar.gz`; a failed extraction can
  leave a new manifest over old files, and no later check sees that
  (`daemon/templates.rs:409`); a list that is out of date can install an older
  version than the one there (`daemon/updates.rs:245`); a version that does not
  begin with a number is never major (`:322`); a birth may copy a template that is
  being unpacked.
- What the proxy signs is accepted by neither verifier: httpsig.rs writes the
  parameters in another order, and the A2A server takes the label into the base,
  sees another target URI and looks for another header (`proxy/signer.rs:79`,
  `daemon/a2a.rs:902`). What `sign` signs, the A2A server does not accept either.
- verify_ws_message leaves replay and order to its caller, where the comment on
  signing says that they are prevented (`core/httpsig.rs:588`); a challenge response
  can be verified any number of times until it expires; `sign` covers neither the
  query nor the body.
- `challenge` without a scope asks for an empty one, which no card has
  (`cli/commands/challenge.rs:25`).

## 6. Not modelled

Configuration, key encoding and encryption, the wallet, event subscriptions,
argument parsing and printing: input and output, with no state of their own. The
IOTA client is what the anchor worker sees of it. Requests that only read. Several
processes of the daemon on one directory, which nothing prevents. `PROJECT.json`
lists each with its reason.

## 7. Plan

Every component that keeps state has a module, a run and proofs, and every safety
property of a run that is not defined by recursion is a theorem. What would extend the
project, in this order:

1. One module in which a birth, the mesh client and the template registry act on one
   agent; now each sees of the others what it needs (`Supervisor` a template that is
   copied, `Mesh` a birth that registers its agent).
2. Two daemons on one directory, which nothing prevents now.
3. The bodies of `CascadeIsComplete` and `RootsIdentify` by induction, once a prover
   that instantiates the induction theorems is at hand.
