----------------------------- MODULE OAuthStore -----------------------------
(***************************************************************************)
(* The OAuth bridge of the daemon for one agent: the oauth_* requests of   *)
(* daemon.rs on the encrypted store of oauth_store.rs.                     *)
(*                                                                         *)
(* There is no lock.  A request loads the whole store, may wait for the    *)
(* provider, changes its copy and saves the whole copy; requests run on    *)
(* the threads of one runtime and interleave at every file operation.      *)
(* Saving is three of them: fs::write opens (and truncates) the temporary  *)
(* file and writes it, then it is renamed over the store.  The temporary   *)
(* file has one name for all requests.                                     *)
(***************************************************************************)
EXTENDS OAuthRecords

CONSTANT Clients   \* IPC connections

VARIABLES
  disk,     \* oauth-tokens.enc
  tmp,      \* oauth-tokens.enc.tmp
  pc,       \* where the request of each client is
  job,      \* the operation and the registration of the request
  copy,     \* the store as the request holds it
  issued    \* number of token responses of the provider

vars == <<disk, tmp, pc, job, copy, issued>>

File == [state: {"absent", "torn", "whole"}, store: OAuthStore]
NoFile == [state |-> "absent", store |-> Empty]
Torn == [state |-> "torn", store |-> Empty]
Whole(s) == [state |-> "whole", store |-> s]

Job == [op: {"none", "register", "grant", "revoke"}, id: Ids \cup {NoId}]
NoJob == [op |-> "none", id |-> NoId]

\* "through" and "unlinked": about to write to a file that another request has
\* meanwhile renamed to the store, or replaced there.
PC == {"idle", "asked", "credentials", "revoking",
       "create", "write", "through", "unlinked", "rename"}

Init ==
  /\ disk = NoFile
  /\ tmp = NoFile
  /\ pc = [c \in Clients |-> "idle"]
  /\ job = [c \in Clients |-> NoJob]
  /\ copy = [c \in Clients |-> Empty]
  /\ issued = 0

-----------------------------------------------------------------------------
(* Loading *)

\* load: no file is an empty store; a torn one does not decrypt.
Readable == disk.state # "torn"
Stored == disk.store

\* A request loads the store, finds it as it wants it and goes on at l.
Begin(c, op, i, s, l) ==
  /\ pc[c] = "idle"
  /\ Readable
  /\ job' = [job EXCEPT ![c] = [op |-> op, id |-> i]]
  /\ copy' = [copy EXCEPT ![c] = s]
  /\ pc' = [pc EXCEPT ![c] = l]
  /\ UNCHANGED <<disk, tmp, issued>>

\* oauth_register
MutantRegister(c, i, p, sc) ==
  Begin(c, "register", i, RegisterProvider(Stored, i, p, sc), "create")
Register(c, i, p, sc) ==
  /\ i \notin Stored.regs
  /\ Begin(c, "register", i, RegisterProvider(Stored, i, p, sc), "create")

\* oauth_callback, up to the question to the provider
Callback(c, i) ==
  /\ i \in Stored.regs
  /\ Begin(c, "grant", i, Stored, "asked")

\* oauth_exchange, which asks the provider with the agent's card.  It reads
\* agent-card.json, where births write agent.card.json: it gets as far as this
\* only if someone else puts that file there.
Exchange(c, i) ==
  /\ i \in Stored.regs
  /\ Begin(c, "grant", i, Stored, "asked")

\* oauth_refresh, which needs a token to refresh
Refresh(c, i) ==
  /\ i \in Stored.regs
  /\ Stored.token[i] # 0
  /\ Begin(c, "grant", i, Stored, "asked")

\* oauth_authorize with client credentials; the other grant types store
\* nothing
Authorize(c, i) ==
  /\ i \in Stored.regs
  /\ Begin(c, "grant", i, Stored, "credentials")

\* oauth_revoke, up to the revocation at the provider
Revoke(c, i) ==
  /\ i \in Stored.regs
  /\ Begin(c, "revoke", i, Stored, "revoking")

-----------------------------------------------------------------------------
(* The provider's answer *)

\* The new tokens go into store s.
Granted(c, s) ==
  /\ issued < MaxTokens
  /\ issued' = issued + 1
  /\ copy' = [copy EXCEPT ![c] = StoreTokens(s, job[c].id, issued + 1)]
  /\ pc' = [pc EXCEPT ![c] = "create"]
  /\ UNCHANGED <<disk, tmp, job>>

\* ... into the copy that was loaded before the question was asked,
Answer(c) ==
  /\ pc[c] = "asked"
  /\ Granted(c, copy[c])

\* ... or, with client credentials, into one that is loaded now.
Reload(c) ==
  /\ pc[c] = "credentials"
  /\ Readable
  /\ job[c].id \in Stored.regs
  /\ Granted(c, Stored)

\* A request ends, and what it held is gone.
Drop(c) ==
  /\ job' = [job EXCEPT ![c] = NoJob]
  /\ copy' = [copy EXCEPT ![c] = Empty]

\* ... with an error
Fail(c) ==
  /\ pc' = [pc EXCEPT ![c] = "idle"]
  /\ Drop(c)
  /\ UNCHANGED <<disk, issued>>

Refused(c) ==
  /\ pc[c] \in {"asked", "credentials"}
  /\ Fail(c)
  /\ UNCHANGED tmp

\* Whatever the provider says to the revocation, the registration goes, and
\* with it all that descend from it.
Removed(c) ==
  /\ pc[c] = "revoking"
  /\ ~Cyclic(copy[c], job[c].id)
  /\ copy' = [copy EXCEPT ![c] = Without(@, job[c].id)]
  /\ pc' = [pc EXCEPT ![c] = "create"]
  /\ UNCHANGED <<disk, tmp, job, issued>>

-----------------------------------------------------------------------------
(* save *)

\* fs::write opens the temporary file; what it had is gone.
MutantCreate(c) ==
  /\ pc[c] = "create"
  /\ tmp' = Whole(copy[c])
  /\ disk' = Torn
  /\ pc' = [pc EXCEPT ![c] = "write"]
  /\ UNCHANGED <<job, copy, issued>>
Create(c) ==
  /\ pc[c] = "create"
  /\ tmp' = Torn
  /\ pc' = [pc EXCEPT ![c] = "write"]
  /\ UNCHANGED <<disk, job, copy, issued>>

\* Another request is writing the same file, or has written it.
Shared(c) == \E d \in Clients \ {c} : pc[d] \in {"write", "rename"}

\* fs::write writes it.  Over the bytes of another request, a shorter text
\* leaves a tail.
Write(c) ==
  /\ pc[c] = "write"
  /\ tmp' = Whole(copy[c]) \/ (Shared(c) /\ tmp' = Torn)
  /\ pc' = [pc EXCEPT ![c] = "rename"]
  /\ UNCHANGED <<disk, job, copy, issued>>

\* The file that is written is the store by now, or no file any more.
WriteThrough(c) ==
  /\ \/ pc[c] = "through" /\ disk' \in {Whole(copy[c]), Torn}
     \/ pc[c] = "unlinked" /\ UNCHANGED disk
  /\ pc' = [pc EXCEPT ![c] = "rename"]
  /\ UNCHANGED <<tmp, job, copy, issued>>

\* The file system refuses.
WriteFailed(c) ==
  /\ \/ pc[c] \in {"create", "rename"} /\ UNCHANGED tmp
     \/ pc[c] = "write" /\ tmp' = Torn
  /\ Fail(c)

\* The rename that ends a save, and the answer to the client.
Rename(c) ==
  /\ pc[c] = "rename"
  /\ tmp.state # "absent"
  /\ disk' = tmp
  /\ tmp' = NoFile
  /\ pc' = [d \in Clients |->
             IF d = c THEN "idle"
             ELSE IF pc[d] = "write" THEN "through"
             ELSE IF pc[d] = "through" THEN "unlinked"
             ELSE pc[d]]
  /\ Drop(c)
  /\ UNCHANGED issued

-----------------------------------------------------------------------------
(* The end of the daemon *)

\* The process ends: all requests are gone, the files stay.
Crash ==
  /\ pc' = [c \in Clients |-> "idle"]
  /\ job' = [c \in Clients |-> NoJob]
  /\ copy' = [c \in Clients |-> Empty]
  /\ UNCHANGED <<disk, tmp, issued>>

\* The recursion of cascade_remove goes round in a circle.
Overflow(c) ==
  /\ pc[c] = "revoking"
  /\ Cyclic(copy[c], job[c].id)
  /\ Crash

-----------------------------------------------------------------------------
Next ==
  \/ \E c \in Clients, i \in Ids :
       \/ \E p \in Ids \cup {NoId}, sc \in SUBSET Scopes : Register(c, i, p, sc)
       \/ Callback(c, i)
       \/ Exchange(c, i)
       \/ Refresh(c, i)
       \/ Authorize(c, i)
       \/ Revoke(c, i)
  \/ \E c \in Clients :
       \/ Answer(c) \/ Reload(c) \/ Refused(c) \/ Removed(c)
       \/ Create(c) \/ Write(c) \/ WriteThrough(c) \/ WriteFailed(c) \/ Rename(c)
       \/ Overflow(c)
  \/ Crash

Spec == Init /\ [][Next]_vars

-----------------------------------------------------------------------------
(* Properties *)

\* Every variable has its type.
TypeOK ==
  /\ disk \in File
  /\ tmp \in File
  /\ pc \in [Clients -> PC]
  /\ job \in [Clients -> Job]
  /\ copy \in [Clients -> OAuthStore]
  /\ issued \in 0..MaxTokens

\* However requests interleave and wherever the daemon ends, the store never
\* has a token without a registration: no path stores tokens for, or keeps
\* tokens of, a registration it has removed.
TokensBelong == \A i \in Ids : Stored.token[i] # 0 => i \in Stored.regs

\* "File-level atomicity is ensured by writing to a temp file then renaming":
\* the store can always be loaded.  It holds for one client, through crashes
\* and failed writes.
StoreReadable == Readable

\* With one client each request takes effect at once or not at all, even if
\* the daemon ends in the middle of it.
Registry == INSTANCE OAuthRegistry WITH registry <- Stored
ImplementsRegistry == Registry!Spec

-----------------------------------------------------------------------------
(* What the documentation says and the code does not do *)

\* "Cascade revocation (revoking parent's OAuth registration revokes all
\* children)": no request that stores tokens brings a registration back that
\* was removed while it waited for the provider.
RevokedStaysRevoked ==
  [][\A c \in Clients :
       job[c].op = "grant" /\ pc[c] = "rename" /\ Readable /\ disk' = Whole(copy[c])
         => Stored'.regs \subseteq Stored.regs]_vars

\* "Revoke OAuth tokens and remove registration": no revocation is about to
\* recurse until the stack is full.
RevocationEnds ==
  \A c \in Clients : pc[c] = "revoking" => ~Cyclic(copy[c], job[c].id)

\* "child agent's OAuth scopes/domains MUST be subset of parent's"
ChildrenAreNarrower ==
  \A i \in Stored.regs :
    Stored.parent[i] \in Stored.regs
      => Stored.scopes[i] \subseteq Stored.scopes[Stored.parent[i]]

=============================================================================
