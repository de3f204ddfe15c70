------------------------------ MODULE Updates -------------------------------
(***************************************************************************)
(* The template registry (templates.rs) and the update checker             *)
(* (updates.rs), for one template: the requests templates.install,         *)
(* templates.create, update.check and update.apply, and the daemon's loop  *)
(* that checks from time to time and may apply what it found.              *)
(*                                                                         *)
(* A template is a directory with a manifest and other files, which tar    *)
(* unpacks one after the other.  The list of updates is behind a lock that *)
(* apply_template_updates holds for reading over all its downloads.        *)
(* Versions are numbers such as 11 for "1.1"; the registry may go back to  *)
(* a lower one.  Some versions do not begin with a number ("v2.0").        *)
(***************************************************************************)
EXTENDS Tasks

CONSTANTS
  Versions,       \* versions the registry may publish
  Unnumbered,     \* those that do not begin with a number
  Chosen,         \* those that are asked for in templates.install
  First,          \* the version installed and published at the beginning
  AutoUpdate      \* updates.auto_update_templates

ASSUME UpdatesAssumption ==
  /\ Unnumbered \subseteq Versions /\ Chosen \subseteq Versions
  /\ Versions \subseteq Nat \ (0..1)
  /\ First \in Versions
  /\ AutoUpdate \in BOOLEAN

VARIABLES
  template,   \* the template's directory: the version of each of its parts
  archive,    \* the version archive.tar.gz in it holds, 0 when there is none
  latest,     \* the latest version in the registry
  available,  \* UpdateState.available_updates
  listLock,   \* its lock
  byHand,     \* history: somebody installed or created the template by hand
  failed      \* history: an extraction ended before its last file

registryVars == <<template, archive, latest, available, listLock, byHand, failed>>
updatesVars == <<registryVars, task>>

Parts == {"manifest", "files"}
NoVersion == 0
NoTemplate == [part \in Parts |-> NoVersion]
Local == 1
Installed(v) == [part \in Parts |-> v]

UpdatesInit ==
  /\ task = [p \in Tasks |-> Idle]
  /\ template = Installed(First)
  /\ archive = NoVersion
  /\ latest = First
  /\ available = {}
  /\ listLock = Free
  /\ byHand = FALSE
  /\ failed = FALSE

\* The registry names another version as its latest, a lower one if it withdraws one.
Publish(v) ==
  /\ v # latest
  /\ latest' = v
  /\ UNCHANGED <<template, archive, available, listLock, byHand, failed, task>>

-----------------------------------------------------------------------------
(* UpdateChecker::check *)

Major(v) == v \div 10

\* is_major_update: a version that does not begin with a number is never major.
MutantIsMajor(current, new) ==
  {current, new} \cap Unnumbered = {} /\ Major(current) > Major(new)
IsMajor(current, new) ==
  {current, new} \cap Unnumbered = {} /\ Major(new) > Major(current)

\* An UpdateInfo of the template.  What it says of the daemon itself only counts.
Update(current, new) == [new |-> new, major |-> IsMajor(current, new)]

\* check_template_updates lists the local templates, and remembers the version in
\* the manifest; without a manifest there is none to compare.
Check(p) ==
  /\ task[p] = Idle
  /\ task' = [task EXCEPT ![p] =
       [Idle EXCEPT !.cmd = "check", !.at = "latest", !.version = template["manifest"]]]
  /\ UNCHANGED registryVars

\* The registry is asked, which may fail; the result waits for the lock.
CheckLatest(p, answers) ==
  /\ Doing(p, "check") /\ At(p, "latest")
  /\ LET current == task[p].version
         found == IF answers /\ current \notin {NoVersion, latest}
                    THEN {Update(current, latest)} ELSE {}
     IN task' = [task EXCEPT ![p].at = "list", ![p].found = found, ![p].version = 0]
  /\ listLock' = Ask(listLock, p, "write")
  /\ UNCHANGED <<template, archive, latest, available, byHand, failed>>

\* The state is replaced.  The loop goes on to apply the updates, if it is so
\* configured and there are any, of the template or of the daemon.
CheckStore(p, daemonUpdate) ==
  /\ Doing(p, "check") /\ At(p, "list")
  /\ Granted(listLock, p, "write")
  /\ available' = task[p].found
  /\ IF p = Daemon /\ AutoUpdate /\ (daemonUpdate \/ task[p].found # {})
       THEN /\ task' = [task EXCEPT ![p] = [Idle EXCEPT !.cmd = "apply", !.at = "list"]]
            /\ listLock' = Ask(Pass(listLock), p, "read")
       ELSE End(p) /\ listLock' = Pass(listLock)
  /\ UNCHANGED <<template, archive, latest, byHand, failed>>

-----------------------------------------------------------------------------
(* UpdateChecker::apply_template_updates *)

Apply(p) ==
  /\ task[p] = Idle
  /\ task' = [task EXCEPT ![p] = [Idle EXCEPT !.cmd = "apply", !.at = "list"]]
  /\ listLock' = Ask(listLock, p, "read")
  /\ UNCHANGED <<template, archive, latest, available, byHand, failed>>

Minor == {u \in available : ~u.major}

MutantApplyRead(p) ==
  /\ Doing(p, "apply") /\ At(p, "list")
  /\ Granted(listLock, p, "read")
  /\ listLock' = Pass(listLock)
  /\ IF Minor = {}
       THEN End(p)
       ELSE \E u \in Minor :
              task' = [task EXCEPT ![p].at = "download", ![p].version = u.new]
  /\ UNCHANGED <<template, archive, latest, available, byHand, failed>>
\* The lock is kept for as long as there is anything to install.
ApplyRead(p) ==
  /\ Doing(p, "apply") /\ At(p, "list")
  /\ Granted(listLock, p, "read")
  /\ IF Minor = {}
       THEN listLock' = Pass(listLock) /\ End(p)
       ELSE /\ listLock' = Take(listLock, p, "read")
            /\ \E u \in Minor :
                 task' = [task EXCEPT ![p].at = "download", ![p].version = u.new]
  /\ UNCHANGED <<template, archive, latest, available, byHand, failed>>

-----------------------------------------------------------------------------
(* TemplateRegistry *)

\* templates.install: the version that was asked for, which the registry may have
\* whatever it names as its latest.
Install(p, v) ==
  /\ task[p] = Idle
  /\ task' = [task EXCEPT ![p] =
       [Idle EXCEPT !.cmd = "install", !.at = "download", !.version = v]]
  /\ byHand' = TRUE
  /\ UNCHANGED <<template, archive, latest, available, listLock, failed>>

\* The download fails, or is refused, or takes longer than two minutes.
DownloadFails(p) ==
  /\ At(p, "download")
  /\ listLock' = Release(listLock, p)
  /\ End(p)
  /\ UNCHANGED <<template, archive, latest, available, byHand, failed>>

\* The archive is written into the template's directory, under one name for all.
WriteArchive(p) ==
  /\ At(p, "download")
  /\ archive' = task[p].version
  /\ Go(p, "open")
  /\ UNCHANGED <<template, latest, available, listLock, byHand, failed>>

Extracting(p) == At(p, "extract")

\* tar opens what is there now, which another installation may have replaced.
OpenArchive(p) ==
  /\ At(p, "open")
  /\ archive # NoVersion
  /\ task' = [task EXCEPT ![p].at = "extract", ![p].version = archive, ![p].found = Parts]
  /\ UNCHANGED registryVars

Extract(p, part) ==
  /\ At(p, "extract")
  /\ part \in task[p].found
  /\ template' = [template EXCEPT ![part] = task[p].version]
  /\ task' = [task EXCEPT ![p].found = @ \ {part}]
  /\ UNCHANGED <<archive, latest, available, listLock, byHand, failed>>

\* tar fails: its archive is gone or was truncated, or a file cannot be written.
ExtractFails(p) ==
  /\ At(p, "open") \/ (At(p, "extract") /\ task[p].found # {})
  /\ failed' = TRUE
  /\ listLock' = Release(listLock, p)
  /\ End(p)
  /\ UNCHANGED <<template, archive, latest, available, byHand>>

MutantExtracted(p) ==
  /\ At(p, "extract") /\ task[p].found = {}
  /\ archive' = IF Doing(p, "create") THEN archive ELSE NoVersion
  /\ End(p)
  /\ UNCHANGED <<template, latest, available, listLock, byHand, failed>>
Extracted(p) ==
  /\ At(p, "extract") /\ task[p].found = {}
  /\ archive' = IF Doing(p, "create") THEN archive ELSE NoVersion
  /\ listLock' = Release(listLock, p)
  /\ End(p)
  /\ UNCHANGED <<template, latest, available, byHand, failed>>

\* Somebody removes the template's directory to create it anew.
Remove ==
  /\ template # NoTemplate
  /\ template' = NoTemplate
  /\ archive' = NoVersion
  /\ byHand' = TRUE
  /\ UNCHANGED <<latest, available, listLock, failed, task>>

\* create_from_local refuses a directory that exists, then copies another one,
\* file by file; if that has no manifest it adds one of version 0.1.0.
CreateFromLocal(p) ==
  /\ task[p] = Idle
  /\ template = NoTemplate /\ archive = NoVersion
  /\ task' = [task EXCEPT ![p] =
       [Idle EXCEPT !.cmd = "create", !.at = "extract", !.version = Local, !.found = Parts]]
  /\ byHand' = TRUE
  /\ UNCHANGED <<template, archive, latest, available, listLock, failed>>

-----------------------------------------------------------------------------
(* The daemon *)

\* The process ends and is started again: tasks and list are gone; a tar that is
\* at work may still unpack what is left.
UpdatesDaemonEnds ==
  LET cut == {p \in Tasks : Extracting(p) /\ task[p].found # {}}
  IN /\ task' = [p \in Tasks |-> Idle]
     /\ available' = {} /\ listLock' = Free
     /\ failed' = (failed \/ cut # {})
     /\ \/ UNCHANGED template
        \/ \E p \in cut : template' = [part \in Parts |->
             IF part \in task[p].found THEN task[p].version ELSE template[part]]
     /\ UNCHANGED <<archive, latest, byHand>>

UpdateRequest(p) ==
  \/ Check(p) \/ Apply(p) \/ CreateFromLocal(p)
  \/ \E v \in Chosen : Install(p, v)

UpdateStep(p) ==
  \/ \E answers \in BOOLEAN : CheckLatest(p, answers)
  \/ \E daemonUpdate \in BOOLEAN : CheckStore(p, daemonUpdate)
  \/ ApplyRead(p)
  \/ DownloadFails(p) \/ WriteArchive(p) \/ OpenArchive(p)
  \/ \E part \in Parts : Extract(p, part)
  \/ ExtractFails(p) \/ Extracted(p)

\* The interval of run_loop is over.
Wake == Check(Daemon)

UpdatesNext ==
  \/ Wake \/ UpdatesDaemonEnds \/ Remove
  \/ \E v \in Versions : Publish(v)
  \/ \E p \in Requests : UpdateRequest(p)
  \/ \E p \in Tasks : UpdateStep(p)

\* Tasks go on: the registry answers or a timeout passes, tar ends, and the lock of
\* the list serves its line in order.  Nobody has to send requests.
UpdatesFairness == \A p \in Tasks : WF_updatesVars(UpdateStep(p))

UpdatesSpec == UpdatesInit /\ [][UpdatesNext]_updatesVars
UpdatesFairSpec == UpdatesSpec /\ UpdatesFairness

-----------------------------------------------------------------------------
(* Properties *)

\* Updates do not tear a template apart: as long as nobody installs by hand and
\* no extraction fails, the manifest and the other files are of one version
\* whenever nothing is being unpacked, although a request and the loop may apply
\* updates at the same time through one archive file (updates.rs holds the list's
\* lock over the downloads, so both install the same version).
TemplateNotMixed ==
  ~byHand /\ ~failed /\ (\A p \in Tasks : ~Extracting(p))
    => template["manifest"] = template["files"]

\* No update is a major one, seen from the first installation: whatever the
\* registry publishes or withdraws meanwhile, and however old the list is that an
\* update is taken from, updates alone never lead above the major version that was
\* installed, as long as versions begin with a number (updates.rs,
\* is_major_update and apply_template_updates).
AutoNotAboveMajor ==
  ~byHand /\ Unnumbered = {} => \A part \in Parts : Major(template[part]) <= Major(First)

\* Every request, and every round of the loop, ends: the list's lock is always
\* given back, though it is held over downloads and check waits to write the list
\* meanwhile (updates.rs, check and apply_template_updates).
UpdatesTasksEnd == \A p \in Tasks : task[p] # Idle ~> task[p] = Idle

-----------------------------------------------------------------------------
(* What the sources say and the code does not do *)

\* "minor/patch only": updates alone never lead to another major version.  An
\* older version is another one as well, and not called major.
AutoStaysInMajor ==
  ~byHand => \A part \in Parts : Major(template[part]) = Major(First)
=============================================================================
