------------------------------ MODULE DaemonConfig ------------------------------
(***************************************************************************)
(* The two pages that edit daemon.json: one DaemonConfigController for the *)
(* system's file and one for the user's, over one PrivilegedConfigClient   *)
(* whose finished() reaches both, and the helper behind it                 *)
(* (model/daemon_config_controller.cpp, backend/daemon_config.cpp,         *)
(* backend/privileged_config_client.cpp, kauth/kcm_docker_helper.cpp).     *)
(*                                                                         *)
(* A file is the value of a key the pages manage and of a key they do not. *)
(* Each file may be one that the user can write or one that needs the      *)
(* helper; what a page has found out about it is `protected'.              *)
(***************************************************************************)
EXTENDS Naturals, FiniteSets, Bags

CONSTANTS
    Values,     \* of the managed key
    Foreign,    \* of the other key
    NoKey, Missing, Broken, NoEdit, NoBackup,
    MaxJobs,    \* bound: helper jobs at a time
    MaxSaves,   \* bound: saves and restores asked for
    Shared,     \* bound: the scopes whose files other programs write
    Others,     \* bound: what they leave in a file
    MaxChanges  \* bound: how often they do, or change who may write one

Scopes == {"system", "user"}

Content == [own : Values \cup {NoKey}, foreign : Foreign \cup {NoKey}]
Files == Content \cup {Missing, Broken}
Edits == Values \cup {NoKey}

\* What waits for finished(): m_awaitingAuthorize, m_awaitingWrite, m_awaitingRestart and
\* m_serviceInFlight.
Operations == {"authorize", "write", "restart", "service"}

ASSUME DaemonAssumption ==
    /\ Missing \notin Content /\ Broken \notin Content /\ Missing # Broken
    /\ NoBackup \notin Files
    /\ NoEdit \notin Edits
    /\ Shared \subseteq Scopes /\ Others \subseteq Files
    /\ MaxJobs \in Nat \ {0} /\ {MaxSaves, MaxChanges} \subseteq Nat

VARIABLES
    disk,     \* the files
    latest,   \* the newest backup of each, or NoBackup
    doc,      \* m_document: the file as the page last read it
    change,   \* m_edits, or NoEdit; m_dirty
    protected,\* requiresPrivilege(): the file is not writable, as last detected
    unlocked, \* m_unlocked
    waiting,  \* the operations each controller waits for
    busy,     \* m_inFlight of the client
    jobs,     \* external: the bag of the helper's jobs
    saves,    \* saves and restores asked for (only to bound the model)
    changes   \* changes by other programs (only to bound the model)

pageVars == <<doc, change, protected, unlocked, waiting>>
clientVars == <<busy, jobs>>
fileVars == <<disk, latest>>
boundVars == <<saves, changes>>
vars == <<fileVars, pageVars, clientVars, boundVars>>

One(j) == SetToBag({j})

Job == [op : Operations, change : Edits \cup {NoEdit}, status : {"running", "done", "failed"}]

-----------------------------------------------------------------------------
\* DaemonConfigDocument and DaemonConfigWriter.

Valid(d) == d # Broken

\* merged(): unknown keys are kept; a file that does not exist is an empty one.
ForeignOf(d) == IF d = Missing THEN NoKey ELSE d.foreign
Merged(d, c) == [own |-> c, foreign |-> ForeignOf(d)]

\* Fault: the file is written although no backup could be made.
WrittenAnyway(f, content, ok) ==
    IF ok THEN disk' = [disk EXCEPT ![f] = content] /\ latest' \in {latest, [latest EXCEPT ![f] = disk[f]]}
          ELSE UNCHANGED <<disk, latest>>

\* writeAtomically(): the backup first, which may fail (its name ends in the second of the
\* day), then the new content or none of it.
Written(f, content, ok) ==
    /\ disk' = IF ok THEN [disk EXCEPT ![f] = content] ELSE disk
    /\ IF disk[f] = Missing
       THEN UNCHANGED latest
       ELSE LET backed == [latest EXCEPT ![f] = disk[f]]
            IN  IF ok THEN latest' = backed ELSE latest' \in {latest, backed}

\* refreshFromDisk(): what the page has not saved is dropped.
ReadAgain(pages) ==
    /\ doc' = [s \in Scopes |-> IF s \in pages THEN disk'[s] ELSE doc[s]]
    /\ change' = [s \in Scopes |-> IF s \in pages THEN NoEdit ELSE change[s]]

-----------------------------------------------------------------------------
\* PrivilegedConfigClient, and the slot of finished() in both controllers.

Awaiting(op) == {s \in Scopes : op \in waiting[s]}
Cleared(op) == [s \in Scopes |-> waiting[s] \ {op}]

\* Fault: helperBusy and helperUnavailable are reported to nobody.
RefusedSilently(s, op) ==
    /\ waiting' = [waiting EXCEPT ![s] = @ \cup {op}]
    /\ UNCHANGED clientVars

\* finished(operation, false, helperBusy or helperUnavailable), before the call returns: the
\* caller and whoever else waits for such an operation stop waiting.
Refused(s, op) ==
    /\ waiting' = Cleared(op)
    /\ UNCHANGED clientVars

\* requestAuthorization(), writeConfig(), restartDocker() and controlService(), which does not
\* ask whether another job is in flight; runHelperAction().
Send(s, op, c) ==
    \/ Refused(s, op)
    \/ /\ ~busy \/ op = "service"
       /\ BagCardinality(jobs) < MaxJobs
       /\ waiting' = [waiting EXCEPT ![s] = @ \cup {op}]
       /\ busy' = TRUE
       /\ jobs' = jobs (+) One([op |-> op, change |-> c, status |-> "running"])

\* daemon_restart() and runServiceAction() touch no file: systemd does what is asked, refuses
\* it or cannot be reached, so only a write has a result that says what was done.
MayReport(j, ok) == j.op \in {"authorize", "restart", "service"} \/ j.status = IF ok THEN "done" ELSE "failed"

\* The result of a job: m_inFlight is cleared whatever else runs, and both controllers get
\* finished().  What daemon_save() does as a dry run shows in its result only.
JobFinished(j, ok) ==
    /\ MayReport(j, ok)
    /\ jobs' = jobs (-) One(j)
    /\ busy' = FALSE
    /\ waiting' = Cleared(j.op)
    /\ unlocked' = [s \in Scopes |-> unlocked[s] \/ (j.op = "authorize" /\ ok /\ s \in Awaiting(j.op))]
    /\ UNCHANGED <<fileVars, protected>>
    /\ ReadAgain(IF j.op = "write" /\ ok THEN Awaiting(j.op) ELSE {})
    /\ UNCHANGED boundVars

-----------------------------------------------------------------------------
\* The helper, which knows the system's file only.

\* The change of a write that has ended is not kept: nobody reads it again.
Ended(j, ok) ==
    jobs' = (jobs (-) One(j))
              (+) One([j EXCEPT !.status = IF ok THEN "done" ELSE "failed", !.change = NoEdit])

\* Fault: the page sends what it has merged, and the helper writes it.
HelperWritesPage(j, ok) ==
    /\ j.op = "write" /\ j.status = "running"
    /\ ok => Valid(doc["system"])
    /\ Written("system", Merged(doc["system"], j.change), ok)
    /\ Ended(j, ok)
    /\ UNCHANGED <<pageVars, busy, boundVars>>

\* daemon_save() with a change: the file is read again and merged with the change only.  It
\* fails when the user declines, when the file does not parse, or in the write.
HelperWrites(j, ok) ==
    /\ j.op = "write" /\ j.status = "running"
    /\ ok => Valid(disk["system"])
    /\ IF Valid(disk["system"])
       THEN Written("system", Merged(disk["system"], j.change), ok)
       ELSE UNCHANGED fileVars
    /\ Ended(j, ok)
    /\ UNCHANGED <<pageVars, busy, boundVars>>

-----------------------------------------------------------------------------
\* The pages.

Editable(s) == ~protected[s] \/ unlocked[s]

\* requestUnlock()
RequestUnlock(s) ==
    /\ protected[s] /\ ~unlocked[s]
    /\ Send(s, "authorize", NoEdit)
    /\ UNCHANGED <<fileVars, doc, change, protected, unlocked, boundVars>>

\* lock(), by its button or by the timer of the grant.
Lock(s) ==
    /\ unlocked[s]
    /\ unlocked' = [unlocked EXCEPT ![s] = FALSE]
    /\ waiting' = [waiting EXCEPT ![s] = @ \ {"authorize"}]
    /\ UNCHANGED <<fileVars, doc, change, protected, clientVars, boundVars>>

\* setRegistryMirrors(), setMaxConcurrentDownloads(), setLogDriver(): set or remove the key.
Edit(s, c) ==
    /\ Editable(s)
    /\ change' = [change EXCEPT ![s] = c]
    /\ UNCHANGED <<fileVars, doc, protected, unlocked, waiting, clientVars, boundVars>>

\* reload(): page entry and its button.
Reload(s) ==
    /\ UNCHANGED fileVars
    /\ ReadAgain({s})
    /\ UNCHANGED <<protected, unlocked, waiting, clientVars, boundVars>>

\* refreshDeployment() finds that the owner of a file has changed.  setEngineInfo() calls it
\* without reading the file; refreshFromDisk() calls it first, after this step.
DeploymentChanges(s) ==
    /\ changes < MaxChanges
    /\ changes' = changes + 1
    /\ protected' = [protected EXCEPT ![s] = ~@]
    /\ UNCHANGED <<fileVars, doc, change, unlocked, waiting, clientVars, saves>>

\* save(): its button stays enabled while a write is in flight.
MaySave(s) == Editable(s) /\ change[s] # NoEdit /\ Valid(doc[s])

SaveAsked == saves < MaxSaves /\ saves' = saves + 1

\* The request names no file: the change of either page goes to the helper's.
SavePrivileged(s) ==
    /\ protected[s] /\ MaySave(s)
    /\ Send(s, "write", change[s])
    /\ SaveAsked
    /\ UNCHANGED <<fileVars, doc, change, protected, unlocked, changes>>

\* What is written is merged with the file as the page last read it.
SaveDirectly(s, ok) ==
    /\ ~protected[s] /\ MaySave(s)
    /\ Written(s, Merged(doc[s], change[s]), ok)
    /\ ReadAgain(IF ok THEN {s} ELSE {})
    /\ SaveAsked
    /\ UNCHANGED <<protected, unlocked, waiting, clientVars, changes>>

\* restoreBackup() of the newest one; a protected file is never restored.
RestoreBackup(s, ok) ==
    /\ ~protected[s]
    /\ latest[s] \in Content
    /\ Written(s, latest[s], ok)
    /\ ReadAgain(IF ok THEN {s} ELSE {})
    /\ SaveAsked
    /\ UNCHANGED <<protected, unlocked, waiting, clientVars, changes>>

\* restartViaSessionSystemd(): finished() comes before the call returns, and m_inFlight is
\* cleared although a job may be running.
RestartViaSession ==
    /\ waiting' = Cleared("restart")
    /\ busy' = FALSE
    /\ UNCHANGED jobs

\* restartDocker(): the form of the daemon, rootless or not, is what the last engine info said.
RestartDocker(s) ==
    /\ Editable(s)
    /\ RestartViaSession \/ Send(s, "restart", NoEdit)
    /\ UNCHANGED <<fileVars, doc, change, protected, unlocked, boundVars>>

\* controlService() of the card on the system's page.
ControlService ==
    /\ "service" \notin waiting["system"]
    /\ Send("system", "service", NoEdit)
    /\ UNCHANGED <<fileVars, doc, change, protected, unlocked, boundVars>>

\* Another program writes a file.
FileChanges(f) ==
    /\ f \in Shared /\ changes < MaxChanges
    /\ changes' = changes + 1
    /\ \E c \in Others : disk' = [disk EXCEPT ![f] = c]
    /\ UNCHANGED <<latest, pageVars, clientVars, saves>>

-----------------------------------------------------------------------------

Init ==
    /\ disk = [s \in Scopes |-> Missing]
    /\ latest = [s \in Scopes |-> NoBackup]
    /\ doc = disk
    /\ change = [s \in Scopes |-> NoEdit]
    /\ protected \in [Scopes -> BOOLEAN]
    /\ unlocked = [s \in Scopes |-> FALSE]
    /\ waiting = [s \in Scopes |-> {}]
    /\ busy = FALSE
    /\ jobs = EmptyBag
    /\ saves = 0
    /\ changes = 0

Next ==
    \/ \E j \in BagToSet(jobs), ok \in BOOLEAN : HelperWrites(j, ok) \/ JobFinished(j, ok)
    \/ \E s \in Scopes :
          \/ RequestUnlock(s) \/ Lock(s) \/ Reload(s)
          \/ \E c \in Edits : Edit(s, c)
          \/ SavePrivileged(s)
          \/ \E ok \in BOOLEAN : SaveDirectly(s, ok) \/ RestoreBackup(s, ok)
          \/ RestartDocker(s)
          \/ FileChanges(s) \/ DeploymentChanges(s)
    \/ ControlService

Spec == Init /\ [][Next]_vars

-----------------------------------------------------------------------------

\* The types of the variables.
DaemonTypeOK ==
    /\ disk \in [Scopes -> Files]
    /\ latest \in [Scopes -> Files \cup {NoBackup}]
    /\ doc \in [Scopes -> Files]
    /\ change \in [Scopes -> Edits \cup {NoEdit}]
    /\ protected \in [Scopes -> BOOLEAN]
    /\ unlocked \in [Scopes -> BOOLEAN]
    /\ waiting \in [Scopes -> SUBSET Operations]
    /\ busy \in BOOLEAN
    /\ IsABag(jobs) /\ BagToSet(jobs) \subseteq Job

\* A page that waits for an operation waits for a job that is still to end: both pages may
\* wait for an authorization or a write at a time, a refusal or an answer meant for one of them
\* settles both, and restartViaSessionSystemd() resets m_inFlight under a running job, but no
\* page waits for ever (the broadcast slot of DaemonConfigController and the synchronous
\* failures of PrivilegedConfigClient).
WaitingHasJob ==
    \A s \in Scopes : \A op \in waiting[s] : \E j \in BagToSet(jobs) : j.op = op

\* Whatever was written since by other programs, other pages and the helper, a write leaves the
\* key that the pages do not manage as it is in the file at that moment (the helper), as the
\* page last read it (save() of a writable file), or as a restored backup has it.
ForeignKeysKept ==
    [][\A f \in Scopes : changes' = changes /\ disk[f] \in Content /\ disk'[f] # disk[f]
       => /\ disk'[f] \in Content
          /\ \/ disk'[f].foreign = disk[f].foreign
             \/ SaveDirectly(f, TRUE) /\ disk'[f].foreign = ForeignOf(doc[f])
             \/ RestoreBackup(f, TRUE)]_vars

\* The page says of the other keys of a file that they are "kept as they are"
\* (DaemonConfigPage.qml): a save never changes them.
\* It does not hold: save() of a writable file writes what it merged with the file as the page
\* read it, and drops a key that another program has added since.
SavesKeepForeignKeys ==
    [][\A f \in Scopes : \A ok \in BOOLEAN : SaveDirectly(f, ok) /\ disk[f] \in Content
       => disk'[f] \in Content /\ disk'[f].foreign = disk[f].foreign]_vars

\* "Every save must leave a revertible previous version" (daemon_config.cpp): what a save or a
\* restore overwrites is the newest backup, through every failure of its steps.
Revertible ==
    [][changes' = changes
       => \A f \in Scopes : disk'[f] # disk[f] /\ disk[f] # Missing => latest'[f] = disk[f]]_vars

\* The page's reload button is said to be the only entry point that drops edits; a save drops
\* those it has written, and a restore means to.
\* It does not hold: a save drops what was edited while it was under way.
EditsAreKept ==
    [][\A s \in Scopes :
          change[s] # NoEdit /\ change'[s] = NoEdit
          => \/ Reload(s)
             \/ \E ok \in BOOLEAN : RestoreBackup(s, ok)
             \/ disk'[s] \in Content /\ disk'[s].own = change[s]]_vars

\* "Authorization from another page: not mine" (daemon_config_controller.cpp): a page stops
\* waiting when it locks itself or when a job of the operation ends.
\* It does not hold: a request of the other page that is refused because the helper is busy is
\* reported to both, so the grant or the result of the running job finds nobody waiting.
RefusalIsPrivate ==
    [][\A s \in Scopes : \A op \in {"authorize", "write"} :
          op \in waiting[s] /\ op \notin waiting'[s]
          => Lock(s) \/ \E j \in BagToSet(jobs), ok \in BOOLEAN : j.op = op /\ JobFinished(j, ok)]_vars

\* The user's page needs "no privilege" (DaemonConfigPage.qml), and a page edits the file of its
\* scope.
\* It does not hold: if the user's file is not writable, its page is unlocked and saves through
\* the helper, which writes the system's file.
HelperServesSystemPage ==
    [][\A s \in Scopes : SavePrivileged(s) /\ jobs' # jobs => s = "system"]_vars
=============================================================================
