------------------------------ MODULE FileProofs ------------------------------
(***************************************************************************)
(* Proofs about the files that the module shares with others: daemon.json  *)
(* and its backups (DaemonConfig), for any values of the keys, any number  *)
(* of jobs of the helper at a time and any number of changes by others,    *)
(* the stores of mount presets and commands (MountPresets), for any number *)
(* of windows, mounts and edits and any limits, and the configuration file *)
(* of the docker command line beside the wallet (RegistryLogin), for any   *)
(* registries and secrets, any number of changes of that file and of       *)
(* firings of the watchdog.                                                *)
(***************************************************************************)
EXTENDS DaemonConfig, MountPresets, RegistryLogin, SequencePartsProofs

-----------------------------------------------------------------------------
\* DaemonConfig: the bag of jobs.

LEMMA BagGains ==
    ASSUME NEW B, IsABag(B), NEW j
    PROVE  /\ IsABag(B (+) One(j))
           /\ BagToSet(B (+) One(j)) = BagToSet(B) \cup {j}
<1> DEFINE C == B (+) One(j)
<1>1. DOMAIN One(j) = {j} /\ One(j)[j] = 1
  BY DEF One, SetToBag
<1>2. C = [e \in DOMAIN B \cup {j} |-> (IF e \in DOMAIN B THEN B[e] ELSE 0)
                                       + (IF e \in {j} THEN One(j)[e] ELSE 0)]
  BY <1>1 DEF (+)
<1>3. DOMAIN C = DOMAIN B \cup {j}
  BY <1>2
<1>4. ASSUME NEW e \in DOMAIN C PROVE C[e] \in Nat /\ C[e] > 0
  <2>1. e \in DOMAIN B => B[e] \in Nat /\ B[e] > 0
    BY DEF IsABag
  <2> QED
    BY <1>1, <1>2, <1>3, <2>1
<1> QED
  BY <1>2, <1>3, <1>4 DEF IsABag, BagToSet

LEMMA BagLoses ==
    ASSUME NEW B, IsABag(B), NEW j
    PROVE  /\ IsABag(B (-) One(j))
           /\ BagToSet(B (-) One(j)) \subseteq BagToSet(B)
           /\ \A i \in BagToSet(B) : i # j => i \in BagToSet(B (-) One(j))
<1> DEFINE D == [e \in DOMAIN B |-> IF e \in {j} THEN B[e] - 1 ELSE B[e]]
           C == B (-) One(j)
<1>1. DOMAIN One(j) = {j} /\ One(j)[j] = 1
  BY DEF One, SetToBag
<1>2. D = [e \in DOMAIN B |-> IF e \in DOMAIN One(j) THEN B[e] - One(j)[e] ELSE B[e]]
  BY <1>1
<1>3. C = [e \in {d \in DOMAIN D : D[d] > 0} |-> D[e]]
  BY <1>2 DEF (-)
<1>4. \A e \in DOMAIN B : B[e] \in Nat /\ B[e] > 0
  BY DEF IsABag
<1>5. \A e \in DOMAIN B : D[e] \in Int /\ (e # j => D[e] = B[e])
  BY <1>4
<1>6. DOMAIN C = {d \in DOMAIN B : D[d] > 0}
  BY <1>3
<1>7. \A e \in DOMAIN C : C[e] \in Nat /\ C[e] > 0
  BY <1>3, <1>5, <1>6
<1>8. IsABag(C)
  BY <1>3, <1>7 DEF IsABag
<1> QED
  BY <1>4, <1>5, <1>6, <1>8 DEF BagToSet

-----------------------------------------------------------------------------
\* The inductive invariant: the types, and that a job which is to write has something to write.

WritersHaveChange ==
    \A j \in BagToSet(jobs) : j.op = "write" /\ j.status = "running" => j.change \in Edits

\* Its part about the files and the fields of the pages, ...
FilesInv ==
    /\ disk \in [Scopes -> Files]
    /\ latest \in [Scopes -> Files \cup {NoBackup}]
    /\ doc \in [Scopes -> Files]
    /\ change \in [Scopes -> Edits \cup {NoEdit}]
    /\ protected \in [Scopes -> BOOLEAN]
    /\ unlocked \in [Scopes -> BOOLEAN]
    /\ changes \in Nat

\* ... and that about what a page waits for and what is under way for it.
ClientInv ==
    /\ waiting \in [Scopes -> SUBSET Operations]
    /\ busy \in BOOLEAN
    /\ IsABag(jobs) /\ BagToSet(jobs) \subseteq Job
    /\ WritersHaveChange /\ WaitingHasJob

\* The files as the pages and the helper leave them.
LEMMA ContentIsFile == Content \subseteq Files /\ Missing \in Files /\ Broken \in Files
  BY DEF Files

LEMMA MergedIsContent ==
    ASSUME NEW d \in Files, NEW c \in Edits, Valid(d)
    PROVE  /\ Merged(d, c) \in Content
           /\ Merged(d, c).foreign = ForeignOf(d)
           /\ d \in Content => ForeignOf(d) = d.foreign
<1>1. CASE d = Missing
  BY <1>1, DaemonAssumption DEF Merged, ForeignOf, Content, Edits
<1>2. CASE d \in Content
  BY <1>2, DaemonAssumption DEF Merged, ForeignOf, Content, Edits
<1> QED
  BY <1>1, <1>2 DEF Files, Valid

\* What a write leaves: the file and its backup stay well formed, a file that changed is the
\* content written with its predecessor as the newest backup, and no other file changes.
LEMMA WrittenKeepsFiles ==
    ASSUME NEW f \in Scopes, NEW content \in Files, NEW ok \in BOOLEAN,
           disk \in [Scopes -> Files], latest \in [Scopes -> Files \cup {NoBackup}],
           Written(f, content, ok)
    PROVE  /\ disk' \in [Scopes -> Files] /\ latest' \in [Scopes -> Files \cup {NoBackup}]
           /\ disk'[f] = IF ok THEN content ELSE disk[f]
           /\ \A s \in Scopes : s # f => disk'[s] = disk[s]
           /\ disk'[f] # disk[f] /\ disk[f] # Missing => latest'[f] = disk[f]
<1>1. /\ disk' \in [Scopes -> Files]
      /\ disk'[f] = IF ok THEN content ELSE disk[f]
      /\ \A s \in Scopes : s # f => disk'[s] = disk[s]
  BY DEF Written
<1>2. /\ latest' \in {latest, [latest EXCEPT ![f] = disk[f]]}
      /\ ok /\ disk[f] # Missing => latest' = [latest EXCEPT ![f] = disk[f]]
      /\ ~ok => disk' = disk
  BY DEF Written
<1>3. latest' \in [Scopes -> Files \cup {NoBackup}]
  BY <1>2
<1>4. disk'[f] # disk[f] /\ disk[f] # Missing => latest'[f] = disk[f]
  BY <1>2
<1> QED
  BY <1>1, <1>3, <1>4

LEMMA ReadAgainKeepsTypes ==
    ASSUME FilesInv, NEW pages, disk' \in [Scopes -> Files], ReadAgain(pages)
    PROVE  doc' \in [Scopes -> Files] /\ change' \in [Scopes -> Edits \cup {NoEdit}]
  BY DEF FilesInv, ReadAgain

-----------------------------------------------------------------------------
\* The client.

\* Waiting for less, with the same jobs, keeps it.
LEMMA LessWaiting ==
    ASSUME ClientInv, waiting' \in [Scopes -> SUBSET Operations],
           \A s \in Scopes : waiting'[s] \subseteq waiting[s],
           busy' \in BOOLEAN, jobs' = jobs
    PROVE  ClientInv'
  BY DEF ClientInv, WritersHaveChange, WaitingHasJob

LEMMA SendKeepsClient ==
    ASSUME ClientInv, NEW s \in Scopes, NEW op \in Operations, NEW c \in Edits \cup {NoEdit},
           op = "write" => c \in Edits,
           Send(s, op, c)
    PROVE  ClientInv'
<1>1. CASE Refused(s, op)
  BY <1>1, LessWaiting DEF Refused, Cleared, clientVars, ClientInv
<1>2. CASE /\ waiting' = [waiting EXCEPT ![s] = @ \cup {op}]
           /\ busy' = TRUE
           /\ jobs' = jobs (+) One([op |-> op, change |-> c, status |-> "running"])
  <2> DEFINE j == [op |-> op, change |-> c, status |-> "running"]
  <2>1. IsABag(jobs') /\ BagToSet(jobs') = BagToSet(jobs) \cup {j}
    BY <1>2, BagGains DEF ClientInv
  <2>2. j \in Job
    BY DEF Job
  <2>3. waiting' \in [Scopes -> SUBSET Operations]
    BY <1>2 DEF ClientInv
  <2>4. WaitingHasJob'
    <3> SUFFICES ASSUME NEW t \in Scopes, NEW o \in waiting'[t]
                 PROVE  \E i \in BagToSet(jobs') : i.op = o
      BY DEF WaitingHasJob
    <3>1. CASE o \in waiting[t]
      BY <2>1, <3>1 DEF ClientInv, WaitingHasJob
    <3>2. CASE o \notin waiting[t]
      BY <1>2, <2>1, <3>2 DEF ClientInv
    <3> QED
      BY <3>1, <3>2
  <2>5. WritersHaveChange'
    BY <2>1 DEF ClientInv, WritersHaveChange
  <2> QED
    BY <1>2, <2>1, <2>2, <2>3, <2>4, <2>5 DEF ClientInv
<1> QED
  BY <1>1, <1>2 DEF Send

\* The answer to a job takes it away and clears every wait for its operation.
LEMMA FinishedKeepsClient ==
    ASSUME ClientInv, NEW j \in BagToSet(jobs),
           jobs' = jobs (-) One(j), busy' = FALSE, waiting' = Cleared(j.op)
    PROVE  ClientInv'
<1>1. /\ IsABag(jobs') /\ BagToSet(jobs') \subseteq BagToSet(jobs)
      /\ \A i \in BagToSet(jobs) : i # j => i \in BagToSet(jobs')
  BY BagLoses DEF ClientInv
<1>2. waiting' \in [Scopes -> SUBSET Operations]
  BY DEF ClientInv, Cleared
<1>3. WaitingHasJob'
  <2> SUFFICES ASSUME NEW t \in Scopes, NEW o \in waiting'[t]
               PROVE  \E i \in BagToSet(jobs') : i.op = o
    BY DEF WaitingHasJob
  <2>1. o \in waiting[t] /\ o # j.op
    BY DEF ClientInv, Cleared
  <2>2. PICK i \in BagToSet(jobs) : i.op = o
    BY <2>1 DEF ClientInv, WaitingHasJob
  <2> QED
    BY <1>1, <2>1, <2>2
<1>4. WritersHaveChange'
  BY <1>1 DEF ClientInv, WritersHaveChange
<1> QED
  BY <1>1, <1>2, <1>3, <1>4 DEF ClientInv

\* The helper's end of a job replaces it by one of the same operation.
LEMMA EndedKeepsClient ==
    ASSUME ClientInv, NEW j \in BagToSet(jobs), NEW ok \in BOOLEAN,
           Ended(j, ok), UNCHANGED <<waiting, busy>>
    PROVE  ClientInv'
<1> DEFINE k == [j EXCEPT !.status = IF ok THEN "done" ELSE "failed", !.change = NoEdit]
<1>1. /\ IsABag(jobs (-) One(j)) /\ BagToSet(jobs (-) One(j)) \subseteq BagToSet(jobs)
      /\ \A i \in BagToSet(jobs) : i # j => i \in BagToSet(jobs (-) One(j))
  BY BagLoses DEF ClientInv
<1>2. IsABag(jobs') /\ BagToSet(jobs') = BagToSet(jobs (-) One(j)) \cup {k}
  BY <1>1, BagGains DEF Ended
<1>3. j \in Job
  BY DEF ClientInv
<1>4. k \in Job /\ k.op = j.op /\ k.status # "running"
  BY <1>3 DEF Job
<1>5. WaitingHasJob'
  <2> SUFFICES ASSUME NEW t \in Scopes, NEW o \in waiting[t]
               PROVE  \E i \in BagToSet(jobs') : i.op = o
    BY DEF WaitingHasJob
  <2>1. PICK i \in BagToSet(jobs) : i.op = o
    BY DEF ClientInv, WaitingHasJob
  <2> QED
    BY <1>1, <1>2, <1>4, <2>1
<1>6. WritersHaveChange'
  BY <1>1, <1>2, <1>4 DEF ClientInv, WritersHaveChange
<1> QED
  BY <1>1, <1>2, <1>4, <1>5, <1>6 DEF ClientInv

-----------------------------------------------------------------------------
\* The steps.

LEMMA ClientStep ==
    ASSUME FilesInv, ClientInv, [Next]_vars
    PROVE  ClientInv'
<1> USE DEF clientVars
<1>1. CASE UNCHANGED <<waiting, clientVars>>
  BY <1>1 DEF ClientInv, WritersHaveChange, WaitingHasJob
<1>2. CASE UNCHANGED vars
  BY <1>1, <1>2 DEF vars, pageVars
<1>3. ASSUME NEW j \in BagToSet(jobs), NEW ok \in BOOLEAN, HelperWrites(j, ok) PROVE ClientInv'
  BY <1>3, EndedKeepsClient DEF HelperWrites, pageVars
<1>4. ASSUME NEW j \in BagToSet(jobs), NEW ok \in BOOLEAN, JobFinished(j, ok) PROVE ClientInv'
  BY <1>4, FinishedKeepsClient DEF JobFinished
<1>5. ASSUME NEW s \in Scopes, RequestUnlock(s) PROVE ClientInv'
  BY <1>5, SendKeepsClient DEF RequestUnlock, Operations
<1>6. ASSUME NEW s \in Scopes, Lock(s) PROVE ClientInv'
  <2>1. /\ waiting' \in [Scopes -> SUBSET Operations]
        /\ \A t \in Scopes : waiting'[t] \subseteq waiting[t]
    BY <1>6 DEF Lock, ClientInv
  <2>2. busy' = busy /\ jobs' = jobs
    BY <1>6 DEF Lock
  <2> QED
    BY <2>1, <2>2, LessWaiting DEF ClientInv
<1>7. ASSUME NEW s \in Scopes, SavePrivileged(s) PROVE ClientInv'
  <2>1. change[s] \in Edits
    BY <1>7 DEF SavePrivileged, MaySave, FilesInv
  <2> QED
    BY <1>7, <2>1, SendKeepsClient DEF SavePrivileged, Operations
<1>8. ASSUME NEW s \in Scopes, RestartDocker(s) PROVE ClientInv'
  <2>1. CASE RestartViaSession
    BY <2>1, LessWaiting DEF RestartViaSession, Cleared, ClientInv
  <2>2. CASE Send(s, "restart", NoEdit)
    BY <2>2, SendKeepsClient DEF Operations
  <2> QED
    BY <1>8, <2>1, <2>2 DEF RestartDocker
<1>9. CASE ControlService
  BY <1>9, SendKeepsClient DEF ControlService, Operations, Scopes
<1>10. ASSUME NEW s \in Scopes, NEW ok \in BOOLEAN,
              \/ Reload(s) \/ SaveDirectly(s, ok) \/ RestoreBackup(s, ok) \/ FileChanges(s)
              \/ DeploymentChanges(s) \/ \E c \in Edits : Edit(s, c)
       PROVE  ClientInv'
  BY <1>1, <1>10
     DEF Reload, SaveDirectly, RestoreBackup, FileChanges, DeploymentChanges, Edit, pageVars
<1> QED
  BY <1>2, <1>3, <1>4, <1>5, <1>6, <1>7, <1>8, <1>9, <1>10 DEF Next

\* Every write of a file is of a well-formed content to a scope's file.
LEMMA HelperWritesWell ==
    ASSUME FilesInv, ClientInv, NEW j \in BagToSet(jobs), NEW ok \in BOOLEAN,
           HelperWrites(j, ok), Valid(disk["system"])
    PROVE  /\ Merged(disk["system"], j.change) \in Content
           /\ disk["system"] \in Content
                => Merged(disk["system"], j.change).foreign = disk["system"].foreign
           /\ Written("system", Merged(disk["system"], j.change), ok)
<1>1. j.change \in Edits /\ disk["system"] \in Files
  BY DEF FilesInv, ClientInv, WritersHaveChange, HelperWrites, Scopes
<1> QED
  BY <1>1, MergedIsContent DEF HelperWrites

LEMMA SaveWritesWell ==
    ASSUME FilesInv, NEW s \in Scopes, NEW ok \in BOOLEAN, SaveDirectly(s, ok)
    PROVE  /\ Merged(doc[s], change[s]) \in Content
           /\ Merged(doc[s], change[s]).foreign = ForeignOf(doc[s])
           /\ Written(s, Merged(doc[s], change[s]), ok)
<1>1. doc[s] \in Files /\ Valid(doc[s]) /\ change[s] \in Edits
  BY DEF FilesInv, SaveDirectly, MaySave
<1> QED
  BY <1>1, MergedIsContent DEF SaveDirectly

LEMMA FilesStep ==
    ASSUME FilesInv, ClientInv, [Next]_vars
    PROVE  FilesInv'
<1> USE DEF fileVars, pageVars, boundVars
<1>1. CASE UNCHANGED vars
  BY <1>1 DEF vars, FilesInv
<1>2. ASSUME NEW j \in BagToSet(jobs), NEW ok \in BOOLEAN, HelperWrites(j, ok) PROVE FilesInv'
  <2>1. CASE Valid(disk["system"])
    BY <1>2, <2>1, HelperWritesWell, WrittenKeepsFiles, ContentIsFile
       DEF HelperWrites, FilesInv, Scopes
  <2>2. CASE ~Valid(disk["system"])
    BY <1>2, <2>2 DEF HelperWrites, FilesInv
  <2> QED
    BY <2>1, <2>2
<1>3. ASSUME NEW j \in BagToSet(jobs), NEW ok \in BOOLEAN, JobFinished(j, ok) PROVE FilesInv'
  <2>1. disk' \in [Scopes -> Files] /\ latest' = latest
    BY <1>3 DEF JobFinished, FilesInv
  <2>2. PICK pages : ReadAgain(pages)
    BY <1>3 DEF JobFinished
  <2>3. doc' \in [Scopes -> Files] /\ change' \in [Scopes -> Edits \cup {NoEdit}]
    BY <2>1, <2>2, ReadAgainKeepsTypes
  <2>4. unlocked' \in [Scopes -> BOOLEAN] /\ UNCHANGED <<protected, changes>>
    BY <1>3 DEF JobFinished, FilesInv
  <2> QED
    BY <2>1, <2>3, <2>4 DEF FilesInv
<1>4. ASSUME NEW s \in Scopes,
             RequestUnlock(s) \/ SavePrivileged(s) \/ RestartDocker(s) \/ ControlService
      PROVE  FilesInv'
  BY <1>4 DEF RequestUnlock, SavePrivileged, RestartDocker, ControlService, FilesInv
<1>5. ASSUME NEW s \in Scopes, Lock(s) \/ \E c \in Edits : Edit(s, c) PROVE FilesInv'
  BY <1>5 DEF Lock, Edit, FilesInv
<1>6. ASSUME NEW s \in Scopes, Reload(s) PROVE FilesInv'
  BY <1>6, ReadAgainKeepsTypes DEF Reload, FilesInv
<1>7. ASSUME NEW s \in Scopes, NEW ok \in BOOLEAN, NEW content \in Files, NEW pages,
             Written(s, content, ok), ReadAgain(pages), UNCHANGED <<protected, unlocked, changes>>
      PROVE  FilesInv'
  <2>1. disk' \in [Scopes -> Files] /\ latest' \in [Scopes -> Files \cup {NoBackup}]
    BY <1>7, WrittenKeepsFiles DEF FilesInv
  <2>2. doc' \in [Scopes -> Files] /\ change' \in [Scopes -> Edits \cup {NoEdit}]
    BY <1>7, <2>1, ReadAgainKeepsTypes
  <2> QED
    BY <1>7, <2>1, <2>2 DEF FilesInv
<1>8. ASSUME NEW s \in Scopes, NEW ok \in BOOLEAN, SaveDirectly(s, ok) PROVE FilesInv'
  <2>1. ReadAgain(IF ok THEN {s} ELSE {}) /\ UNCHANGED <<protected, unlocked, changes>>
    BY <1>8 DEF SaveDirectly
  <2> QED
    BY <1>7, <1>8, <2>1, SaveWritesWell, ContentIsFile
<1>9. ASSUME NEW s \in Scopes, NEW ok \in BOOLEAN, RestoreBackup(s, ok) PROVE FilesInv'
  <2>1. /\ latest[s] \in Files /\ Written(s, latest[s], ok)
        /\ ReadAgain(IF ok THEN {s} ELSE {}) /\ UNCHANGED <<protected, unlocked, changes>>
    BY <1>9, ContentIsFile DEF RestoreBackup
  <2> QED
    BY <1>7, <2>1
<1>10. ASSUME NEW s \in Scopes, FileChanges(s) PROVE FilesInv'
  BY <1>10, DaemonAssumption DEF FileChanges, FilesInv
<1>11. ASSUME NEW s \in Scopes, DeploymentChanges(s) PROVE FilesInv'
  BY <1>11 DEF DeploymentChanges, FilesInv
<1> QED
  BY <1>1, <1>2, <1>3, <1>4, <1>5, <1>6, <1>8, <1>9, <1>10, <1>11 DEF Next, Scopes

LEMMA InvInit == Init => FilesInv /\ ClientInv
<1> SUFFICES ASSUME Init PROVE FilesInv /\ ClientInv
  OBVIOUS
<1>1. FilesInv
  BY ContentIsFile DEF Init, FilesInv
<1>2. IsABag(EmptyBag) /\ BagToSet(EmptyBag) = {}
  BY DEF IsABag, EmptyBag, SetToBag, BagToSet
<1>3. ClientInv
  BY <1>2 DEF Init, ClientInv, WritersHaveChange, WaitingHasJob
<1> QED
  BY <1>1, <1>3

LEMMA InvAlways == Spec => [](FilesInv /\ ClientInv)
<1>1. FilesInv /\ ClientInv /\ [Next]_vars => (FilesInv /\ ClientInv)'
  BY FilesStep, ClientStep
<1> QED
  BY <1>1, InvInit, PTL DEF Spec

-----------------------------------------------------------------------------
\* The types of the pages, the client, the helper's jobs and the files.
THEOREM DaemonTypes == Spec => []DaemonTypeOK
<1>1. FilesInv /\ ClientInv => DaemonTypeOK
  BY DEF FilesInv, ClientInv, DaemonTypeOK
<1> QED
  BY <1>1, InvAlways, PTL

\* No page waits for an operation that nobody will report on, although both may wait for one at
\* a time, a refusal or an answer settles both, and restartViaSessionSystemd() lets a second job
\* start beside the first (the broadcast of PrivilegedConfigClient::finished(), its refusals, and
\* lock()).
THEOREM WaitsAreForJobs == Spec => []WaitingHasJob
<1>1. ClientInv => WaitingHasJob
  BY DEF ClientInv
<1> QED
  BY <1>1, InvAlways, PTL

\* Which steps change a file.
LEMMA FilesChange ==
    ASSUME FilesInv, ClientInv, [Next]_vars, changes' = changes
    PROVE  \/ disk' = disk
           \/ \E j \in BagToSet(jobs), ok \in BOOLEAN : HelperWrites(j, ok) /\ Valid(disk["system"])
           \/ \E s \in Scopes, ok \in BOOLEAN : SaveDirectly(s, ok) \/ RestoreBackup(s, ok)
<1> USE DEF fileVars, pageVars, boundVars
<1>1. CASE UNCHANGED vars
  BY <1>1 DEF vars
<1>2. ASSUME NEW j \in BagToSet(jobs), NEW ok \in BOOLEAN, HelperWrites(j, ok), disk' # disk
      PROVE  Valid(disk["system"])
  BY <1>2 DEF HelperWrites
<1>3. ASSUME NEW j \in BagToSet(jobs), NEW ok \in BOOLEAN, JobFinished(j, ok) PROVE disk' = disk
  BY <1>3 DEF JobFinished
<1>4. ASSUME NEW s \in Scopes,
             \/ RequestUnlock(s) \/ Lock(s) \/ Reload(s) \/ SavePrivileged(s) \/ RestartDocker(s)
             \/ \E c \in Edits : Edit(s, c)
             \/ ControlService
      PROVE  disk' = disk
  BY <1>4 DEF RequestUnlock, Lock, Reload, SavePrivileged, RestartDocker, Edit, ControlService
<1>5. ASSUME NEW s \in Scopes PROVE ~FileChanges(s) /\ ~DeploymentChanges(s)
  BY DEF FileChanges, DeploymentChanges, FilesInv
<1> QED
  BY <1>1, <1>2, <1>3, <1>4, <1>5 DEF Next, Scopes

\* What another page, another program or the helper has written since, a write leaves the key
\* that the pages do not manage as the file has it (PrivilegedConfigRequest::mergeInto() in the
\* helper), as the page last read it (save() of a writable file) or as the backup has it.
THEOREM WritesKeepForeignKeys == Spec => ForeignKeysKept
<1> DEFINE Kept(f) == /\ disk'[f] \in Content
                      /\ \/ disk'[f].foreign = disk[f].foreign
                         \/ SaveDirectly(f, TRUE) /\ disk'[f].foreign = ForeignOf(doc[f])
                         \/ RestoreBackup(f, TRUE)
<1>1. ASSUME FilesInv, ClientInv, [Next]_vars, changes' = changes,
             NEW f \in Scopes, disk[f] \in Content, disk'[f] # disk[f]
      PROVE  Kept(f)
  <2>1. ASSUME NEW j \in BagToSet(jobs), NEW ok \in BOOLEAN,
               HelperWrites(j, ok), Valid(disk["system"])
        PROVE  Kept(f)
    <3> DEFINE content == Merged(disk["system"], j.change)
    <3>1. /\ content \in Content
          /\ disk["system"] \in Content => content.foreign = disk["system"].foreign
          /\ Written("system", content, ok)
      BY <1>1, <2>1, HelperWritesWell
    <3> HIDE DEF content
    <3>2. /\ disk'["system"] = IF ok THEN content ELSE disk["system"]
          /\ \A t \in Scopes : t # "system" => disk'[t] = disk[t]
      BY <1>1, <3>1, WrittenKeepsFiles, ContentIsFile DEF FilesInv, Scopes
    <3> QED
      BY <1>1, <3>1, <3>2
  <2>2. ASSUME NEW s \in Scopes, NEW ok \in BOOLEAN, SaveDirectly(s, ok) PROVE Kept(f)
    <3> DEFINE content == Merged(doc[s], change[s])
    <3>1. /\ content \in Content /\ content.foreign = ForeignOf(doc[s])
          /\ Written(s, content, ok)
      BY <1>1, <2>2, SaveWritesWell
    <3> HIDE DEF content
    <3>2. /\ disk'[s] = IF ok THEN content ELSE disk[s]
          /\ \A t \in Scopes : t # s => disk'[t] = disk[t]
      BY <1>1, <3>1, WrittenKeepsFiles, ContentIsFile DEF FilesInv
    <3>3. f = s /\ ok
      BY <1>1, <3>2
    <3> QED
      BY <2>2, <3>1, <3>2, <3>3
  <2>3. ASSUME NEW s \in Scopes, NEW ok \in BOOLEAN, RestoreBackup(s, ok) PROVE Kept(f)
    <3>1. latest[s] \in Content /\ Written(s, latest[s], ok)
      BY <2>3 DEF RestoreBackup
    <3>2. /\ disk'[s] = IF ok THEN latest[s] ELSE disk[s]
          /\ \A t \in Scopes : t # s => disk'[t] = disk[t]
      BY <1>1, <3>1, WrittenKeepsFiles, ContentIsFile DEF FilesInv
    <3>3. f = s /\ ok
      BY <1>1, <3>2
    <3> QED
      BY <2>3, <3>1, <3>2, <3>3
  <2> HIDE DEF Kept
  <2> QED
    BY <1>1, <2>1, <2>2, <2>3, FilesChange
<1>2. FilesInv /\ ClientInv /\ [Next]_vars
      => [\A f \in Scopes : changes' = changes /\ disk[f] \in Content /\ disk'[f] # disk[f]
             => Kept(f)]_vars
  <2> HIDE DEF Kept
  <2> QED
    BY <1>1
<1> QED
  BY <1>2, InvAlways, PTL DEF Spec, ForeignKeysKept

\* What a save or a restore overwrites is the newest backup, through every failure of the steps
\* of DaemonConfigWriter::writeAtomically().
THEOREM SavesAreRevertible == Spec => Revertible
<1>1. ASSUME FilesInv, ClientInv, [Next]_vars, changes' = changes, NEW f \in Scopes,
             disk'[f] # disk[f], disk[f] # Missing
      PROVE  latest'[f] = disk[f]
  <2>1. PICK s \in Scopes, ok \in BOOLEAN, content \in Files : Written(s, content, ok)
    <3>1. ASSUME NEW j \in BagToSet(jobs), NEW ok \in BOOLEAN,
                 HelperWrites(j, ok), Valid(disk["system"])
          PROVE  \E content \in Files : Written("system", content, ok)
      BY <1>1, <3>1, HelperWritesWell, ContentIsFile
    <3>2. ASSUME NEW s \in Scopes, NEW ok \in BOOLEAN, SaveDirectly(s, ok)
          PROVE  \E content \in Files : Written(s, content, ok)
      BY <1>1, <3>2, SaveWritesWell, ContentIsFile
    <3>3. ASSUME NEW s \in Scopes, NEW ok \in BOOLEAN, RestoreBackup(s, ok)
          PROVE  \E content \in Files : Written(s, content, ok)
      BY <3>3, ContentIsFile DEF RestoreBackup
    <3> QED
      BY <1>1, <3>1, <3>2, <3>3, FilesChange DEF Scopes
  <2> QED
    BY <1>1, <2>1, WrittenKeepsFiles DEF FilesInv
<1>2. FilesInv /\ ClientInv /\ [Next]_vars
      => [changes' = changes
          => \A f \in Scopes : disk'[f] # disk[f] /\ disk[f] # Missing => latest'[f] = disk[f]]_vars
  BY <1>1
<1> QED
  BY <1>2, InvAlways, PTL DEF Spec, Revertible

-----------------------------------------------------------------------------
(***************************************************************************)
(* MountPresets: the lists of the two stores.                              *)
(***************************************************************************)
\* What is left of a list without some of its elements.
LEMMA WithoutElements ==
    ASSUME NEW S, NEW s \in Seq(S), NEW gone
    PROVE  /\ Without(s, gone) \in Seq(S)
           /\ ToSet(Without(s, gone)) = ToSet(s) \ gone
           /\ IsInjective(s) => IsInjective(Without(s, gone))
<1> DEFINE stay == {i \in DOMAIN s : s[i] \notin gone}
<1>1. Without(s, gone) = Picked(s, stay)
  BY DEF Without
<1>2. {s[i] : i \in stay \cap DOMAIN s} = ToSet(s) \ gone
  BY DEF ToSet
<1> HIDE DEF stay
<1> QED
  BY <1>1, <1>2, PickedElements

(***************************************************************************)
(* Presets.  The ids of a list of presets are a sequence of their own,     *)
(* which most steps leave alone.                                           *)
(***************************************************************************)
Preset == [id : Nat, place : Places, favorite : BOOLEAN, used : Nat]

IdSeq(seq) == [i \in DOMAIN seq |-> seq[i].id]

LEMMA IdSeqElements ==
    ASSUME NEW seq \in Seq(Preset)
    PROVE  /\ IdSeq(seq) \in Seq(Nat)
           /\ Len(IdSeq(seq)) = Len(seq)
           /\ DOMAIN IdSeq(seq) = DOMAIN seq
           /\ ToSet(IdSeq(seq)) = Ids(seq)
           /\ \A i \in DOMAIN seq : IdSeq(seq)[i] = seq[i].id
<1>1. DOMAIN seq = 1 .. Len(seq) /\ Len(seq) \in Nat /\ \A i \in DOMAIN seq : seq[i].id \in Nat
  <2>1. \A i \in DOMAIN seq : seq[i] \in Preset
    OBVIOUS
  <2>2. \A p \in Preset : p.id \in Nat
    BY DEF Preset
  <2> HIDE DEF Preset
  <2> QED
    BY <2>1, <2>2
<1>2. IdSeq(seq) \in Seq(Nat) /\ Len(IdSeq(seq)) = Len(seq)
  BY <1>1 DEF IdSeq
<1> QED
  BY <1>1, <1>2 DEF IdSeq, ToSet, Ids

\* The ids of the presets that Except leaves.
LEMMA ExceptIds ==
    ASSUME NEW seq \in Seq(Preset), NEW gone
    PROVE  /\ Except(seq, gone) \in Seq(Preset)
           /\ ToSet(Except(seq, gone)) = {p \in ToSet(seq) : p.id \notin gone}
           /\ Ids(Except(seq, gone)) = Ids(seq) \ gone
           /\ IsInjective(IdSeq(seq)) => IsInjective(IdSeq(Except(seq, gone)))
<1> DEFINE stay == {i \in DOMAIN seq : seq[i].id \notin gone}
           E == Except(seq, gone)
<1>1. E = Picked(seq, stay)
  BY DEF Except
<1>2. {seq[i] : i \in stay \cap DOMAIN seq} = {p \in ToSet(seq) : p.id \notin gone}
  BY DEF ToSet
<1>3. /\ E \in Seq(Preset)
      /\ ToSet(E) = {p \in ToSet(seq) : p.id \notin gone}
      /\ IsInjective(seq) => IsInjective(E)
  <2> HIDE DEF E, stay
  <2> QED
    BY <1>1, <1>2, PickedElements
<1> HIDE DEF E, stay
<1>4. Ids(E) = Ids(seq) \ gone
  <2>1. Ids(E) = {p.id : p \in ToSet(E)} /\ Ids(seq) = {p.id : p \in ToSet(seq)}
    BY DEF Ids, ToSet
  <2> QED
    BY <1>3, <2>1
<1>5. ASSUME IsInjective(IdSeq(seq)) PROVE IsInjective(IdSeq(E))
  <2>1. \A i, j \in DOMAIN seq : seq[i].id = seq[j].id => i = j
    BY <1>5, IdSeqElements DEF IsInjective
  <2>2. IsInjective(E)
    BY <1>3, <2>1 DEF IsInjective
  <2>3. ASSUME NEW i \in DOMAIN E, NEW j \in DOMAIN E, E[i].id = E[j].id PROVE i = j
    <3>1. E[i] \in ToSet(seq) /\ E[j] \in ToSet(seq)
      BY <1>3 DEF ToSet
    <3>2. E[i] = E[j]
      BY <2>1, <2>3, <3>1 DEF ToSet
    <3> QED
      BY <2>2, <3>2 DEF IsInjective
  <2> QED
    BY <1>3, <2>3, IdSeqElements DEF IsInjective
<1> QED
  BY <1>3, <1>4, <1>5 DEF E

\* nextId() finds an id: among one number more than there are presets, one is free.
LEMMA NextIdIsNew ==
    ASSUME NEW seq \in Seq(Preset)
    PROVE  NextId(seq) \in Nat /\ NextId(seq) \notin Ids(seq)
<1> DEFINE L == Len(seq)
           T == {n \in L + 1 .. 2 * L + 1 : n \notin Ids(seq)}
<1>1. L \in Nat
  OBVIOUS
<1>2. T # {}
  <2> SUFFICES ASSUME L + 1 .. 2 * L + 1 \subseteq Ids(seq) PROVE FALSE
    OBVIOUS
  <2>1. IsFiniteSet(Ids(seq)) /\ Cardinality(Ids(seq)) <= L /\ Cardinality(Ids(seq)) \in Nat
    BY IdSeqElements, InjectiveCount
  <2>2. L + 1 \in Int /\ 2 * L + 1 \in Int /\ L + 1 <= 2 * L + 1 /\ ((2 * L + 1) - (L + 1)) + 1 = L + 1
    BY <1>1
  <2>3. Cardinality(L + 1 .. 2 * L + 1) = L + 1
    <3> DEFINE a == L + 1
               b == 2 * L + 1
    <3>1. Cardinality(a .. b) = IF a > b THEN 0 ELSE (b - a) + 1
      <4>1. a \in Int /\ b \in Int
        BY <2>2
      <4> HIDE DEF a, b
      <4> QED
        BY <4>1, FS_Interval
    <3> QED
      BY <2>2, <3>1
  <2>4. Cardinality(L + 1 .. 2 * L + 1) <= Cardinality(Ids(seq))
    BY <2>1, FS_Subset
  <2> QED
    BY <1>1, <2>1, <2>3, <2>4
<1>3. PICK m \in T : \A n \in T : m <= n
  <2>1. T \in SUBSET Nat
    BY <1>1
  <2> HIDE DEF T
  <2> QED
    BY <1>2, <2>1, LeastNumber
<1>4. \A n \in L + 1 .. m - 1 : n \in Ids(seq)
  BY <1>1, <1>3
<1>5. \E n \in L + 1 .. 2 * L + 1 : n \notin Ids(seq) /\ \A k \in L + 1 .. n - 1 : k \in Ids(seq)
  BY <1>3, <1>4
<1>6. NextId(seq) \in L + 1 .. 2 * L + 1 /\ NextId(seq) \notin Ids(seq)
  BY <1>5 DEF NextId
<1> QED
  BY <1>1, <1>6

LEMMA RowIsThere ==
    ASSUME NEW seq \in Seq(Preset), NEW id \in Ids(seq)
    PROVE  Row(seq, id) \in DOMAIN seq /\ seq[Row(seq, id)].id = id
<1> DEFINE I == {i \in 1 .. Len(seq) : seq[i].id = id}
<1>1. I \in SUBSET Nat /\ I # {}
  BY DEF Ids
<1>2. Row(seq, id) = Min(I)
  BY <1>1 DEF Row, SelectInSeq
<1>3. Min(I) \in I
  <2> HIDE DEF I
  <2> QED
    BY <1>1, FirstPlace
<1> QED
  BY <1>2, <1>3

\* Replacing one preset by another with the same id.
LEMMA ReplaceOne ==
    ASSUME NEW seq \in Seq(Preset), NEW r \in DOMAIN seq, NEW p \in Preset, p.id = seq[r].id
    PROVE  /\ [seq EXCEPT ![r] = p] \in Seq(Preset)
           /\ Len([seq EXCEPT ![r] = p]) = Len(seq)
           /\ \A i \in DOMAIN seq : [seq EXCEPT ![r] = p][i] = IF i = r THEN p ELSE seq[i]
           /\ IdSeq([seq EXCEPT ![r] = p]) = IdSeq(seq)
           /\ Ids([seq EXCEPT ![r] = p]) = Ids(seq)
<1> DEFINE s == [seq EXCEPT ![r] = p]
<1>1. /\ s \in Seq(Preset) /\ Len(s) = Len(seq) /\ DOMAIN s = DOMAIN seq
      /\ \A i \in DOMAIN seq : s[i] = IF i = r THEN p ELSE seq[i]
  <2> HIDE DEF Preset
  <2> QED
    OBVIOUS
<1> HIDE DEF s
<1>2. \A i \in DOMAIN seq : s[i].id = seq[i].id
  BY <1>1
<1>3. IdSeq(s) = IdSeq(seq)
  BY <1>1, <1>2 DEF IdSeq
<1>4. Ids(s) = Ids(seq)
  BY <1>1, <1>2 DEF Ids
<1> QED
  BY <1>1, <1>3, <1>4 DEF s

\* The ids after a preset was added at the end.
LEMMA AppendIds ==
    ASSUME NEW seq \in Seq(Preset), NEW p \in Preset
    PROVE  /\ Append(seq, p) \in Seq(Preset)
           /\ IdSeq(Append(seq, p)) = Append(IdSeq(seq), p.id)
           /\ Ids(Append(seq, p)) = Ids(seq) \cup {p.id}
<1> DEFINE id == p.id
           a == Append(seq, p)
           b == Append(IdSeq(seq), id)
<1>1. id \in Nat
  BY DEF Preset
<1>2. /\ a \in Seq(Preset) /\ Len(a) = Len(seq) + 1 /\ Len(seq) \in Nat
      /\ \A i \in 1 .. Len(seq) : a[i] = seq[i]
      /\ a[Len(seq) + 1] = p
      /\ DOMAIN seq = 1 .. Len(seq)
  <2> HIDE DEF Preset
  <2> QED
    OBVIOUS
<1>3. /\ IdSeq(seq) \in Seq(Nat) /\ Len(IdSeq(seq)) = Len(seq)
      /\ \A i \in 1 .. Len(seq) : IdSeq(seq)[i] = seq[i].id
  BY <1>2, IdSeqElements
<1>4. /\ b \in Seq(Nat) /\ Len(b) = Len(seq) + 1 /\ b[Len(seq) + 1] = id
      /\ \A i \in 1 .. Len(seq) : b[i] = seq[i].id
  BY <1>1, <1>2, <1>3
<1> HIDE DEF a, b
<1>5. /\ IdSeq(a) \in Seq(Nat) /\ Len(IdSeq(a)) = Len(seq) + 1
      /\ \A i \in 1 .. Len(seq) + 1 : IdSeq(a)[i] = a[i].id
  BY <1>2, IdSeqElements
<1>6. \A i \in 1 .. Len(seq) + 1 : i = Len(seq) + 1 \/ i \in 1 .. Len(seq)
  BY <1>2
<1>7. \A i \in 1 .. Len(seq) + 1 : IdSeq(a)[i] = b[i]
  BY <1>2, <1>4, <1>5, <1>6
<1>8. IdSeq(a) = b
  <2>1. Len(IdSeq(a)) = Len(b) /\ \A i \in 1 .. Len(b) : IdSeq(a)[i] = b[i]
    BY <1>4, <1>5, <1>7
  <2> QED
    BY <1>4, <1>5, <2>1, SameSequence
<1>9. Ids(a) = Ids(seq) \cup {id}
  <2>1. Ids(a) = ToSet(b) /\ Ids(seq) = ToSet(IdSeq(seq))
    BY <1>2, <1>8, IdSeqElements
  <2> HIDE DEF id
  <2> QED
    BY <1>1, <1>3, <2>1, AppendElements DEF b
<1> QED
  BY <1>2, <1>8, <1>9 DEF a, b

\* What the use of a mount does to the presets: they keep their places, their ids and their
\* favourites, and what changes or is new has the time of this use.
Grown(a, b) ==
    /\ b \in Seq(Preset)
    /\ Len(a) <= Len(b)
    /\ \A i \in DOMAIN a : /\ b[i].id = a[i].id
                           /\ b[i].favorite = a[i].favorite
                           /\ b[i].used \in {a[i].used, now}
    /\ \A i \in DOMAIN b \ DOMAIN a : b[i].used = now
    /\ IsInjective(IdSeq(a)) => IsInjective(IdSeq(b))

LEMMA TouchGrows ==
    ASSUME NEW seq \in Seq(Preset), NEW place \in Places, now \in Nat
    PROVE  Grown(seq, Touch(seq, place))
<1>1. CASE place \in PlacesOf(seq)
  <2> DEFINE I == {i \in 1 .. Len(seq) : seq[i].place = place}
             r == SelectInSeq(seq, LAMBDA p : p.place = place)
             p == [seq[r] EXCEPT !.used = now]
  <2>1. I \in SUBSET Nat /\ I # {}
    BY <1>1 DEF PlacesOf
  <2>2. r = Min(I)
    BY <2>1 DEF SelectInSeq
  <2>3. Min(I) \in I
    <3> HIDE DEF I
    <3> QED
      BY <2>1, FirstPlace
  <2>4. r \in DOMAIN seq
    BY <2>2, <2>3
  <2>5. Touch(seq, place) = [seq EXCEPT ![r] = p]
    BY <1>1, <2>4 DEF Touch
  <2> HIDE DEF r
  <2>6. seq[r] \in Preset
    BY <2>4
  <2>7. p \in Preset /\ p.id = seq[r].id /\ p.favorite = seq[r].favorite /\ p.used = now
    BY <2>6 DEF Preset
  <2>8. /\ Touch(seq, place) \in Seq(Preset)
        /\ Len(Touch(seq, place)) = Len(seq)
        /\ \A i \in DOMAIN seq : Touch(seq, place)[i] = IF i = r THEN p ELSE seq[i]
        /\ IdSeq(Touch(seq, place)) = IdSeq(seq)
    <3>1. p \in Preset /\ p.id = seq[r].id
      BY <2>7
    <3> HIDE DEF p
    <3>2. /\ [seq EXCEPT ![r] = p] \in Seq(Preset)
          /\ Len([seq EXCEPT ![r] = p]) = Len(seq)
          /\ \A i \in DOMAIN seq : [seq EXCEPT ![r] = p][i] = IF i = r THEN p ELSE seq[i]
          /\ IdSeq([seq EXCEPT ![r] = p]) = IdSeq(seq)
      BY <2>4, <3>1, ReplaceOne
    <3> QED
      BY <2>5, <3>2
  <2>9. DOMAIN Touch(seq, place) = DOMAIN seq /\ Len(seq) \in Nat
    BY <2>8
  <2>10. \A i \in DOMAIN seq : /\ Touch(seq, place)[i].id = seq[i].id
                               /\ Touch(seq, place)[i].favorite = seq[i].favorite
                               /\ Touch(seq, place)[i].used \in {seq[i].used, now}
    <3> HIDE DEF p
    <3> QED
      BY <2>7, <2>8
  <2> QED
    BY <2>8, <2>9, <2>10 DEF Grown
<1>2. CASE place \notin PlacesOf(seq)
  <2> DEFINE id == NextId(seq)
             p == NewPreset(id, place, now)
  <2>1. id \in Nat /\ id \notin Ids(seq)
    BY NextIdIsNew
  <2>2. p \in Preset /\ p.id = id /\ p.used = now
    BY <2>1 DEF Preset, NewPreset
  <2> HIDE DEF id, p
  <2>3. Touch(seq, place) = Append(seq, p)
    BY <1>2 DEF Touch, id, p
  <2>4. /\ Append(seq, p) \in Seq(Preset) /\ Len(Append(seq, p)) = Len(seq) + 1 /\ Len(seq) \in Nat
        /\ DOMAIN seq = 1 .. Len(seq) /\ DOMAIN Append(seq, p) = 1 .. Len(seq) + 1
        /\ \A i \in DOMAIN seq : Append(seq, p)[i] = seq[i]
        /\ Append(seq, p)[Len(seq) + 1] = p
    BY <2>2
  <2>5. IdSeq(Append(seq, p)) = Append(IdSeq(seq), id)
    BY <2>2, AppendIds
  <2>6. IsInjective(IdSeq(seq)) => IsInjective(Append(IdSeq(seq), id))
    BY <2>1, IdSeqElements, AppendElements
  <2>7. /\ \A i \in DOMAIN seq : Append(seq, p)[i].used \in {seq[i].used, now}
        /\ \A i \in DOMAIN Append(seq, p) \ DOMAIN seq : Append(seq, p)[i].used = now
    <3>1. \A i \in DOMAIN Append(seq, p) \ DOMAIN seq : i = Len(seq) + 1
      BY <2>4
    <3> QED
      BY <2>2, <2>4, <3>1
  <2> QED
    BY <2>3, <2>4, <2>5, <2>6, <2>7 DEF Grown
<1> QED
  BY <1>1, <1>2

LEMMA GrownTwice ==
    ASSUME NEW a \in Seq(Preset), NEW b, NEW c, Grown(a, b), Grown(b, c)
    PROVE  Grown(a, c)
<1>1. /\ b \in Seq(Preset) /\ c \in Seq(Preset) /\ Len(a) <= Len(b) /\ Len(b) <= Len(c)
      /\ DOMAIN a = 1 .. Len(a) /\ DOMAIN b = 1 .. Len(b) /\ DOMAIN c = 1 .. Len(c)
      /\ Len(a) \in Nat /\ Len(b) \in Nat /\ Len(c) \in Nat
  BY DEF Grown
<1>2. DOMAIN a \subseteq DOMAIN b /\ DOMAIN b \subseteq DOMAIN c
  BY <1>1
<1>3. \A i \in DOMAIN a : /\ c[i].id = a[i].id
                          /\ c[i].favorite = a[i].favorite
                          /\ c[i].used \in {a[i].used, now}
  BY <1>2 DEF Grown
<1>4. \A i \in DOMAIN c \ DOMAIN a : c[i].used = now
  BY <1>2 DEF Grown
<1>5. Len(a) <= Len(c)
  BY <1>1
<1> QED
  BY <1>1, <1>3, <1>4, <1>5 DEF Grown

\* The loop of noteUsed() does the same for all its mounts.
LEMMA NotedGrows ==
    ASSUME NEW seq \in Seq(Preset), NEW places \in Seq(Places), now \in Nat
    PROVE  Grown(seq, Noted(seq, places))
<1> DEFINE V == Seq(Preset)
           L == Len(places)
           g == [n \in 1 .. L |-> [s \in V |-> Touch(s, places[n])]]
           Def(f) == f = [n \in 0 .. L |-> IF n = 0 THEN seq ELSE Touch(f[n - 1], places[n])]
<1>1. L \in Nat /\ \A n \in 1 .. L : places[n] \in Places
  OBVIOUS
<1>2. \A s \in V, n \in 1 .. L : Touch(s, places[n]) \in V
  BY <1>1, TouchGrows DEF Grown
<1>3. PICK e \in [0 .. L -> V] : e[0] = seq /\ \A n \in 1 .. L : e[n] = g[n][e[n - 1]]
  <2>1. L \in Nat
    BY <1>1
  <2>2. g \in [1 .. L -> [V -> V]]
    <3> HIDE DEF V, L
    <3> QED
      BY <1>2
  <2> DEFINE base == seq
  <2>3. base \in V
    OBVIOUS
  <2>4. \E e : Recursion(e, V, base, L, g)
    <3> HIDE DEF g, V, L, base
    <3> QED
      BY <2>1, <2>2, <2>3, RecursionExists
  <2> HIDE DEF g, V, L
  <2> QED
    BY <2>4 DEF Recursion
<1>4. Def(e)
  <2>1. \A n \in 1 .. L : n - 1 \in 0 .. L /\ n # 0 /\ n \in 0 .. L
    BY <1>1
  <2>2. \A n \in 0 .. L : n = 0 \/ n \in 1 .. L
    BY <1>1
  <2>3. ASSUME NEW n \in 1 .. L PROVE g[n][e[n - 1]] = Touch(e[n - 1], places[n])
    <3> HIDE DEF V, L
    <3> QED
      BY <1>3, <2>1
  <2>4. ASSUME NEW n \in 0 .. L PROVE e[n] = IF n = 0 THEN seq ELSE Touch(e[n - 1], places[n])
    <3> HIDE DEF V, L, g
    <3> QED
      BY <1>3, <2>2, <2>3
  <2> HIDE DEF V, L, g
  <2> QED
    BY <1>3, <2>4
<1> DEFINE f == CHOOSE f : Def(f)
<1>5. Def(f)
  <2> HIDE DEF Def
  <2> QED
    BY <1>4
<1>6. Noted(seq, places) = f[L]
  BY DEF Noted
<1> HIDE DEF f
<1>7. f[0] = seq /\ \A n \in 1 .. L : f[n] = Touch(f[n - 1], places[n])
  <2>1. 0 \in 0 .. L /\ \A n \in 1 .. L : n \in 0 .. L /\ n # 0
    BY <1>1
  <2> HIDE DEF L
  <2> QED
    BY <1>5, <2>1
<1> DEFINE G == {n \in Nat : n <= L => Grown(seq, f[n])}
<1>8. 0 \in G
  <2>1. Grown(seq, seq)
    BY DEF Grown
  <2> QED
    BY <1>7, <2>1
<1>9. ASSUME NEW n \in Nat, n \in G PROVE n + 1 \in G
  <2> SUFFICES ASSUME n + 1 <= L PROVE Grown(seq, f[n + 1])
    <3> HIDE DEF L
    <3> QED
      OBVIOUS
  <2>1. n + 1 \in 1 .. L /\ (n + 1) - 1 = n /\ Grown(seq, f[n])
    BY <1>1, <1>9
  <2>2. f[n + 1] = Touch(f[n], places[n + 1])
    <3> HIDE DEF L
    <3> QED
      BY <1>7, <2>1
  <2>3. f[n] \in Seq(Preset)
    BY <2>1 DEF Grown
  <2>4. Grown(f[n], f[n + 1])
    BY <1>1, <2>1, <2>2, <2>3, TouchGrows
  <2> QED
    BY <2>1, <2>4, GrownTwice
<1>10. L \in G
  <2> HIDE DEF G, L
  <2> QED
    BY <1>1, <1>8, <1>9, NatSetInduction
<1> QED
  BY <1>1, <1>6, <1>10

\* The order with the ids of the presets that were added lists all of them, and nothing else
\* if it listed nothing else before.
LEMMA GrownOrder ==
    ASSUME NEW seq \in Seq(Preset), NEW all, Grown(seq, all),
           NEW ids \in Seq(Nat), Ids(seq) \subseteq ToSet(ids), IsInjective(IdSeq(seq))
    PROVE  LET added == [i \in 1 .. Len(all) - Len(seq) |-> all[Len(seq) + i].id]
           IN /\ ids \o added \in Seq(Nat)
              /\ Ids(all) \subseteq ToSet(ids \o added)
              /\ IsInjective(ids) /\ ToSet(ids) \subseteq Ids(seq)
                   => IsInjective(ids \o added) /\ ToSet(ids \o added) \subseteq Ids(all)
<1> DEFINE L == Len(seq)
           D == Len(all) - L
           added == [i \in 1 .. D |-> all[L + i].id]
<1>1. /\ all \in Seq(Preset) /\ L \in Nat /\ D \in Nat /\ L <= Len(all)
      /\ DOMAIN all = 1 .. Len(all) /\ DOMAIN seq = 1 .. L
      /\ \A i \in 1 .. L : all[i].id = seq[i].id
      /\ IsInjective(IdSeq(all))
  BY DEF Grown
<1>2. /\ \A i \in 1 .. D : L + i \in 1 .. Len(all) /\ L + i \notin 1 .. L
      /\ \A i \in 1 .. Len(all) : i \in 1 .. L \/ (i - L \in 1 .. D /\ L + (i - L) = i)
      /\ \A i \in 1 .. L : i \in 1 .. Len(all)
  BY <1>1
<1>3. \A i \in 1 .. Len(all) : all[i].id \in Nat
  <2>1. \A i \in 1 .. Len(all) : all[i] \in Preset
    <3> HIDE DEF Preset
    <3> QED
      BY <1>1
  <2>2. \A p \in Preset : p.id \in Nat
    BY DEF Preset
  <2> HIDE DEF Preset
  <2> QED
    BY <2>1, <2>2
<1>4. added \in Seq(Nat) /\ DOMAIN added = 1 .. D /\ \A i \in 1 .. D : added[i] = all[L + i].id
  <2>1. \A i \in 1 .. D : all[L + i].id \in Nat
    BY <1>2, <1>3
  <2>2. D \in Nat
    BY <1>1
  <2> HIDE DEF D, L
  <2> QED
    BY <2>1, <2>2
<1>5. \A i, j \in 1 .. Len(all) : all[i].id = all[j].id => i = j
  <2>1. \A i \in 1 .. Len(all) : IdSeq(all)[i] = all[i].id
    BY <1>1, IdSeqElements
  <2>2. DOMAIN IdSeq(all) = 1 .. Len(all)
    BY <1>1, IdSeqElements
  <2> QED
    BY <1>1, <2>1, <2>2 DEF IsInjective
<1> HIDE DEF added, D, L
<1>6. IsInjective(added)
  <2>1. ASSUME NEW i \in 1 .. D, NEW j \in 1 .. D, added[i] = added[j] PROVE i = j
    <3>1. L + i = L + j
      BY <1>2, <1>4, <1>5, <2>1
    <3> QED
      BY <1>1, <3>1
  <2> QED
    BY <1>4, <2>1 DEF IsInjective
<1>7. Ids(seq) \cap ToSet(added) = {}
  <2>1. ASSUME NEW i \in 1 .. L, NEW j \in 1 .. D, seq[i].id = added[j] PROVE FALSE
    <3>1. all[i].id = all[L + j].id
      BY <1>1, <1>4, <2>1
    <3>2. i = L + j
      BY <1>2, <1>5, <3>1
    <3> QED
      BY <1>2, <3>2
  <2> QED
    BY <1>1, <1>4, <2>1 DEF ToSet, Ids
<1>8. Ids(seq) \cup ToSet(added) = Ids(all)
  <2>1. Ids(seq) = {all[i].id : i \in 1 .. L}
    BY <1>1 DEF Ids
  <2>2. ToSet(added) = {all[L + i].id : i \in 1 .. D}
    BY <1>4 DEF ToSet
  <2> QED
    BY <1>1, <1>2, <2>1, <2>2 DEF Ids
<1>9. /\ ids \o added \in Seq(Nat)
      /\ Ids(all) \subseteq ToSet(ids \o added)
      /\ IsInjective(ids) /\ ToSet(ids) \subseteq Ids(seq)
           => IsInjective(ids \o added) /\ ToSet(ids \o added) \subseteq Ids(all)
  <2>1. added \in Seq(Nat)
    BY <1>4
  <2>2. ids \o added \in Seq(Nat) /\ ToSet(ids \o added) = ToSet(ids) \cup ToSet(added)
    BY <2>1, ConcatElements
  <2>3. Ids(all) \subseteq ToSet(ids \o added)
    BY <1>8, <2>2
  <2>4. ASSUME IsInjective(ids), ToSet(ids) \subseteq Ids(seq)
        PROVE  IsInjective(ids \o added) /\ ToSet(ids \o added) \subseteq Ids(all)
    <3>1. ToSet(ids) \cap ToSet(added) = {}
      BY <1>7, <2>4
    <3>2. IsInjective(ids \o added)
      BY <1>6, <2>1, <2>4, <3>1, ConcatElements
    <3> QED
      BY <1>8, <2>2, <2>4, <3>2
  <2> QED
    BY <2>2, <2>3, <2>4
<1> QED
  BY <1>9 DEF added, D, L

\* What save() writes: the presets of the window, one group for each id.
LEMMA OnDiskPresets ==
    ASSUME NEW seq \in Seq(Preset), IsInjective(IdSeq(seq))
    PROVE  /\ OnDisk(seq) \subseteq Preset
           /\ IsFiniteSet(OnDisk(seq))
           /\ \A p, q \in OnDisk(seq) : p.id = q.id => p = q
           /\ {p.id : p \in OnDisk(seq)} = Ids(seq)
           /\ \A p \in OnDisk(seq) : \E i \in DOMAIN seq : p.used <= seq[i].used
<1> DEFINE D(i) == [seq[i] EXCEPT !.used = Seconds(@)]
           d == [i \in DOMAIN seq |-> D(i)]
<1>1. DOMAIN seq = 1 .. Len(seq) /\ Len(seq) \in Nat /\ \A i \in DOMAIN seq : seq[i] \in Preset
  <2> HIDE DEF Preset
  <2> QED
    OBVIOUS
<1>2. \A t \in Nat : Seconds(t) \in Nat /\ Seconds(t) <= t
  BY DEF Seconds
<1>3. ASSUME NEW i \in DOMAIN seq
      PROVE  D(i) \in Preset /\ D(i).id = seq[i].id /\ D(i).used <= seq[i].used
  BY <1>1, <1>2 DEF Preset
<1> HIDE DEF D
<1>4. OnDisk(seq) = {D(i) : i \in DOMAIN seq}
  BY DEF OnDisk, D
<1>5. IsFiniteSet(OnDisk(seq))
  <2>1. d \in Surjection(DOMAIN seq, OnDisk(seq))
    BY <1>4 DEF Surjection
  <2>2. IsFiniteSet(DOMAIN seq)
    BY <1>1, FS_Interval
  <2> HIDE DEF d
  <2> QED
    BY <2>1, <2>2, FS_Surjection
<1>6. \A i, j \in DOMAIN seq : seq[i].id = seq[j].id => i = j
  BY IdSeqElements DEF IsInjective
<1>7. \A p, q \in OnDisk(seq) : p.id = q.id => p = q
  BY <1>3, <1>4, <1>6
<1>8. {p.id : p \in OnDisk(seq)} = Ids(seq)
  BY <1>3, <1>4 DEF Ids
<1> QED
  BY <1>3, <1>4, <1>5, <1>7, <1>8

\* A sequence of the file's presets holds all of them.
LEMMA SetToSeqsElements ==
    ASSUME NEW T, IsFiniteSet(T), NEW seq \in SetToSeqs(T)
    PROVE  /\ seq \in Seq(T)
           /\ ToSet(seq) = T
           /\ IsInjective(seq)
<1> DEFINE n == Cardinality(T)
<1>1. n \in Nat
  BY FS_CardinalityType
<1>2. seq \in [1 .. n -> T] /\ \A i, j \in 1 .. n : i # j => seq[i] # seq[j]
  BY DEF SetToSeqs
<1>3. seq \in Injection(1 .. n, T)
  BY <1>2 DEF Injection, IsInjective
<1>4. Cardinality(1 .. n) = n
  BY <1>1, FS_Interval
<1>5. seq \in Surjection(1 .. n, T)
  BY <1>3, <1>4, FS_Injection
<1> HIDE DEF n
<1>6. seq \in Seq(T) /\ DOMAIN seq = 1 .. n
  BY <1>1, <1>2
<1> QED
  BY <1>2, <1>5, <1>6 DEF Surjection, IsInjective, ToSet

(***************************************************************************)
(* The file.  A save that no other one overtook writes what the window     *)
(* holds; one that was overtaken still leaves groups with ids of their own *)
(* and times that have been.                                               *)
(***************************************************************************)
FilePreset == [id : Nat, place : Places \cup {None}, favorite : BOOLEAN, used : Nat]
File == [presets : SUBSET FilePreset, order : Seq(Nat)]

\* Groups of the file: finitely many, one for each id, none used later than `time`.
Groups(set, time) ==
    /\ IsFiniteSet(set)
    /\ \A p, q \in set : p.id = q.id => p = q
    /\ \A p \in set : p.used <= time

LEMMA PresetsOnFile == Preset \subseteq FilePreset
BY DEF Preset, FilePreset

LEMMA GroupIsThere ==
    ASSUME NEW file \in File, NEW id \in Nat, Groups(file.presets, now), now \in Nat
    PROVE  /\ Group(file, id) \in FilePreset
           /\ Group(file, id).used <= now
<1>1. file.presets \subseteq FilePreset
  BY DEF File
<1>2. CASE id \in IdsOn(file)
  <2>1. \E p \in file.presets : p.id = id
    BY <1>2 DEF IdsOn
  <2>2. Group(file, id) \in file.presets
    BY <1>2, <2>1 DEF Group
  <2> QED
    BY <1>1, <2>2 DEF Groups
<1>3. CASE id \notin IdsOn(file)
  <2>1. Group(file, id) = NewPreset(id, None, Never)
    BY <1>3 DEF Group
  <2>2. NewPreset(id, None, Never) \in FilePreset /\ NewPreset(id, None, Never).used = 0
    BY DEF NewPreset, Never, FilePreset
  <2> QED
    BY <2>1, <2>2
<1> QED
  BY <1>2, <1>3

\* One group after a sync().
LEMMA MergedPresetType ==
    ASSUME NEW file \in File, NEW old \in File, NEW p \in Preset, p.used <= now,
           Groups(file.presets, now), Groups(old.presets, now), now \in Nat
    PROVE  /\ MergedPreset(file, old, p) \in FilePreset
           /\ MergedPreset(file, old, p).id = p.id
           /\ MergedPreset(file, old, p).used <= now
<1> DEFINE f == Group(file, p.id)
           o == Group(old, p.id)
           m == MergedPreset(file, old, p)
<1>1. p \in FilePreset /\ p.id \in Nat /\ p.place \in Places /\ p.used \in Nat
  BY PresetsOnFile DEF Preset
<1>2. f \in FilePreset /\ f.used <= now
  BY <1>1, GroupIsThere
<1> HIDE DEF f
<1>3. f.place \in Places \cup {None} /\ f.used \in Nat
  BY <1>2 DEF FilePreset
<1>4. f.favorite \in BOOLEAN /\ p.favorite \in BOOLEAN
  <2>1. \A q \in FilePreset : q.favorite \in BOOLEAN
    BY DEF FilePreset
  <2> QED
    BY <1>1, <1>2, <2>1
<1>5. CASE p.id \notin IdsOn(old)
  BY <1>1, <1>5 DEF MergedPreset
<1>6. CASE p.id \in IdsOn(old)
  <2> DEFINE place == Newer(p.place, o.place, f.place)
             fav == Newer(p.favorite, o.favorite, f.favorite)
             used == Newer(p.used, o.used, f.used)
  <2>1. MergedPreset(file, old, p) = [id |-> p.id, place |-> place, favorite |-> fav, used |-> used]
    BY <1>6 DEF MergedPreset, f
  <2>2. place \in Places \cup {None}
    BY <1>1, <1>3 DEF Newer
  <2>3. fav \in BOOLEAN
    BY <1>4, Zenon DEF Newer
  <2>4. used \in Nat /\ used <= now
    BY <1>1, <1>2, <1>3 DEF Newer
  <2> HIDE DEF place, fav, used
  <2>5. MergedPreset(file, old, p) \in FilePreset
    BY <1>1, <2>1, <2>2, <2>3, <2>4 DEF FilePreset
  <2>6. MergedPreset(file, old, p).id = p.id /\ MergedPreset(file, old, p).used = used
    BY <2>1
  <2> QED
    BY <2>4, <2>5, <2>6
<1> QED
  BY <1>5, <1>6

\* The presets of the file after a sync().
LEMMA MergedIsSound ==
    ASSUME NEW file \in File, NEW old \in File, NEW mine \in SUBSET Preset, NEW ids \in Seq(Nat),
           Groups(file.presets, now), Groups(old.presets, now), Groups(mine, now), now \in Nat
    PROVE  /\ MergedFile(file, old, mine, ids) \in File
           /\ Groups(MergedFile(file, old, mine, ids).presets, now)
<1> DEFINE kept == {p \in file.presets : p.id \notin IdsOn(old) \cup {q.id : q \in mine}}
           written == {p \in mine : p \notin old.presets \/ p.id \in IdsOn(file)}
           M(p) == MergedPreset(file, old, p)
           new == {M(p) : p \in written}
           order1 == Newer(ids, old.order, file.order)
<1>1. MergedFile(file, old, mine, ids) = [presets |-> kept \cup new, order |-> order1]
  BY DEF MergedFile
<1>2. file.presets \subseteq FilePreset /\ file.order \in Seq(Nat) /\ old.order \in Seq(Nat)
  BY DEF File
<1>3. ASSUME NEW p \in written PROVE M(p) \in FilePreset /\ M(p).id = p.id /\ M(p).used <= now
  <2>1. p \in Preset /\ p.used <= now
    <3> HIDE DEF Preset
    <3> QED
      BY DEF Groups
  <2> QED
    BY <2>1, MergedPresetType
<1> HIDE DEF M
<1>4. order1 \in Seq(Nat)
  BY <1>2 DEF Newer
<1>5. kept \cup new \subseteq FilePreset
  BY <1>2, <1>3
<1>6. IsFiniteSet(kept \cup new)
  <2> DEFINE m == [p \in written |-> M(p)]
  <2>1. IsFiniteSet(kept) /\ IsFiniteSet(written)
    BY FS_Subset DEF Groups
  <2>2. m \in Surjection(written, new)
    BY DEF Surjection
  <2> HIDE DEF m, kept, written, new
  <2>3. IsFiniteSet(new)
    BY <2>1, <2>2, FS_Surjection
  <2> QED
    BY <2>1, <2>3, FS_Union
<1>7. \A p, q \in kept \cup new : p.id = q.id => p = q
  <2>1. \A p \in new : \E q \in written : p = M(q) /\ p.id = q.id
    BY <1>3
  <2>2. \A p \in kept, q \in new : p.id # q.id
    BY <2>1
  <2>3. \A p, q \in kept : p.id = q.id => p = q
    BY DEF Groups
  <2>4. \A p, q \in new : p.id = q.id => p = q
    <3>1. \A p, q \in written : p.id = q.id => p = q
      BY DEF Groups
    <3> HIDE DEF written, new
    <3> QED
      BY <2>1, <3>1
  <2> HIDE DEF kept, new
  <2> QED
    BY <2>2, <2>3, <2>4
<1>8. \A p \in kept \cup new : p.used <= now
  BY <1>3 DEF Groups
<1> HIDE DEF kept, new, order1
<1>9. Groups(kept \cup new, now)
  BY <1>6, <1>7, <1>8 DEF Groups
<1>10. [presets |-> kept \cup new, order |-> order1] \in File
  BY <1>4, <1>5 DEF File
<1> QED
  BY <1>1, <1>9, <1>10

\* A sync() that finds the file as it was opened.
LEMMA MergedIsWhole ==
    ASSUME NEW file \in File, NEW mine \in SUBSET Preset, NEW ids \in Seq(Nat)
    PROVE  MergedFile(file, file, mine, ids) = [presets |-> mine, order |-> ids]
<1> DEFINE kept == {p \in file.presets : p.id \notin IdsOn(file) \cup {q.id : q \in mine}}
           written == {p \in mine : p \notin file.presets \/ p.id \in IdsOn(file)}
<1>1. kept = {}
  BY DEF IdsOn
<1>2. written = mine
  BY DEF IdsOn
<1>3. ASSUME NEW p \in mine PROVE MergedPreset(file, file, p) = p
  <2>1. p = [id |-> p.id, place |-> p.place, favorite |-> p.favorite, used |-> p.used]
    BY DEF Preset
  <2>2. \A x, y : Newer(x, y, y) = x
    BY DEF Newer
  <2>3. CASE p.id \notin IdsOn(file)
    BY <2>3 DEF MergedPreset
  <2>4. CASE p.id \in IdsOn(file)
    <3> DEFINE g == Group(file, p.id)
    <3>1. MergedPreset(file, file, p)
             = [id |-> p.id, place |-> Newer(p.place, g.place, g.place),
                favorite |-> Newer(p.favorite, g.favorite, g.favorite),
                used |-> Newer(p.used, g.used, g.used)]
      BY <2>4 DEF MergedPreset
    <3>2. /\ Newer(p.place, g.place, g.place) = p.place
          /\ Newer(p.favorite, g.favorite, g.favorite) = p.favorite
          /\ Newer(p.used, g.used, g.used) = p.used
      BY <2>2, Zenon
    <3> QED
      BY <2>1, <3>1, <3>2, Zenon
  <2> QED
    BY <2>3, <2>4
<1>4. {MergedPreset(file, file, p) : p \in mine} = mine
  BY <1>3
<1>5. Newer(ids, file.order, file.order) = ids
  BY DEF Newer
<1>6. MergedFile(file, file, mine, ids)
         = [presets |-> kept \cup {MergedPreset(file, file, p) : p \in written},
            order |-> Newer(ids, file.order, file.order)]
  BY DEF MergedFile
<1> HIDE DEF kept, written
<1> QED
  BY <1>1, <1>2, <1>4, <1>5, <1>6

(***************************************************************************)
(* The inductive invariant.  In the memory of every window, in the file    *)
(* and in what the saves have read of it the ids are unique and nothing    *)
(* was used later than now; the order of a window names its presets; no    *)
(* order names anything else as long as no two saves have overlapped; a    *)
(* closed window holds nothing; the window that wrote a group last is      *)
(* open, and the group is what it holds.                                   *)
(***************************************************************************)
PresetsType ==
    /\ isOpen \in [Windows -> BOOLEAN]
    /\ inSave \in [Windows -> BOOLEAN]
    /\ presets \in [Windows -> Seq(Preset)]
    /\ order \in [Windows -> Seq(Nat)]
    /\ opened \in [Windows -> File]
    /\ presetFile \in File
    /\ now \in Nat

Orderly(seq, ids) == IsInjective(IdSeq(seq)) /\ Ids(seq) \subseteq ToSet(ids)

Exact(set, ids) == IsInjective(ids) /\ ToSet(ids) \subseteq set

UsedBefore(seq, time) == \A i \in DOMAIN seq : seq[i].used <= time

InMemory ==
    \A w \in Windows :
        /\ Orderly(presets[w], order[w])
        /\ ~torn => Exact(Ids(presets[w]), order[w])
        /\ UsedBefore(presets[w], now)
        /\ ~isOpen[w] => presets[w] = <<>> /\ order[w] = <<>> /\ ~inSave[w]

OnFile ==
    /\ Groups(presetFile.presets, now)
    /\ \A w \in Windows : Groups(opened[w].presets, now)
    /\ ~torn => /\ Exact(IdsOn(presetFile), presetFile.order)
                /\ presetFile.presets \subseteq Preset

PresetFileFollows ==
    presetWriter # None =>
        /\ presetWriter \in Windows /\ isOpen[presetWriter]
        /\ presetFile.presets = OnDisk(presets[presetWriter])
        /\ presetFile.order = order[presetWriter]

PresetsInv == PresetsType /\ InMemory /\ OnFile /\ PresetFileFollows

HistoryInv ==
    /\ local \in [Windows -> Seq(Commands)]
    /\ toRecord \in [Windows -> Commands \cup {None}]
    /\ historyFile \in Seq(Commands)
    /\ historyWriter # None =>
         /\ historyWriter \in Windows /\ isOpen[historyWriter]
         /\ historyFile = local[historyWriter]

StoreInv == PresetsInv /\ HistoryInv

\* The presets of a window, as its steps find them.
LEMMA WindowIsOrderly ==
    ASSUME PresetsInv, NEW w \in Windows
    PROVE  /\ presets[w] \in Seq(Preset) /\ order[w] \in Seq(Nat)
           /\ Orderly(presets[w], order[w])
           /\ ~torn => Exact(Ids(presets[w]), order[w])
           /\ UsedBefore(presets[w], now) /\ now \in Nat
<1>1. presets[w] \in Seq(Preset) /\ order[w] \in Seq(Nat)
  <2> HIDE DEF Preset
  <2> QED
    BY DEF PresetsInv, PresetsType
<1> QED
  BY <1>1 DEF PresetsInv, PresetsType, InMemory

\* Nothing that was used before is used later than a later now.
LEMMA LaterNow ==
    ASSUME now \in Nat, now' \in Nat, now <= now'
    PROVE  /\ \A s \in Seq(Preset) : UsedBefore(s, now) => UsedBefore(s, now')
           /\ \A set \in SUBSET FilePreset : Groups(set, now) => Groups(set, now')
<1>1. ASSUME NEW s \in Seq(Preset), UsedBefore(s, now), NEW i \in DOMAIN s
      PROVE  s[i].used <= now'
  <2>1. s[i] \in Preset
    <3> HIDE DEF Preset
    <3> QED
      OBVIOUS
  <2>2. s[i].used \in Nat
    BY <2>1 DEF Preset
  <2> QED
    BY <1>1, <2>2 DEF UsedBefore
<1>2. ASSUME NEW set \in SUBSET FilePreset, Groups(set, now), NEW p \in set
      PROVE  p.used <= now'
  <2>1. p.used \in Nat
    BY DEF FilePreset
  <2> QED
    BY <1>2, <2>1 DEF Groups
<1>3. \A s \in Seq(Preset) : UsedBefore(s, now) => UsedBefore(s, now')
  BY <1>1 DEF UsedBefore
<1>4. \A set \in SUBSET FilePreset : Groups(set, now) => Groups(set, now')
  BY <1>2 DEF Groups
<1> QED
  BY <1>3, <1>4

\* A save of an orderly list keeps the invariant, whatever the window held before.
LEMMA SaveKeepsPresets ==
    ASSUME PresetsInv,
           NEW w \in Windows, isOpen[w],
           NEW seq \in Seq(Preset), NEW ids \in Seq(Nat), Orderly(seq, ids), ~torn => Exact(Ids(seq), ids),
           UsedBefore(seq, now),
           NEW command, Save(w, seq, ids, command), isOpen' = isOpen, now' \in Nat, now <= now'
    PROVE  PresetsInv'
<1> USE DEF PresetsInv
<1>1. /\ presets' = [presets EXCEPT ![w] = seq]
      /\ order' = [order EXCEPT ![w] = ids]
      /\ inSave' = [inSave EXCEPT ![w] = TRUE]
      /\ opened' = [opened EXCEPT ![w] = presetFile]
      /\ presetWriter' = IF presetWriter = w THEN None ELSE presetWriter
      /\ presetFile' = presetFile /\ UNCHANGED torn
  BY DEF Save
<1>2. /\ presets'[w] = seq /\ order'[w] = ids /\ opened'[w] = presetFile
      /\ \A v \in Windows \ {w} : /\ presets'[v] = presets[v] /\ order'[v] = order[v]
                                  /\ opened'[v] = opened[v] /\ inSave'[v] = inSave[v]
  BY <1>1 DEF PresetsType
<1>3. now \in Nat /\ \A v \in Windows : presets[v] \in Seq(Preset)
  BY WindowIsOrderly DEF PresetsType
<1>4. /\ \A s \in Seq(Preset) : UsedBefore(s, now) => UsedBefore(s, now')
      /\ \A set \in SUBSET FilePreset : Groups(set, now) => Groups(set, now')
  BY <1>3, LaterNow
<1>5. PresetsType'
  <2>1. presets' \in [Windows -> Seq(Preset)] /\ order' \in [Windows -> Seq(Nat)]
    <3> HIDE DEF Preset
    <3> QED
      BY <1>1 DEF PresetsType
  <2>2. inSave' \in [Windows -> BOOLEAN]
    BY <1>1 DEF PresetsType
  <2>3. opened' \in [Windows -> File]
    BY <1>1 DEF PresetsType
  <2> QED
    BY <1>1, <2>1, <2>2, <2>3 DEF PresetsType
<1>7. InMemory'
  <2> SUFFICES ASSUME NEW v \in Windows
               PROVE  /\ Orderly(presets'[v], order'[v])
                      /\ ~torn => Exact(Ids(presets'[v]), order'[v])
                      /\ UsedBefore(presets'[v], now')
                      /\ ~isOpen[v] => presets'[v] = <<>> /\ order'[v] = <<>> /\ ~inSave'[v]
    BY <1>1, Zenon DEF InMemory
  <2>1. CASE v = w
    BY <1>2, <1>4, <2>1
  <2>2. CASE v # w
    BY <1>2, <1>3, <1>4, <2>2 DEF InMemory
  <2> QED
    BY <2>1, <2>2
<1>8. OnFile'
  BY <1>1, <1>2, <1>4 DEF OnFile, File, PresetsType
<1>9. PresetFileFollows'
  BY <1>1, <1>2 DEF PresetFileFollows
<1> QED
  BY <1>5, <1>7, <1>8, <1>9

\* A step that leaves the presets and their group alone.
LEMMA QuietKeepsPresets ==
    ASSUME PresetsInv, UNCHANGED <<presetVars, isOpen>>, now' \in Nat, now <= now'
    PROVE  PresetsInv'
<1> USE DEF PresetsInv
<1>1. /\ presets' = presets /\ order' = order /\ presetFile' = presetFile /\ presetWriter' = presetWriter
      /\ inSave' = inSave /\ opened' = opened /\ UNCHANGED torn
  BY DEF presetVars
<1>2. PresetsType'
  BY <1>1 DEF PresetsType
<1>3. now \in Nat /\ \A v \in Windows : presets[v] \in Seq(Preset)
  BY WindowIsOrderly DEF PresetsType
<1>4. /\ \A s \in Seq(Preset) : UsedBefore(s, now) => UsedBefore(s, now')
      /\ \A set \in SUBSET FilePreset : Groups(set, now) => Groups(set, now')
  BY <1>3, LaterNow
<1>5. InMemory'
  BY <1>1, <1>3, <1>4 DEF InMemory
<1>6. OnFile'
  BY <1>1, <1>4 DEF OnFile, File, PresetsType
<1>7. PresetFileFollows'
  BY <1>1 DEF PresetFileFollows
<1> QED
  BY <1>2, <1>5, <1>6, <1>7

\* sync(): if the file is as the save found it, it becomes what the window holds; if not, the
\* two are merged, and it is only sound.
LEMMA SyncedKeepsPresets ==
    ASSUME PresetsInv, NEW w \in Windows, NEW done, Synced(w, done)
    PROVE  PresetsInv'
<1> DEFINE mine == OnDisk(presets[w])
           old == opened[w]
           merged == MergedFile(presetFile, old, mine, order[w])
<1>1. /\ inSave[w] /\ inSave' = [inSave EXCEPT ![w] = FALSE]
      /\ opened' = [opened EXCEPT ![w] = EmptyFile]
      /\ isOpen' = isOpen /\ presets' = presets /\ order' = order /\ now' = now
  BY DEF Synced
<1>2. /\ presets[w] \in Seq(Preset) /\ order[w] \in Seq(Nat)
      /\ Orderly(presets[w], order[w]) /\ UsedBefore(presets[w], now) /\ now \in Nat
  BY WindowIsOrderly
<1>3. ~torn => Exact(Ids(presets[w]), order[w])
  BY WindowIsOrderly
<1>4. isOpen[w] /\ presetFile \in File /\ old \in File
  BY <1>1 DEF PresetsInv, PresetsType, InMemory
<1>5. Groups(presetFile.presets, now) /\ Groups(old.presets, now)
  BY DEF PresetsInv, OnFile
<1>6. mine \subseteq Preset /\ Groups(mine, now) /\ {p.id : p \in mine} = Ids(presets[w])
  <2>1. /\ mine \subseteq Preset
        /\ IsFiniteSet(mine)
        /\ \A p, q \in mine : p.id = q.id => p = q
        /\ {p.id : p \in mine} = Ids(presets[w])
        /\ \A p \in mine : \E i \in DOMAIN presets[w] : p.used <= presets[w][i].used
    <3> HIDE DEF Preset
    <3> QED
      BY <1>2, OnDiskPresets DEF Orderly
  <2> HIDE DEF mine
  <2>2. ASSUME NEW p \in mine PROVE p.used <= now
    <3>1. PICK i \in DOMAIN presets[w] : p.used <= presets[w][i].used
      BY <2>1
    <3>2. presets[w][i] \in Preset /\ p \in Preset
      <4> HIDE DEF Preset
      <4> QED
        BY <1>2, <2>1
    <3>3. presets[w][i].used \in Nat /\ p.used \in Nat
      BY <3>2 DEF Preset
    <3>4. presets[w][i].used <= now
      BY <1>2 DEF UsedBefore
    <3> QED
      BY <1>2, <3>1, <3>3, <3>4
  <2> QED
    BY <2>1, <2>2 DEF Groups
<1> HIDE DEF mine
<1>7. merged \in File /\ Groups(merged.presets, now)
  BY <1>2, <1>4, <1>5, <1>6, MergedIsSound
<1>8. presetFile = old => merged = [presets |-> mine, order |-> order[w]]
  BY <1>2, <1>4, <1>6, MergedIsWhole
<1>9. \/ presetFile' = presetFile /\ presetWriter' = presetWriter /\ UNCHANGED torn
      \/ /\ presetFile' = merged
         /\ presetWriter' = IF presetFile = old THEN w ELSE None
         /\ presetFile # old => torn'
         /\ torn => torn'
  BY Zenon DEF Synced, mine
<1> HIDE DEF merged, old
<1>10. torn => torn'
  BY <1>9
<1>11. /\ EmptyFile \in File /\ Groups(EmptyFile.presets, now)
  BY FS_EmptySet DEF EmptyFile, File, Groups
<1>12. PresetsType'
  <2>1. inSave' \in [Windows -> BOOLEAN]
    BY <1>1 DEF PresetsInv, PresetsType
  <2>2. opened' \in [Windows -> File]
    BY <1>1, <1>11 DEF PresetsInv, PresetsType
  <2>3. presetFile' \in File
    BY <1>4, <1>7, <1>9
  <2> QED
    BY <1>1, <2>1, <2>2, <2>3 DEF PresetsInv, PresetsType
<1>13. InMemory'
  <2>1. \A v \in Windows : inSave'[v] => inSave[v]
    BY <1>1 DEF PresetsInv, PresetsType
  <2> QED
    BY <1>1, <1>10, <2>1 DEF PresetsInv, InMemory
<1>14. OnFile'
  <2>1. Groups(presetFile'.presets, now)
    BY <1>5, <1>7, <1>9
  <2>2. \A v \in Windows : Groups(opened'[v].presets, now)
    BY <1>1, <1>11 DEF PresetsInv, PresetsType, OnFile
  <2>3. ASSUME ~torn' PROVE Exact(IdsOn(presetFile'), presetFile'.order) /\ presetFile'.presets \subseteq Preset
    <3>1. CASE presetFile' = presetFile
      BY <1>10, <2>3, <3>1 DEF PresetsInv, OnFile
    <3>2. CASE presetFile' = merged /\ presetFile = old
      <4>1. presetFile'.presets = mine /\ presetFile'.order = order[w]
        BY <1>8, <3>2
      <4>2. Exact(Ids(presets[w]), order[w])
        BY <1>3, <1>10, <2>3
      <4> QED
        BY <1>6, <4>1, <4>2 DEF IdsOn
    <3> QED
      BY <1>9, <2>3, <3>1, <3>2
  <2> QED
    BY <1>1, <2>1, <2>2, <2>3 DEF OnFile
<1>15. PresetFileFollows'
  <2>1. CASE presetFile' = presetFile /\ presetWriter' = presetWriter
    BY <1>1, <2>1 DEF PresetsInv, PresetFileFollows
  <2>2. CASE presetFile' = merged /\ presetWriter' = IF presetFile = old THEN w ELSE None
    <3> SUFFICES ASSUME presetWriter' # None
                 PROVE  /\ presetWriter' \in Windows /\ isOpen'[presetWriter']
                        /\ presetFile'.presets = OnDisk(presets'[presetWriter'])
                        /\ presetFile'.order = order'[presetWriter']
      BY DEF PresetFileFollows
    <3>1. presetWriter' = w /\ presetFile = old
      BY <2>2
    <3>2. presetFile'.presets = OnDisk(presets[w]) /\ presetFile'.order = order[w]
      BY <1>8, <2>2, <3>1 DEF mine
    <3> QED
      BY <1>1, <1>4, <3>1, <3>2
  <2> QED
    BY <1>9, <2>1, <2>2
<1> QED
  BY <1>12, <1>13, <1>14, <1>15 DEF PresetsInv

\* A window that opens reads presets whose ids are unique, and completes the order.
LEMMA OpenKeepsPresets ==
    ASSUME PresetsInv, NEW w \in Windows, OpenWindow(w)
    PROVE  PresetsInv'
<1> DEFINE F == {p \in presetFile.presets : p.place # None}
           O == presetFile.order
<1>1. PICK seq \in SetToSeqs(F) :
         /\ presets' = [presets EXCEPT ![w] = seq]
         /\ order' = [order EXCEPT ![w] = O \o Without(IdSeq(seq), ToSet(O))]
  BY DEF OpenWindow, IdSeq
<1>2. /\ ~isOpen[w] /\ isOpen' = [isOpen EXCEPT ![w] = TRUE]
      /\ presetFile' = presetFile /\ now' = now /\ presetWriter' = presetWriter
      /\ inSave' = inSave /\ opened' = opened /\ UNCHANGED torn
  BY DEF OpenWindow
<1>3. /\ isOpen \in [Windows -> BOOLEAN] /\ presetFile.presets \subseteq FilePreset /\ O \in Seq(Nat)
      /\ now \in Nat /\ Groups(presetFile.presets, now)
  BY DEF PresetsInv, PresetsType, OnFile, File
<1>4. /\ presets \in [Windows -> Seq(Preset)] /\ order \in [Windows -> Seq(Nat)]
  BY DEF PresetsInv, PresetsType
<1>5. F \subseteq Preset
  BY <1>3 DEF FilePreset, Preset
<1>6. IsFiniteSet(F) /\ (\A p, q \in F : p.id = q.id => p = q) /\ (\A p \in F : p.used <= now)
  BY <1>3, FS_Subset DEF Groups
<1>7. ASSUME ~torn PROVE F = presetFile.presets
  <2>1. presetFile.presets \subseteq Preset
    BY <1>7 DEF PresetsInv, OnFile
  <2>2. \A p \in Preset : p.place # None
    BY NoneIsNothing DEF Preset
  <2> QED
    BY <2>1, <2>2
<1> DEFINE ids == O \o Without(IdSeq(seq), ToSet(O))
<1> HIDE DEF F
<1>8. seq \in Seq(Preset) /\ ToSet(seq) = F /\ IsInjective(seq)
  <2>1. seq \in Seq(F) /\ ToSet(seq) = F /\ IsInjective(seq)
    BY <1>6, SetToSeqsElements
  <2> HIDE DEF Preset
  <2> QED
    BY <1>5, <2>1
<1> HIDE DEF O
<1>9. Ids(seq) = {p.id : p \in F}
  <2>1. Ids(seq) = {p.id : p \in ToSet(seq)}
    BY DEF Ids, ToSet
  <2> QED
    BY <1>8, <2>1
<1>10. IsInjective(IdSeq(seq))
  <2>1. \A i, j \in DOMAIN seq : seq[i].id = seq[j].id => i = j
    <3>1. \A i \in DOMAIN seq : seq[i] \in F
      BY <1>8 DEF ToSet
    <3>2. \A i, j \in DOMAIN seq : seq[i] = seq[j] => i = j
      BY <1>8 DEF IsInjective
    <3> QED
      BY <1>6, <3>1, <3>2
  <2> QED
    BY <1>8, <2>1, IdSeqElements DEF IsInjective
<1>11. /\ ids \in Seq(Nat) /\ Ids(seq) \subseteq ToSet(ids)
       /\ ~torn => Exact(Ids(seq), ids)
  <2> DEFINE more == Without(IdSeq(seq), ToSet(O))
  <2>1. IdSeq(seq) \in Seq(Nat) /\ ToSet(IdSeq(seq)) = Ids(seq)
    BY <1>8, IdSeqElements
  <2>2. more \in Seq(Nat) /\ ToSet(more) = Ids(seq) \ ToSet(O) /\ IsInjective(more)
    BY <1>10, <2>1, WithoutElements
  <2> HIDE DEF more
  <2>3. O \o more \in Seq(Nat) /\ ToSet(O \o more) = ToSet(O) \cup ToSet(more)
    BY <1>3, <2>2, ConcatElements
  <2>4. ASSUME ~torn PROVE IsInjective(O \o more) /\ ToSet(O) \subseteq Ids(seq)
    <3>1. Exact(IdsOn(presetFile), O)
      BY <2>4 DEF PresetsInv, OnFile, O
    <3>2. ToSet(O) \subseteq Ids(seq) /\ IsInjective(O)
      BY <1>7, <1>9, <2>4, <3>1 DEF Exact, IdsOn
    <3>3. IsInjective(O \o more)
      BY <1>3, <2>2, <3>2, ConcatElements
    <3> QED
      BY <3>2, <3>3
  <2>5. Ids(seq) \subseteq ToSet(O \o more)
    BY <2>2, <2>3
  <2>6. ~torn => Exact(Ids(seq), O \o more)
    BY <2>2, <2>3, <2>4 DEF Exact
  <2> QED
    BY <2>3, <2>5, <2>6 DEF more
<1>12. UsedBefore(seq, now)
  BY <1>6, <1>8 DEF UsedBefore, ToSet
<1> HIDE DEF ids
<1>13. /\ presets'[w] = seq /\ order'[w] = ids /\ isOpen'[w]
       /\ \A v \in Windows \ {w} : presets'[v] = presets[v] /\ order'[v] = order[v] /\ isOpen'[v] = isOpen[v]
  BY <1>1, <1>2, <1>3, <1>4 DEF ids
<1>14. PresetsType'
  <2>1. presets' \in [Windows -> Seq(Preset)] /\ order' \in [Windows -> Seq(Nat)]
    <3> HIDE DEF Preset
    <3> QED
      BY <1>1, <1>4, <1>8, <1>11 DEF ids
  <2>2. isOpen' \in [Windows -> BOOLEAN]
    BY <1>2, <1>3
  <2> QED
    BY <1>2, <2>1, <2>2 DEF PresetsInv, PresetsType
<1>15. InMemory'
  <2> SUFFICES ASSUME NEW v \in Windows
               PROVE  /\ Orderly(presets'[v], order'[v])
                      /\ ~torn => Exact(Ids(presets'[v]), order'[v])
                      /\ UsedBefore(presets'[v], now)
                      /\ ~isOpen'[v] => presets'[v] = <<>> /\ order'[v] = <<>> /\ ~inSave[v]
    BY <1>2, Zenon DEF InMemory
  <2>1. CASE v = w
    BY <1>10, <1>11, <1>12, <1>13, <2>1 DEF Orderly
  <2>2. CASE v # w
    BY <1>13, <2>2 DEF PresetsInv, InMemory
  <2> QED
    BY <2>1, <2>2
<1>16. OnFile'
  BY <1>2 DEF PresetsInv, OnFile
<1>17. PresetFileFollows'
  BY <1>2, <1>13 DEF PresetsInv, PresetFileFollows
<1> QED
  BY <1>14, <1>15, <1>16, <1>17 DEF PresetsInv

LEMMA CloseKeepsPresets ==
    ASSUME PresetsInv, NEW w \in Windows, CloseWindow(w)
    PROVE  PresetsInv'
<1>1. /\ isOpen' = [isOpen EXCEPT ![w] = FALSE]
      /\ presets' = [presets EXCEPT ![w] = <<>>]
      /\ order' = [order EXCEPT ![w] = <<>>]
      /\ inSave' = [inSave EXCEPT ![w] = FALSE]
      /\ opened' = [opened EXCEPT ![w] = EmptyFile]
      /\ presetWriter' = IF presetWriter = w THEN None ELSE presetWriter
      /\ presetFile' = presetFile /\ now' = now /\ UNCHANGED torn
  BY DEF CloseWindow
<1>2. /\ isOpen \in [Windows -> BOOLEAN] /\ inSave \in [Windows -> BOOLEAN]
      /\ presets \in [Windows -> Seq(Preset)] /\ order \in [Windows -> Seq(Nat)]
      /\ opened \in [Windows -> File]
  BY DEF PresetsInv, PresetsType
<1>3. /\ presets'[w] = <<>> /\ order'[w] = <<>> /\ ~isOpen'[w] /\ ~inSave'[w]
      /\ opened'[w] = EmptyFile
      /\ \A v \in Windows \ {w} : /\ presets'[v] = presets[v] /\ order'[v] = order[v] /\ isOpen'[v] = isOpen[v]
                                  /\ inSave'[v] = inSave[v] /\ opened'[v] = opened[v]
  BY <1>1, <1>2
<1>4. EmptyFile \in File /\ Groups(EmptyFile.presets, now)
  BY FS_EmptySet DEF EmptyFile, File, Groups
<1>5. PresetsType'
  <2>1. presets' \in [Windows -> Seq(Preset)] /\ order' \in [Windows -> Seq(Nat)]
    <3> HIDE DEF Preset
    <3> QED
      BY <1>1, <1>2
  <2>2. isOpen' \in [Windows -> BOOLEAN] /\ inSave' \in [Windows -> BOOLEAN]
    BY <1>1, <1>2
  <2>3. opened' \in [Windows -> File]
    BY <1>1, <1>2, <1>4
  <2> QED
    BY <1>1, <2>1, <2>2, <2>3 DEF PresetsInv, PresetsType
<1>6. InMemory'
  <2> SUFFICES ASSUME NEW v \in Windows
               PROVE  /\ Orderly(presets'[v], order'[v])
                      /\ ~torn => Exact(Ids(presets'[v]), order'[v])
                      /\ UsedBefore(presets'[v], now)
                      /\ ~isOpen'[v] => presets'[v] = <<>> /\ order'[v] = <<>> /\ ~inSave'[v]
    BY <1>1, Zenon DEF InMemory
  <2>1. CASE v = w
    BY <1>3, <2>1 DEF Orderly, Exact, UsedBefore, IdSeq, Ids, ToSet, IsInjective
  <2>2. CASE v # w
    BY <1>3, <2>2 DEF PresetsInv, InMemory
  <2> QED
    BY <2>1, <2>2
<1>7. OnFile'
  BY <1>1, <1>3, <1>4 DEF PresetsInv, OnFile
<1>8. PresetFileFollows'
  BY <1>1, <1>3 DEF PresetsInv, PresetFileFollows
<1> QED
  BY <1>5, <1>6, <1>7, <1>8 DEF PresetsInv

(***************************************************************************)
(* What the user does with the presets.                                    *)
(***************************************************************************)
LEMMA AddKeepsPresets ==
    ASSUME PresetsInv, NEW w \in Windows, isOpen[w], NEW place \in Places, Add(w, place)
    PROVE  PresetsInv'
<1> DEFINE id == NextId(presets[w])
           p == NewPreset(id, place, Never)
           seq == Append(presets[w], p)
           ids == Append(order[w], id)
<1>1. Save(w, seq, ids, None) /\ isOpen' = isOpen /\ now' = now
  BY DEF Add
<1>2. /\ presets[w] \in Seq(Preset) /\ order[w] \in Seq(Nat)
      /\ Orderly(presets[w], order[w]) /\ UsedBefore(presets[w], now) /\ now \in Nat
  BY WindowIsOrderly
<1>3. id \in Nat /\ id \notin Ids(presets[w])
  BY <1>2, NextIdIsNew
<1>4. p \in Preset /\ p.id = id /\ p.used = 0
  <2> HIDE DEF id
  <2> QED
    BY <1>3 DEF p, NewPreset, Preset, Never
<1> HIDE DEF id, p
<1>5. seq \in Seq(Preset) /\ IdSeq(seq) = Append(IdSeq(presets[w]), id) /\ Ids(seq) = Ids(presets[w]) \cup {id}
  BY <1>2, <1>4, AppendIds
<1>6. IsInjective(IdSeq(seq))
  <2>1. IdSeq(presets[w]) \in Seq(Nat) /\ id \notin ToSet(IdSeq(presets[w])) /\ IsInjective(IdSeq(presets[w]))
    BY <1>2, <1>3, IdSeqElements DEF Orderly
  <2>2. IsInjective(Append(IdSeq(presets[w]), id))
    BY <1>3, <2>1, AppendElements
  <2> QED
    BY <1>5, <2>2
<1>7. /\ ids \in Seq(Nat) /\ Ids(seq) \subseteq ToSet(ids)
      /\ ~torn => Exact(Ids(seq), ids)
  <2>1. ids \in Seq(Nat) /\ ToSet(ids) = ToSet(order[w]) \cup {id}
    BY <1>2, <1>3, AppendElements
  <2>2. Ids(seq) \subseteq ToSet(ids)
    BY <1>2, <1>5, <2>1 DEF Orderly
  <2>3. ASSUME ~torn PROVE Exact(Ids(seq), ids)
    <3>1. ToSet(order[w]) \subseteq Ids(presets[w]) /\ IsInjective(order[w])
      BY <2>3, WindowIsOrderly DEF Exact
    <3>2. IsInjective(ids)
      BY <1>2, <1>3, <3>1, AppendElements
    <3> QED
      BY <1>5, <2>1, <3>1, <3>2 DEF Exact
  <2> QED
    BY <2>1, <2>2, <2>3
<1>8. UsedBefore(seq, now)
  <2>1. /\ DOMAIN seq = 1 .. Len(presets[w]) + 1 /\ DOMAIN presets[w] = 1 .. Len(presets[w])
        /\ Len(presets[w]) \in Nat
        /\ seq[Len(presets[w]) + 1] = p
        /\ \A i \in DOMAIN presets[w] : seq[i] = presets[w][i]
    BY <1>2, <1>4
  <2>2. \A i \in DOMAIN seq : i \in DOMAIN presets[w] \/ i = Len(presets[w]) + 1
    BY <2>1
  <2> HIDE DEF seq
  <2> QED
    BY <1>2, <1>4, <2>1, <2>2 DEF UsedBefore
<1> HIDE DEF seq, ids
<1>9. Orderly(seq, ids)
  BY <1>6, <1>7 DEF Orderly
<1>10. now' \in Nat /\ now <= now'
  BY <1>1, <1>2
<1> QED
  BY <1>1, <1>5, <1>7, <1>8, <1>9, <1>10, SaveKeepsPresets

LEMMA RemovePresetKeepsPresets ==
    ASSUME PresetsInv, NEW w \in Windows, isOpen[w], NEW id \in Ids(presets[w]), RemovePreset(w, id)
    PROVE  PresetsInv'
<1> DEFINE seq == Except(presets[w], {id})
           ids == Without(order[w], {id})
<1>1. Save(w, seq, ids, None) /\ isOpen' = isOpen /\ now' = now
  BY DEF RemovePreset
<1>2. /\ presets[w] \in Seq(Preset) /\ order[w] \in Seq(Nat)
      /\ Orderly(presets[w], order[w]) /\ UsedBefore(presets[w], now) /\ now \in Nat
  BY WindowIsOrderly
<1>3. /\ seq \in Seq(Preset) /\ IsInjective(IdSeq(seq)) /\ Ids(seq) = Ids(presets[w]) \ {id}
      /\ ToSet(seq) \subseteq ToSet(presets[w])
  BY <1>2, ExceptIds DEF Orderly
<1>4. /\ ids \in Seq(Nat) /\ Ids(seq) \subseteq ToSet(ids)
      /\ ~torn => Exact(Ids(seq), ids)
  <2>1. /\ ids \in Seq(Nat) /\ ToSet(ids) = ToSet(order[w]) \ {id}
        /\ IsInjective(order[w]) => IsInjective(ids)
    BY <1>2, WithoutElements
  <2>2. Ids(seq) \subseteq ToSet(ids)
    BY <1>2, <1>3, <2>1 DEF Orderly
  <2>3. ASSUME ~torn PROVE Exact(Ids(seq), ids)
    BY <1>3, <2>1, <2>3, WindowIsOrderly DEF Exact
  <2> QED
    BY <2>1, <2>2, <2>3
<1> HIDE DEF seq, ids
<1>5. UsedBefore(seq, now)
  BY <1>2, <1>3 DEF UsedBefore, ToSet
<1>6. Orderly(seq, ids)
  BY <1>3, <1>4 DEF Orderly
<1>7. now' \in Nat /\ now <= now'
  BY <1>1, <1>2
<1> QED
  BY <1>1, <1>3, <1>4, <1>5, <1>6, <1>7, SaveKeepsPresets

\* Replacing a preset by one with the same id and the same time of use.
LEMMA ReplaceKeepsPresets ==
    ASSUME PresetsInv, NEW w \in Windows, isOpen[w], NEW r \in DOMAIN presets[w],
           NEW p \in Preset, p.id = presets[w][r].id, p.used = presets[w][r].used,
           Save(w, [presets[w] EXCEPT ![r] = p], order[w], None), isOpen' = isOpen, now' = now
    PROVE  PresetsInv'
<1> DEFINE seq == [presets[w] EXCEPT ![r] = p]
<1>1. /\ presets[w] \in Seq(Preset) /\ order[w] \in Seq(Nat)
      /\ Orderly(presets[w], order[w]) /\ UsedBefore(presets[w], now) /\ now \in Nat
  BY WindowIsOrderly
<1>2. ~torn => Exact(Ids(presets[w]), order[w])
  BY WindowIsOrderly
<1>3. /\ seq \in Seq(Preset)
      /\ Len(seq) = Len(presets[w])
      /\ \A i \in DOMAIN presets[w] : seq[i] = IF i = r THEN p ELSE presets[w][i]
      /\ IdSeq(seq) = IdSeq(presets[w])
      /\ Ids(seq) = Ids(presets[w])
  <2> DEFINE old == presets[w]
  <2>1. old \in Seq(Preset) /\ r \in DOMAIN old /\ p.id = old[r].id
    BY <1>1
  <2> HIDE DEF old
  <2>2. /\ [old EXCEPT ![r] = p] \in Seq(Preset)
        /\ Len([old EXCEPT ![r] = p]) = Len(old)
        /\ \A i \in DOMAIN old : [old EXCEPT ![r] = p][i] = IF i = r THEN p ELSE old[i]
        /\ IdSeq([old EXCEPT ![r] = p]) = IdSeq(old)
        /\ Ids([old EXCEPT ![r] = p]) = Ids(old)
    BY <2>1, ReplaceOne
  <2> QED
    BY <2>2 DEF old
<1>4. DOMAIN seq = DOMAIN presets[w]
  OBVIOUS
<1>5. Save(w, seq, order[w], None)
  OBVIOUS
<1> HIDE DEF seq
<1>6. UsedBefore(seq, now)
  BY <1>1, <1>3, <1>4 DEF UsedBefore
<1>7. Orderly(seq, order[w]) /\ (~torn => Exact(Ids(seq), order[w]))
  BY <1>1, <1>2, <1>3 DEF Orderly
<1> QED
  BY <1>1, <1>3, <1>5, <1>6, <1>7, SaveKeepsPresets

LEMMA UpdateKeepsPresets ==
    ASSUME PresetsInv, NEW w \in Windows, isOpen[w], NEW id \in Ids(presets[w]), NEW place \in Places,
           Update(w, id, place)
    PROVE  PresetsInv'
<1> DEFINE r == Row(presets[w], id)
           p == [presets[w][r] EXCEPT !.place = place]
<1>1. presets[w] \in Seq(Preset)
  BY WindowIsOrderly
<1>2. r \in DOMAIN presets[w]
  BY <1>1, RowIsThere
<1> HIDE DEF r
<1>3. presets[w][r] \in Preset
  <2> HIDE DEF Preset
  <2> QED
    BY <1>1, <1>2
<1>4. p \in Preset /\ p.id = presets[w][r].id /\ p.used = presets[w][r].used
  BY <1>3 DEF Preset
<1>5. Save(w, [presets[w] EXCEPT ![r] = p], order[w], None) /\ isOpen' = isOpen /\ now' = now
  <2>1. [presets[w] EXCEPT ![r] = p] = [presets[w] EXCEPT ![r].place = place]
    OBVIOUS
  <2> QED
    BY <2>1 DEF Update, r
<1> HIDE DEF p
<1> QED
  BY <1>2, <1>4, <1>5, ReplaceKeepsPresets

LEMMA SetFavoriteKeepsPresets ==
    ASSUME PresetsInv, NEW w \in Windows, isOpen[w], NEW id \in Ids(presets[w]), SetFavorite(w, id)
    PROVE  PresetsInv'
<1> DEFINE r == Row(presets[w], id)
           p == [presets[w][r] EXCEPT !.favorite = ~@]
<1>1. presets[w] \in Seq(Preset)
  BY WindowIsOrderly
<1>2. r \in DOMAIN presets[w]
  BY <1>1, RowIsThere
<1> HIDE DEF r
<1>3. presets[w][r] \in Preset
  <2> HIDE DEF Preset
  <2> QED
    BY <1>1, <1>2
<1>4. p \in Preset /\ p.id = presets[w][r].id /\ p.used = presets[w][r].used
  BY <1>3 DEF Preset
<1>5. Save(w, [presets[w] EXCEPT ![r] = p], order[w], None) /\ isOpen' = isOpen /\ now' = now
  <2>1. [presets[w] EXCEPT ![r] = p] = [presets[w] EXCEPT ![r].favorite = ~@]
    OBVIOUS
  <2> QED
    BY <2>1 DEF SetFavorite, r
<1> HIDE DEF p
<1> QED
  BY <1>2, <1>4, <1>5, ReplaceKeepsPresets

LEMMA MoveKeepsPresets ==
    ASSUME PresetsInv, NEW w \in Windows, isOpen[w], NEW row, Move(w, row)
    PROVE  PresetsInv'
<1> DEFINE ids == [order[w] EXCEPT ![row] = order[w][row + 1], ![row + 1] = order[w][row]]
<1>1. row \in 1 .. Len(order[w]) - 1 /\ Save(w, presets[w], ids, None) /\ isOpen' = isOpen /\ now' = now
  BY DEF Move
<1>2. /\ presets[w] \in Seq(Preset) /\ order[w] \in Seq(Nat)
      /\ Orderly(presets[w], order[w]) /\ UsedBefore(presets[w], now) /\ now \in Nat
  BY WindowIsOrderly
<1>3. ~torn => Exact(Ids(presets[w]), order[w])
  BY WindowIsOrderly
<1>4. ids \in Seq(Nat) /\ ToSet(ids) = ToSet(order[w]) /\ (IsInjective(order[w]) => IsInjective(ids))
  BY <1>1, <1>2, SwapElements
<1> HIDE DEF ids
<1>5. Orderly(presets[w], ids) /\ (~torn => Exact(Ids(presets[w]), ids))
  BY <1>2, <1>3, <1>4 DEF Orderly, Exact
<1> QED
  BY <1>1, <1>2, <1>4, <1>5, SaveKeepsPresets

\* The mounts of a request that noteUsed() looks at.
LEMMA RequestPlaces ==
    ASSUME NEW mounts \in Requests
    PROVE  Without(mounts, Tmpfs) \in Seq(Places)
<1>1. mounts \in SeqOf(Places, 2)
  BY DEF Requests
<1>2. PICK m \in 0 .. 2 : mounts \in [1 .. m -> Places]
  BY <1>1 DEF SeqOf
<1>3. mounts \in Seq(Places)
  BY <1>2
<1> QED
  BY <1>3, WithoutElements

LEMMA NoteUsedKeepsPresets ==
    ASSUME PresetsInv, NEW w \in Windows, isOpen[w], NEW mounts \in Requests,
           NEW command, NoteUsed(w, Without(mounts, Tmpfs), command), isOpen' = isOpen, now' = now + 1
    PROVE  PresetsInv'
<1> DEFINE places == Without(mounts, Tmpfs)
           all == Noted(presets[w], places)
           added == [i \in 1 .. Len(all) - Len(presets[w]) |-> all[Len(presets[w]) + i].id]
           gone == Trimmed(all)
           seq == Except(all, gone)
           ids == Without(order[w] \o added, gone)
<1>1. /\ presets[w] \in Seq(Preset) /\ order[w] \in Seq(Nat)
      /\ Orderly(presets[w], order[w]) /\ UsedBefore(presets[w], now) /\ now \in Nat
  BY WindowIsOrderly
<1>2. Grown(presets[w], all)
  BY <1>1, RequestPlaces, NotedGrows
<1>3. Save(w, seq, ids, command)
  BY DEF NoteUsed
<1> HIDE DEF places, all, gone
<1>4. /\ order[w] \o added \in Seq(Nat)
      /\ Ids(all) \subseteq ToSet(order[w] \o added)
      /\ IsInjective(order[w]) /\ ToSet(order[w]) \subseteq Ids(presets[w])
           => IsInjective(order[w] \o added) /\ ToSet(order[w] \o added) \subseteq Ids(all)
  BY <1>1, <1>2, GrownOrder DEF Orderly
<1>5. all \in Seq(Preset) /\ IsInjective(IdSeq(all))
  BY <1>1, <1>2 DEF Grown, Orderly
<1>6. UsedBefore(all, now)
  <2> SUFFICES ASSUME NEW i \in DOMAIN all PROVE all[i].used <= now
    BY DEF UsedBefore
  <2>1. CASE i \in DOMAIN presets[w]
    BY <1>1, <1>2, <2>1 DEF Grown, UsedBefore
  <2>2. CASE i \notin DOMAIN presets[w]
    BY <1>1, <1>2, <2>2 DEF Grown
  <2> QED
    BY <2>1, <2>2
<1>7. /\ seq \in Seq(Preset) /\ IsInjective(IdSeq(seq)) /\ Ids(seq) = Ids(all) \ gone
      /\ ToSet(seq) \subseteq ToSet(all)
  BY <1>5, ExceptIds
<1>8. /\ ids \in Seq(Nat) /\ Ids(all) \ gone \subseteq ToSet(ids)
      /\ ~torn => Exact(Ids(all) \ gone, ids)
  <2> DEFINE o == order[w] \o added
  <2>1. o \in Seq(Nat) /\ Ids(all) \subseteq ToSet(o)
    BY <1>4
  <2>2. ~torn => IsInjective(o) /\ ToSet(o) \subseteq Ids(all)
    BY <1>4, WindowIsOrderly DEF Exact
  <2> HIDE DEF o
  <2>3. /\ Without(o, gone) \in Seq(Nat)
        /\ ToSet(Without(o, gone)) = ToSet(o) \ gone
        /\ IsInjective(o) => IsInjective(Without(o, gone))
    BY <2>1, WithoutElements
  <2>4. /\ Ids(all) \ gone \subseteq ToSet(Without(o, gone))
        /\ ~torn => Exact(Ids(all) \ gone, Without(o, gone))
    BY <2>1, <2>2, <2>3 DEF Exact
  <2> QED
    BY <2>3, <2>4 DEF o
<1> HIDE DEF seq, ids
<1>9. UsedBefore(seq, now)
  BY <1>6, <1>7 DEF UsedBefore, ToSet
<1>10. Orderly(seq, ids) /\ (~torn => Exact(Ids(seq), ids))
  BY <1>7, <1>8 DEF Orderly
<1>11. now' \in Nat /\ now <= now'
  BY <1>1
<1> QED
  BY <1>3, <1>7, <1>8, <1>9, <1>10, <1>11, SaveKeepsPresets

(***************************************************************************)
(* The history.                                                            *)
(***************************************************************************)
LEMMA WriteKeepsHistory ==
    ASSUME HistoryInv, NEW w \in Windows, isOpen[w], NEW commands \in Seq(Commands), NEW done,
           WriteHistory(w, commands, done), isOpen' = isOpen,
           toRecord' \in [Windows -> Commands \cup {None}]
    PROVE  HistoryInv'
<1>1. /\ local' = [local EXCEPT ![w] = commands]
      /\ \/ historyFile' = commands /\ historyWriter' = w
         \/ /\ historyFile' = historyFile
            /\ historyWriter' = IF historyWriter = w THEN None ELSE historyWriter
  BY DEF WriteHistory
<1>2. local \in [Windows -> Seq(Commands)] /\ historyFile \in Seq(Commands)
  BY DEF HistoryInv
<1>3. local' \in [Windows -> Seq(Commands)] /\ historyFile' \in Seq(Commands)
  BY <1>1, <1>2
<1>4. ASSUME historyWriter' # None
      PROVE  historyWriter' \in Windows /\ isOpen'[historyWriter'] /\ historyFile' = local'[historyWriter']
  BY <1>1, <1>2, <1>4 DEF HistoryInv
<1> QED
  BY <1>3, <1>4 DEF HistoryInv

LEMMA RecordKeepsHistory ==
    ASSUME HistoryInv, NEW w \in Windows, isOpen[w], NEW command \in Commands \cup {None},
           NEW done, Record(w, command, done), isOpen' = isOpen,
           toRecord' \in [Windows -> Commands \cup {None}]
    PROVE  HistoryInv'
<1> DEFINE all == <<command>> \o Without(local[w], {command})
           kept == SubSeq(all, 1, IF Len(all) > MaxEntries THEN MaxEntries ELSE Len(all))
<1>1. local \in [Windows -> Seq(Commands)] /\ historyFile \in Seq(Commands)
  BY DEF HistoryInv
<1>2. CASE UNCHANGED historyVars
  BY <1>2 DEF historyVars, HistoryInv
<1>3. CASE command # None /\ WriteHistory(w, kept, done)
  <2>1. command \in Commands
    BY <1>3
  <2>2. local[w] \in Seq(Commands)
    BY <1>1
  <2>3. all \in Seq(Commands)
    <3> DEFINE rest == Without(local[w], {command})
    <3>1. rest \in Seq(Commands)
      BY <2>2, WithoutElements
    <3> HIDE DEF rest
    <3> QED
      BY <2>1, <3>1 DEF rest
  <2> HIDE DEF all
  <2>4. kept \in Seq(Commands)
    <3>1. MaxEntries \in Nat
      BY LimitsArePositive
    <3> QED
      BY <2>3, <3>1
  <2> HIDE DEF kept
  <2> QED
    BY <1>3, <2>4, WriteKeepsHistory
<1> QED
  BY <1>2, <1>3 DEF Record

LEMMA QuietKeepsHistory ==
    ASSUME HistoryInv, UNCHANGED <<historyVars, isOpen>>,
           toRecord' \in [Windows -> Commands \cup {None}]
    PROVE  HistoryInv'
BY DEF HistoryInv, historyVars

LEMMA OpenKeepsHistory ==
    ASSUME PresetsInv, HistoryInv, NEW w \in Windows, OpenWindow(w)
    PROVE  HistoryInv'
<1>1. /\ ~isOpen[w] /\ isOpen' = [isOpen EXCEPT ![w] = TRUE]
      /\ local' = [local EXCEPT ![w] = historyFile]
      /\ historyFile' = historyFile /\ historyWriter' = historyWriter /\ toRecord' = toRecord
  BY DEF OpenWindow, ReadHistory
<1>2. isOpen \in [Windows -> BOOLEAN]
  BY DEF PresetsInv, PresetsType
<1>3. /\ local' \in [Windows -> Seq(Commands)] /\ historyFile' \in Seq(Commands)
      /\ toRecord' \in [Windows -> Commands \cup {None}]
  BY <1>1 DEF HistoryInv
<1>4. ASSUME historyWriter # None
      PROVE  historyWriter \in Windows /\ isOpen'[historyWriter] /\ historyFile = local'[historyWriter]
  BY <1>1, <1>2, <1>4 DEF HistoryInv
<1> QED
  BY <1>1, <1>3, <1>4 DEF HistoryInv

LEMMA CloseKeepsHistory ==
    ASSUME PresetsInv, HistoryInv, NEW w \in Windows, CloseWindow(w)
    PROVE  HistoryInv'
<1>1. /\ isOpen' = [isOpen EXCEPT ![w] = FALSE]
      /\ local' = [local EXCEPT ![w] = <<>>]
      /\ historyWriter' = IF historyWriter = w THEN None ELSE historyWriter
      /\ historyFile' = historyFile
      /\ toRecord' = [toRecord EXCEPT ![w] = None]
  BY DEF CloseWindow
<1>2. isOpen \in [Windows -> BOOLEAN]
  BY DEF PresetsInv, PresetsType
<1>3. /\ local' \in [Windows -> Seq(Commands)] /\ historyFile' \in Seq(Commands)
      /\ toRecord' \in [Windows -> Commands \cup {None}]
  BY <1>1 DEF HistoryInv
<1>4. ASSUME historyWriter' # None
      PROVE  historyWriter' \in Windows /\ isOpen'[historyWriter'] /\ historyFile = local'[historyWriter']
  BY <1>1, <1>2, <1>4 DEF HistoryInv
<1> QED
  BY <1>1, <1>3, <1>4 DEF HistoryInv

(***************************************************************************)
(* Every step keeps the invariant.                                         *)
(***************************************************************************)
LEMMA StoreInvInit == StoresInit => StoreInv
<1> SUFFICES ASSUME StoresInit PROVE StoreInv
  OBVIOUS
<1>1. EmptyFile \in File /\ Groups(EmptyFile.presets, now)
  BY FS_EmptySet DEF EmptyFile, File, Groups
<1>2. PresetsType
  BY <1>1 DEF StoresInit, PresetsType
<1>3. InMemory
  BY DEF StoresInit, InMemory, Orderly, Exact, UsedBefore, IdSeq, Ids, ToSet, IsInjective
<1>4. OnFile
  <2>1. Exact(IdsOn(presetFile), presetFile.order) /\ presetFile.presets \subseteq Preset
    BY DEF StoresInit, EmptyFile, Exact, IdsOn, ToSet, IsInjective
  <2> QED
    BY <1>1, <2>1 DEF StoresInit, OnFile
<1>5. PresetFileFollows /\ HistoryInv
  BY DEF StoresInit, PresetFileFollows, HistoryInv
<1> QED
  BY <1>2, <1>3, <1>4, <1>5 DEF StoreInv, PresetsInv

\* What a save of the presets leaves the command for.
LEMMA SaveKeepsHistory ==
    ASSUME HistoryInv, NEW w \in Windows, NEW seq, NEW ids, NEW command \in Commands \cup {None},
           Save(w, seq, ids, command), UNCHANGED <<historyVars, isOpen>>
    PROVE  HistoryInv'
<1>1. toRecord' = [toRecord EXCEPT ![w] = command]
  BY DEF Save
<1>2. toRecord' \in [Windows -> Commands \cup {None}]
  BY <1>1 DEF HistoryInv
<1> QED
  BY <1>2, QuietKeepsHistory

LEMMA EditKeepsStoreInv ==
    ASSUME StoreInv, NEW w \in Windows, Idle(w), EditStores(w)
    PROVE  StoreInv'
<1> USE DEF StoreInv
<1>1. isOpen[w] /\ toRecord \in [Windows -> Commands \cup {None}] /\ now \in Nat
  BY DEF Idle, HistoryInv, PresetsInv, PresetsType
<1>2. ASSUME NEW place \in Places, Add(w, place) PROVE StoreInv'
  BY <1>1, <1>2, AddKeepsPresets, SaveKeepsHistory DEF Add
<1>3. ASSUME NEW id \in Ids(presets[w]), RemovePreset(w, id) PROVE StoreInv'
  BY <1>1, <1>3, RemovePresetKeepsPresets, SaveKeepsHistory DEF RemovePreset
<1>4. ASSUME NEW id \in Ids(presets[w]), SetFavorite(w, id) PROVE StoreInv'
  BY <1>1, <1>4, SetFavoriteKeepsPresets, SaveKeepsHistory DEF SetFavorite
<1>5. ASSUME NEW id \in Ids(presets[w]), NEW place \in Places, Update(w, id, place) PROVE StoreInv'
  BY <1>1, <1>5, UpdateKeepsPresets, SaveKeepsHistory DEF Update
<1>6. ASSUME NEW row, Move(w, row) PROVE StoreInv'
  BY <1>1, <1>6, MoveKeepsPresets, SaveKeepsHistory DEF Move
<1>7. ASSUME NEW mounts \in Requests, NEW command \in Commands \cup {None}, Submit(w, mounts, command)
      PROVE  StoreInv'
  <2>1. now' = now + 1 /\ isOpen' = isOpen
    BY <1>7 DEF Submit
  <2>2. CASE NoteUsed(w, Without(mounts, Tmpfs), command) /\ UNCHANGED historyVars
    <3>1. PresetsInv'
      BY <1>1, <2>1, <2>2, NoteUsedKeepsPresets
    <3>2. HistoryInv'
      BY <2>1, <2>2, SaveKeepsHistory DEF NoteUsed
    <3> QED
      BY <3>1, <3>2
  <2>3. CASE (\E done \in BOOLEAN : Record(w, command, done)) /\ UNCHANGED <<presetVars, toRecord>>
    <3>1. PresetsInv'
      BY <1>1, <2>1, <2>3, QuietKeepsPresets
    <3>2. HistoryInv'
      BY <1>1, <2>1, <2>3, RecordKeepsHistory
    <3> QED
      BY <3>1, <3>2
  <2> QED
    BY <1>7, <2>2, <2>3 DEF Submit
<1>8. ASSUME NEW command \in Commands, MergeExternal(w, command) PROVE StoreInv'
  BY <1>1, <1>8, QuietKeepsPresets, QuietKeepsHistory DEF MergeExternal
<1>9. ASSUME NEW done \in BOOLEAN, ClearLocal(w, done) PROVE StoreInv'
  <2>1. WriteHistory(w, <<>>, done) /\ UNCHANGED <<presetVars, isOpen>> /\ toRecord' = toRecord /\ now' = now
    BY <1>9 DEF ClearLocal
  <2>2. PresetsInv'
    BY <1>1, <2>1, QuietKeepsPresets
  <2>3. HistoryInv'
    <3>1. <<>> \in Seq(Commands) /\ toRecord' \in [Windows -> Commands \cup {None}] /\ isOpen' = isOpen
      BY <1>1, <2>1
    <3> QED
      BY <1>1, <2>1, <3>1, WriteKeepsHistory
  <2> QED
    BY <2>2, <2>3
<1> QED
  BY <1>2, <1>3, <1>4, <1>5, <1>6, <1>7, <1>8, <1>9 DEF EditStores

LEMMA SyncedKeepsHistory ==
    ASSUME StoreInv, NEW w \in Windows, NEW done, Synced(w, done)
    PROVE  HistoryInv'
<1>1. PICK recorded \in BOOLEAN : Record(w, toRecord[w], recorded)
  BY DEF Synced
<1>2. inSave[w] /\ toRecord' = [toRecord EXCEPT ![w] = None] /\ isOpen' = isOpen
  BY DEF Synced
<1>3. isOpen[w]
  BY <1>2 DEF StoreInv, PresetsInv, InMemory
<1>4. toRecord[w] \in Commands \cup {None} /\ toRecord' \in [Windows -> Commands \cup {None}]
  BY <1>2 DEF StoreInv, HistoryInv
<1> QED
  BY <1>1, <1>2, <1>3, <1>4, RecordKeepsHistory DEF StoreInv

LEMMA StoreInvStep == StoreInv /\ [StoresNext]_storesVars => StoreInv'
<1> SUFFICES ASSUME StoreInv, [StoresNext]_storesVars PROVE StoreInv'
  OBVIOUS
<1>1. CASE UNCHANGED storesVars
  <2>1. /\ UNCHANGED <<presetVars, isOpen>> /\ UNCHANGED <<historyVars, isOpen>>
        /\ now' = now /\ toRecord' = toRecord
    BY <1>1 DEF storesVars
  <2>2. now \in Nat /\ toRecord \in [Windows -> Commands \cup {None}]
    BY DEF StoreInv, PresetsInv, PresetsType, HistoryInv
  <2> QED
    BY <2>1, <2>2, QuietKeepsPresets, QuietKeepsHistory DEF StoreInv
<1>2. ASSUME NEW w \in Windows, OpenWindow(w) PROVE StoreInv'
  BY <1>2, OpenKeepsPresets, OpenKeepsHistory DEF StoreInv
<1>3. ASSUME NEW w \in Windows, CloseWindow(w) PROVE StoreInv'
  BY <1>3, CloseKeepsPresets, CloseKeepsHistory DEF StoreInv
<1>4. ASSUME NEW w \in Windows, NEW done \in BOOLEAN, Synced(w, done) PROVE StoreInv'
  BY <1>4, SyncedKeepsPresets, SyncedKeepsHistory DEF StoreInv
<1>5. ASSUME NEW w \in Windows, Idle(w), EditStores(w) PROVE StoreInv'
  BY <1>5, EditKeepsStoreInv
<1> QED
  BY <1>1, <1>2, <1>3, <1>4, <1>5 DEF StoresNext

\* Whatever the windows do, and however their saves fail and overlap, in memory and on file
\* the ids of the presets are unique, the order of a window names its presets, and after a
\* save that nothing overtook the file is what the window holds.
THEOREM StoresAreSound == StoresSpec => []StoreInv
<1> QED
  BY StoreInvInit, StoreInvStep, PTL DEF StoresSpec

\* The order of a window names each of its presets, whatever add(), remove(), noteUsed(), its
\* trimming, load() and overlapping saves did (MountPresetStore); it names each once and
\* nothing else as long as no two saves have overlapped.
THEOREM OrderIsComplete == StoresSpec => []OrderListsPresets
<1>1. StoreInv => OrderListsPresets
  <2> SUFFICES ASSUME StoreInv, NEW w \in Windows
               PROVE  /\ Ids(presets[w]) \subseteq ToSet(order[w])
                      /\ ~torn => /\ IsInjective(order[w])
                                  /\ Len(order[w]) = Len(presets[w])
                                  /\ ToSet(order[w]) = Ids(presets[w])
    BY DEF OrderListsPresets
  <2>1. /\ presets[w] \in Seq(Preset) /\ order[w] \in Seq(Nat)
        /\ Orderly(presets[w], order[w])
    BY WindowIsOrderly DEF StoreInv
  <2>2. IdSeq(presets[w]) \in Seq(Nat) /\ Len(IdSeq(presets[w])) = Len(presets[w])
    BY <2>1, IdSeqElements
  <2>3. ToSet(IdSeq(presets[w])) = Ids(presets[w])
    BY <2>1, IdSeqElements
  <2>4. ASSUME ~torn
        PROVE  /\ IsInjective(order[w])
               /\ Len(order[w]) = Len(presets[w])
               /\ ToSet(order[w]) = Ids(presets[w])
    <3>1. IsInjective(order[w]) /\ ToSet(order[w]) = Ids(presets[w])
      BY <2>1, <2>4, WindowIsOrderly DEF StoreInv, Exact, Orderly
    <3>2. Len(order[w]) = Len(IdSeq(presets[w]))
      BY <2>1, <2>2, <2>3, <3>1, SameLength DEF Orderly
    <3> QED
      BY <2>2, <3>1, <3>2
  <2> QED
    BY <2>1, <2>4 DEF Orderly
<1> QED
  BY <1>1, StoresAreSound, PTL

\* A save whose sync() succeeds with the file as the save found it leaves there what the
\* window holds, until it saves again or another window does: what was removed is gone, and
\* nothing of earlier failed or overlapping saves is left, for the presets and the commands.
THEOREM FileIsWhatWasSaved == StoresSpec => []FileFollowsWriter
<1>1. StoreInv => FileFollowsWriter
  BY DEF StoreInv, PresetsInv, PresetFileFollows, HistoryInv, FileFollowsWriter
<1> QED
  BY <1>1, StoresAreSound, PTL

(***************************************************************************)
(* trimRecents(): what goes is older than what stays, and no more goes     *)
(* than there is too much.                                                 *)
(***************************************************************************)
Older(seq, i, j) ==
    \/ seq[i].used < seq[j].used
    \/ seq[i].used = seq[j].used /\ i < j

OlderThan(seq, j) == {i \in Evictable(seq) : Older(seq, i, j)}

Rank(seq, j) == Cardinality(OlderThan(seq, j))

LEMMA EvictableRows ==
    ASSUME NEW seq \in Seq(Preset)
    PROVE  /\ Evictable(seq) \subseteq DOMAIN seq
           /\ Evictable(seq) \subseteq Nat
           /\ IsFiniteSet(Evictable(seq))
           /\ \A i \in DOMAIN seq : seq[i].used \in Nat
           /\ Trimmed(seq) = {seq[j].id : j \in {j \in Evictable(seq) : Rank(seq, j) < Len(seq) - MaxRecent}}
<1>1. DOMAIN seq = 1 .. Len(seq) /\ Len(seq) \in Nat /\ \A i \in DOMAIN seq : seq[i] \in Preset
  <2> HIDE DEF Preset
  <2> QED
    OBVIOUS
<1>2. \A i \in DOMAIN seq : seq[i].used \in Nat
  BY <1>1 DEF Preset
<1>3. Evictable(seq) \subseteq DOMAIN seq
  BY DEF Evictable
<1>4. IsFiniteSet(DOMAIN seq)
  BY <1>1, FS_Interval
<1>5. IsFiniteSet(Evictable(seq))
  BY <1>3, <1>4, FS_Subset
<1>6. Trimmed(seq) = {seq[j].id : j \in {j \in Evictable(seq) : Rank(seq, j) < Len(seq) - MaxRecent}}
  BY DEF Trimmed, Rank, OlderThan, Older
<1> QED
  BY <1>1, <1>2, <1>3, <1>5, <1>6

\* Who is older has fewer that are older still.
LEMMA RankOrder ==
    ASSUME NEW seq \in Seq(Preset), NEW i \in Evictable(seq), NEW j \in Evictable(seq)
    PROVE  /\ Rank(seq, i) \in Nat
           /\ Older(seq, i, j) => Rank(seq, i) < Rank(seq, j)
           /\ i = j \/ Older(seq, i, j) \/ Older(seq, j, i)
<1> DEFINE E == Evictable(seq)
<1>1. /\ E \subseteq Nat /\ IsFiniteSet(E) /\ \A k \in E : seq[k].used \in Nat
  BY EvictableRows
<1>2. i \in E /\ j \in E
  OBVIOUS
<1> HIDE DEF E
<1>3. \A k : OlderThan(seq, k) \subseteq E
  BY DEF OlderThan, E
<1>4. /\ IsFiniteSet(OlderThan(seq, i)) /\ IsFiniteSet(OlderThan(seq, j))
  BY <1>1, <1>3, FS_Subset
<1>5. Rank(seq, i) \in Nat /\ Rank(seq, j) \in Nat
  BY <1>4, FS_CardinalityType DEF Rank
<1>6. i = j \/ Older(seq, i, j) \/ Older(seq, j, i)
  BY <1>1, <1>2 DEF Older
<1>7. ASSUME Older(seq, i, j) PROVE Rank(seq, i) < Rank(seq, j)
  <2>1. OlderThan(seq, i) \subseteq OlderThan(seq, j)
    BY <1>1, <1>2, <1>7 DEF OlderThan, Older, E
  <2>2. i \in OlderThan(seq, j) /\ i \notin OlderThan(seq, i)
    BY <1>1, <1>2, <1>7 DEF OlderThan, Older, E
  <2>3. Rank(seq, i) <= Rank(seq, j) /\ Rank(seq, i) # Rank(seq, j)
    BY <1>4, <2>1, <2>2, FS_Subset DEF Rank
  <2> QED
    BY <1>5, <2>3
<1> QED
  BY <1>5, <1>6, <1>7

LEMMA TrimmedRows ==
    ASSUME NEW seq \in Seq(Preset), IsInjective(IdSeq(seq)), NEW k \in DOMAIN seq, seq[k].id \in Trimmed(seq)
    PROVE  /\ k \in Evictable(seq)
           /\ \A j \in Evictable(seq) : seq[j].id \notin Trimmed(seq) => seq[j].used >= seq[k].used
<1>1. PICK m \in Evictable(seq) : seq[m].id = seq[k].id /\ Rank(seq, m) < Len(seq) - MaxRecent
  BY EvictableRows
<1>2. m = k
  <2>1. \A i, j \in DOMAIN seq : seq[i].id = seq[j].id => i = j
    BY IdSeqElements DEF IsInjective
  <2> QED
    BY <1>1, <2>1, EvictableRows
<1>3. ASSUME NEW j \in Evictable(seq), seq[j].id \notin Trimmed(seq) PROVE seq[j].used >= seq[k].used
  <2>1. ~ (Rank(seq, j) < Len(seq) - MaxRecent)
    BY <1>3, EvictableRows
  <2>2. Rank(seq, j) \in Nat /\ Rank(seq, k) \in Nat /\ Len(seq) \in Nat /\ MaxRecent \in Nat
    BY <1>1, <1>2, RankOrder, LimitsArePositive
  <2>3. ~ (Rank(seq, j) < Rank(seq, k))
    BY <1>1, <1>2, <2>1, <2>2
  <2>4. ~ Older(seq, j, k)
    BY <1>1, <1>2, <2>3, RankOrder
  <2>5. seq[j].used \in Nat /\ seq[k].used \in Nat
    BY EvictableRows
  <2> QED
    BY <2>4, <2>5 DEF Older
<1> QED
  BY <1>1, <1>2, <1>3

LEMMA TrimmedCount ==
    ASSUME NEW seq \in Seq(Preset), Trimmed(seq) # {}
    PROVE  /\ IsFiniteSet(Trimmed(seq))
           /\ Cardinality(Trimmed(seq)) <= Len(seq) - MaxRecent
           /\ Trimmed(seq) \subseteq Ids(seq)
<1> DEFINE n == Len(seq) - MaxRecent
           P == {j \in Evictable(seq) : Rank(seq, j) < n}
           rank == [j \in P |-> Rank(seq, j)]
           id == [j \in P |-> seq[j].id]
<1>1. Trimmed(seq) = {seq[j].id : j \in P} /\ P \subseteq DOMAIN seq /\ IsFiniteSet(P)
  <2>1. IsFiniteSet(P)
    BY EvictableRows, FS_Subset
  <2> QED
    BY <2>1, EvictableRows
<1>2. n \in Int /\ \A j \in P : Rank(seq, j) \in Nat /\ Rank(seq, j) < n
  BY RankOrder, LimitsArePositive
<1>3. n \in Nat /\ n > 0
  <2>1. PICK j \in P : TRUE
    BY <1>1
  <2> QED
    BY <1>2, <2>1
<1>4. \A i, j \in P : Rank(seq, i) = Rank(seq, j) => i = j
  <2> SUFFICES ASSUME NEW i \in P, NEW j \in P, Rank(seq, i) = Rank(seq, j), i # j PROVE FALSE
    OBVIOUS
  <2>1. i \in Evictable(seq) /\ j \in Evictable(seq)
    OBVIOUS
  <2>2. Older(seq, i, j) \/ Older(seq, j, i)
    BY <2>1, RankOrder
  <2>3. Rank(seq, i) < Rank(seq, j) \/ Rank(seq, j) < Rank(seq, i)
    BY <2>1, <2>2, RankOrder
  <2> QED
    BY <1>2, <2>3
<1> HIDE DEF n, P
<1>5. rank \in Injection(P, 0 .. n - 1)
  <2>1. rank \in [P -> 0 .. n - 1]
    BY <1>2
  <2> QED
    BY <1>4, <2>1 DEF Injection, IsInjective
<1>6. IsFiniteSet(0 .. n - 1) /\ Cardinality(0 .. n - 1) = n
  BY <1>3, FS_Interval
<1>7. Cardinality(P) <= n
  <2> HIDE DEF rank
  <2> QED
    BY <1>5, <1>6, FS_Injection
<1>8. id \in Surjection(P, Trimmed(seq))
  BY <1>1 DEF Surjection
<1>9. IsFiniteSet(Trimmed(seq)) /\ Cardinality(Trimmed(seq)) <= Cardinality(P)
  <2> HIDE DEF id
  <2> QED
    BY <1>1, <1>8, FS_Surjection
<1>10. Cardinality(P) \in Nat /\ Cardinality(Trimmed(seq)) \in Nat
  BY <1>1, <1>9, FS_CardinalityType
<1>11. Trimmed(seq) \subseteq Ids(seq)
  BY <1>1 DEF Ids
<1> QED
  BY <1>3, <1>7, <1>9, <1>10, <1>11 DEF n

\* The store is full after something had to go.
LEMMA TrimmedLeaves ==
    ASSUME NEW seq \in Seq(Preset), IsInjective(IdSeq(seq)), Trimmed(seq) # {}
    PROVE  Len(Except(seq, Trimmed(seq))) >= MaxRecent
<1> DEFINE T == Trimmed(seq)
           kept == Except(seq, T)
<1>1. kept \in Seq(Preset) /\ Ids(kept) = Ids(seq) \ T /\ IsInjective(IdSeq(kept))
  BY ExceptIds
<1> HIDE DEF kept
<1>2. Cardinality(Ids(seq)) = Len(seq) /\ IsFiniteSet(Ids(seq))
  BY IdSeqElements, InjectiveCount
<1>3. Cardinality(Ids(kept)) = Len(kept)
  BY <1>1, IdSeqElements, InjectiveCount
<1>4. IsFiniteSet(T) /\ Cardinality(T) <= Len(seq) - MaxRecent /\ T \subseteq Ids(seq)
  BY TrimmedCount
<1> HIDE DEF T
<1>5. Cardinality(Ids(seq) \ T) = Cardinality(Ids(seq)) - Cardinality(Ids(seq) \cap T)
  BY <1>2, FS_Difference
<1>6. Ids(seq) \cap T = T
  BY <1>4
<1>7. Cardinality(T) \in Nat /\ Len(seq) \in Nat /\ MaxRecent \in Nat
  BY <1>4, FS_CardinalityType, LimitsArePositive
<1>8. Len(kept) = Len(seq) - Cardinality(T)
  BY <1>1, <1>2, <1>3, <1>5, <1>6
<1>9. Len(kept) >= MaxRecent
  BY <1>4, <1>7, <1>8
<1> QED
  BY <1>9 DEF kept, T

\* What one window loses when it notes the use of mounts.
LEMMA OldestGoes ==
    ASSUME PresetsInv, NEW w \in Windows, NEW mounts \in Requests,
           NEW command, NoteUsed(w, Without(mounts, Tmpfs), command),
           NEW i \in DOMAIN presets[w], presets[w][i].id \notin Ids(presets'[w])
    PROVE  LET p == presets[w][i]
               lastUse == IF p.used = Never THEN now ELSE p.used
           IN /\ ~p.favorite
              /\ Len(presets'[w]) >= MaxRecent
              /\ \A j \in Evictable(presets'[w]) : presets'[w][j].used >= lastUse
<1> DEFINE old == presets[w]
           places == Without(mounts, Tmpfs)
           all == Noted(old, places)
           new == Except(all, Trimmed(all))
           lastUse == IF old[i].used = Never THEN now ELSE old[i].used
<1>1. /\ old \in Seq(Preset) /\ IsInjective(IdSeq(old)) /\ UsedBefore(old, now) /\ now \in Nat
  BY WindowIsOrderly DEF Orderly
<1>2. Grown(old, all)
  BY <1>1, RequestPlaces, NotedGrows
<1>3. presets'[w] = new
  <2>1. presets' = [presets EXCEPT ![w] = new]
    BY DEF NoteUsed, Save
  <2> QED
    BY <2>1 DEF PresetsInv, PresetsType
<1> HIDE DEF all
<1>4. /\ all \in Seq(Preset) /\ IsInjective(IdSeq(all)) /\ i \in DOMAIN all
      /\ all[i].id = old[i].id /\ all[i].favorite = old[i].favorite /\ all[i].used \in {old[i].used, now}
  <2>1. i \in DOMAIN all
    BY <1>1, <1>2 DEF Grown
  <2> QED
    BY <1>1, <1>2, <2>1 DEF Grown
<1>5. new \in Seq(Preset) /\ ToSet(new) = {p \in ToSet(all) : p.id \notin Trimmed(all)}
      /\ Ids(new) = Ids(all) \ Trimmed(all)
  BY <1>4, ExceptIds
<1>6. all[i].id \in Trimmed(all)
  <2>1. all[i].id \in Ids(all)
    BY <1>4 DEF Ids
  <2> QED
    BY <1>3, <1>4, <1>5, <2>1
<1>7. Len(new) >= MaxRecent
  BY <1>4, <1>6, TrimmedLeaves
<1>8. /\ i \in Evictable(all)
      /\ \A k \in Evictable(all) : all[k].id \notin Trimmed(all) => all[k].used >= all[i].used
  BY <1>4, <1>6, TrimmedRows
<1>9. ~old[i].favorite /\ all[i].used # Never
  BY <1>4, <1>8 DEF Evictable
<1>10. old[i].used \in Nat /\ old[i].used <= now /\ all[i].used \in Nat
  BY <1>1, <1>4, EvictableRows DEF UsedBefore
<1>11. all[i].used >= lastUse
  BY <1>1, <1>4, <1>9, <1>10
<1> HIDE DEF new
<1>12. ASSUME NEW j \in Evictable(new) PROVE new[j].used >= lastUse
  <2>1. j \in DOMAIN new /\ ~new[j].favorite /\ new[j].used # Never
    BY <1>12 DEF Evictable
  <2>2. new[j] \in ToSet(all) /\ new[j].id \notin Trimmed(all)
    BY <1>5, <2>1 DEF ToSet
  <2>3. PICK k \in DOMAIN all : all[k] = new[j]
    BY <2>2 DEF ToSet
  <2>4. k \in Evictable(all)
    BY <2>1, <2>3 DEF Evictable
  <2>5. all[k].used >= all[i].used /\ all[k].used \in Nat
    BY <1>4, <1>8, <2>2, <2>3, <2>4, EvictableRows
  <2>6. lastUse \in Nat
    BY <1>1, <1>10
  <2> HIDE DEF lastUse
  <2> QED
    BY <1>10, <1>11, <2>3, <2>5, <2>6
<1> HIDE DEF lastUse
<1>13. /\ ~old[i].favorite
       /\ Len(presets'[w]) >= MaxRecent
       /\ \A j \in Evictable(presets'[w]) : presets'[w][j].used >= lastUse
  BY <1>3, <1>7, <1>9, <1>12
<1> QED
  BY <1>13 DEF lastUse

\* trimRecents() pushes out no favourite and nothing used later than what it keeps, and only
\* from a full store.
THEOREM OldestPresetsGo == StoresSpec => OldestIsTrimmed
<1> DEFINE Loss(w, i) ==
              LET p == presets[w][i]
                  lastUse == IF p.used = Never THEN now ELSE p.used
              IN /\ ~p.favorite
                 /\ Len(presets'[w]) >= MaxRecent
                 /\ \A j \in Evictable(presets'[w]) : presets'[w][j].used >= lastUse
           Trims == \A w \in Windows : isOpen[w] /\ now' # now =>
                       \A i \in DOMAIN presets[w] :
                          presets[w][i].id \notin Ids(presets'[w]) => Loss(w, i)
<1>1. StoreInv /\ [StoresNext]_storesVars => [Trims]_storesVars
  <2> SUFFICES ASSUME StoreInv, StoresNext, NEW w \in Windows, now' # now,
                      NEW i \in DOMAIN presets[w], presets[w][i].id \notin Ids(presets'[w])
               PROVE  Loss(w, i)
    OBVIOUS
  <2>1. PICK v \in Windows : \/ OpenWindow(v)
                             \/ CloseWindow(v)
                             \/ \E done \in BOOLEAN : Synced(v, done)
                             \/ EditStores(v)
    BY DEF StoresNext
  <2>2. PICK mounts \in Requests, command \in Commands \cup {None} : Submit(v, mounts, command)
    BY <2>1 DEF OpenWindow, CloseWindow, Synced, EditStores, Add, RemovePreset, SetFavorite, Update, Move,
                MergeExternal, ClearLocal
  <2>3. presets' = presets \/ NoteUsed(v, Without(mounts, Tmpfs), command)
    BY <2>2 DEF Submit, presetVars
  <2>4. presets'[w] # presets[w]
    BY DEF Ids
  <2>5. NoteUsed(v, Without(mounts, Tmpfs), command) /\ v = w
    <3>1. v # w => presets'[w] = presets[w]
      BY <2>3 DEF NoteUsed, Save, StoreInv, PresetsInv, PresetsType
    <3> QED
      BY <2>3, <2>4, <3>1
  <2> QED
    BY <2>5, OldestGoes DEF StoreInv
<1>2. Trims => \A w \in Windows : isOpen[w] /\ now' # now =>
         \A i \in DOMAIN presets[w] :
            LET p == presets[w][i]
                lastUse == IF p.used = Never THEN now ELSE p.used
            IN p.id \notin Ids(presets'[w]) =>
                 /\ ~p.favorite
                 /\ Len(presets'[w]) >= MaxRecent
                 /\ \A j \in Evictable(presets'[w]) : presets'[w][j].used >= lastUse
  OBVIOUS
<1> QED
  BY <1>1, <1>2, StoresAreSound, PTL DEF StoresSpec, OldestIsTrimmed

-----------------------------------------------------------------------------
\* RegistryLogin: the checks of credentials.

\* There is at most one check under way, that of the credential the page waits for: a page that
\* is busy offers no other; and it either waits for the handshake or has been sent.
OneCheck ==
    /\ queued \cup wire \subseteq IF loginBusy THEN {pending} ELSE {}
    /\ queued = {} \/ wire = {}

\* What the wallet and the file may hold.
EntriesOK ==
    /\ entries \in [Registries -> Secrets \cup {NoSecret, BrokenEntry}]
    /\ auths \in [Registries -> [auth : Maybe(Passwords), token : Maybe(Tokens)]]
    /\ forgotten \subseteq Registries

LEMMA SecretsDiffer == NoSecret \notin Secrets /\ BrokenEntry \notin Secrets /\ NoSecret # BrokenEntry
  BY LoginAssumption

LEMMA ScannedIsSecret ==
    ASSUME EntriesOK, NEW r \in Registries
    PROVE  Scanned[r] \in Secrets \cup {NoSecret}
<1>1. EntryOf(auths[r]) \in Secrets \cup {NoSecret}
  BY DEF EntriesOK, EntryOf, Maybe, Secrets
<1> QED
  BY <1>1 DEF Scanned

-----------------------------------------------------------------------------
\* The steps, by what they do to the wallet.

LEMMA OneCheckStep ==
    ASSUME OneCheck, [LoginNext]_loginVars
    PROVE  OneCheck'
<1> USE DEF OneCheck
<1>1. CASE UNCHANGED <<queued, wire, loginBusy, pending>>
  BY <1>1
<1>2. CASE \/ WalletOpened \/ WalletLost \/ FileEdited \/ Refresh
           \/ \E r \in Registries : RemoveCredential(r)
           \/ RefreshInfo \/ HandshakeGoesOn \/ UNCHANGED loginVars
  BY <1>1, <1>2 DEF WalletOpened, WalletLost, FileEdited, Refresh, RemoveCredential, RefreshInfo,
     HandshakeGoesOn, loginVars, checkVars
<1>3. ASSUME NEW kind, NEW c, Check(kind, c) PROVE OneCheck'
  BY <1>3 DEF Check
<1>4. CASE \/ \E r \in Registries, s \in Secrets : Login(r, s)
           \/ \E r \in Registries : TestCredential(r)
  BY <1>3, <1>4 DEF Login, TestCredential
<1>5. ASSUME NEW c \in Credentials, NEW ok \in BOOLEAN, CheckAnswered(c, ok) PROVE OneCheck'
  BY <1>5 DEF CheckAnswered, Finished
<1>6. CASE HandshakeEnds
  BY <1>6 DEF HandshakeEnds
<1>7. CASE HandshakeFailed \/ Abandon
  BY <1>7 DEF HandshakeFailed, Abandon, DropChecks
<1> QED
  BY <1>2, <1>4, <1>5, <1>6, <1>7 DEF LoginNext

\* Besides the steps of the wallet itself, of others on the file, the refresh and the removal,
\* only a login whose own credential was accepted writes.
LoginStored ==
    pending \in Credentials /\ StoreLogin(pending) /\ accepted' = accepted \cup {pending}

LEMMA WalletSteps ==
    ASSUME OneCheck, [LoginNext]_loginVars
    PROVE  \/ UNCHANGED <<walletVars, auths, forgotten>> /\ accepted \subseteq accepted'
           \/ WalletOpened \/ WalletLost \/ FileEdited \/ Refresh
           \/ \E r \in Registries : RemoveCredential(r)
           \/ LoginStored
<1> DEFINE Quiet == UNCHANGED <<walletVars, auths, forgotten>> /\ accepted \subseteq accepted'
<1>1. ASSUME NEW c \in Credentials, NEW ok \in BOOLEAN, CheckAnswered(c, ok)
      PROVE  Quiet \/ LoginStored
  <2>1. c = pending
    BY <1>1 DEF OneCheck, CheckAnswered
  <2>2. CASE checking = "login" /\ ok
    BY <1>1, <2>1, <2>2 DEF CheckAnswered, Finished, LoginStored
  <2>3. CASE ~(checking = "login" /\ ok)
    BY <1>1, <2>3 DEF CheckAnswered, Finished
  <2> QED
    BY <2>2, <2>3
<1>2. CASE \/ \E r \in Registries, s \in Secrets : Login(r, s)
           \/ \E r \in Registries : TestCredential(r)
  BY <1>2 DEF Login, TestCredential, Check, cliVars
<1>3. CASE RefreshInfo \/ HandshakeGoesOn \/ HandshakeEnds \/ UNCHANGED loginVars
  BY <1>3 DEF RefreshInfo, HandshakeGoesOn, HandshakeEnds, loginVars, cliVars
<1>4. CASE HandshakeFailed \/ Abandon
  BY <1>4 DEF HandshakeFailed, Abandon, DropChecks, cliVars
<1> QED
  BY <1>1, <1>2, <1>3, <1>4 DEF LoginNext

LEMMA EntriesOKStep ==
    ASSUME EntriesOK, OneCheck, [LoginNext]_loginVars
    PROVE  EntriesOK'
<1>1. CASE UNCHANGED <<walletVars, auths, forgotten>>
  BY <1>1 DEF EntriesOK, walletVars
<1>2. CASE WalletOpened \/ WalletLost
  BY <1>2 DEF WalletOpened, WalletLost, EntriesOK, cliVars
<1>3. CASE FileEdited
  BY <1>3 DEF FileEdited, EntriesOK, walletVars
<1>4. CASE Refresh
  <2>1. auths' = auths /\ forgotten' = forgotten
    BY <1>4 DEF Refresh, cliVars
  <2>2. ASSUME NEW written \in SUBSET Registries, entries' = Imported(Scanned, written)
        PROVE  entries' \in [Registries -> Secrets \cup {NoSecret, BrokenEntry}]
    BY <2>2, ScannedIsSecret DEF EntriesOK, Imported
  <2> QED
    BY <1>4, <2>1, <2>2 DEF Refresh, EntriesOK
<1>5. ASSUME NEW r \in Registries, RemoveCredential(r) PROVE EntriesOK'
  <2>1. entries' = [entries EXCEPT ![r] = NoSecret]
    BY <1>5 DEF RemoveCredential, RemoveFromWallet
  <2>2. /\ auths' = auths \/ auths' = WithoutEntry(r)
        /\ forgotten' \subseteq forgotten \cup {r}
    BY <1>5 DEF RemoveCredential
  <2> QED
    BY <2>1, <2>2 DEF EntriesOK, WithoutEntry, Maybe
<1>6. CASE LoginStored
  <2>1. pending.registry \in Registries /\ pending.secret \in Secrets
    BY <1>6 DEF LoginStored, Credentials
  <2>2. CASE UNCHANGED <<walletVars, auths, forgotten>>
    BY <1>1, <2>2
  <2>3. ASSUME entries' = [entries EXCEPT ![pending.registry] = pending.secret],
               auths' \in {auths} \cup (IF UpsertMay(pending.secret)
                                        THEN {Upserted(pending.registry, pending.secret)} ELSE {}),
               forgotten' = forgotten \ {pending.registry}
        PROVE  EntriesOK'
    <3>1. entries' \in [Registries -> Secrets \cup {NoSecret, BrokenEntry}]
      BY <2>1, <2>3 DEF EntriesOK
    <3>2. auths' \in [Registries -> [auth : Maybe(Passwords), token : Maybe(Tokens)]]
      BY <2>1, <2>3 DEF EntriesOK, UpsertMay, Upserted, Maybe
    <3> QED
      BY <2>3, <3>1, <3>2 DEF EntriesOK
  <2> QED
    BY <1>6, <2>2, <2>3 DEF LoginStored, StoreLogin
<1> QED
  BY <1>1, <1>2, <1>3, <1>4, <1>5, <1>6, WalletSteps

LEMMA EntriesOKInit == LoginInit => EntriesOK /\ OneCheck
<1>1. LoginInit => EntriesOK
  BY DEF LoginInit, EntriesOK, Maybe, Secrets
<1>2. LoginInit => OneCheck
  BY DEF LoginInit, OneCheck
<1> QED
  BY <1>1, <1>2

-----------------------------------------------------------------------------
\* Whatever the wallet holds was accepted by its registry, or read from the command line's file:
\* only the verdict about the credential of the login stores it
\* (RegistryAuthController::handleAuthCheckFinished()).
THEOREM OnlyAcceptedIsStored == LoginSpec => []StoredIsAccepted
<1>1. ASSUME EntriesOK, OneCheck, StoredIsAccepted, [LoginNext]_loginVars PROVE StoredIsAccepted'
  <2> USE DEF StoredIsAccepted
  <2>1. CASE entries' = entries /\ accepted \subseteq accepted'
    BY <1>1, <2>1
  <2>2. CASE WalletOpened \/ WalletLost \/ FileEdited
    BY <2>1, <2>2 DEF WalletOpened, WalletLost, FileEdited, walletVars
  <2>3. CASE Refresh
    <3>1. CASE UNCHANGED <<entries, accepted>>
      BY <2>1, <3>1
    <3>2. ASSUME NEW written \in SUBSET Registries,
                 entries' = Imported(Scanned, written),
                 accepted' = accepted \cup {Of(r, Scanned[r]) : r \in {q \in Registries : Scanned[q] # NoSecret}},
                 NEW r \in Registries, entries'[r] \in Secrets
          PROVE  Of(r, entries'[r]) \in accepted'
      <4>1. entries'[r] = entries[r] \/ (entries'[r] = Scanned[r] /\ Scanned[r] # NoSecret)
        BY <3>2 DEF Imported
      <4> QED
        BY <1>1, <3>2, <4>1
    <3> QED
      BY <2>3, <3>1, <3>2 DEF Refresh
  <2>4. ASSUME NEW r \in Registries, RemoveCredential(r) PROVE StoredIsAccepted'
    <3>1. entries' = [entries EXCEPT ![r] = NoSecret] /\ accepted' = accepted
      BY <2>4 DEF RemoveCredential, RemoveFromWallet
    <3> QED
      BY <1>1, <3>1, SecretsDiffer DEF EntriesOK
  <2>5. CASE LoginStored
    <3>1. /\ pending \in Credentials /\ accepted' = accepted \cup {pending}
          /\ entries' \in {entries, [entries EXCEPT ![pending.registry] = pending.secret]}
      BY <2>5 DEF LoginStored, StoreLogin, walletVars
    <3>2. Of(pending.registry, pending.secret) = pending
      BY <3>1 DEF Credentials, Of
    <3> QED
      BY <1>1, <3>1, <3>2 DEF EntriesOK
  <2> QED
    BY <1>1, <2>1, <2>2, <2>3, <2>4, <2>5, WalletSteps DEF walletVars
<1>2. LoginInit => StoredIsAccepted
  BY DEF LoginInit, StoredIsAccepted
<1>3. EntriesOK /\ OneCheck /\ StoredIsAccepted /\ [LoginNext]_loginVars
      => (EntriesOK /\ OneCheck /\ StoredIsAccepted)'
  BY <1>1, EntriesOKStep, OneCheckStep
<1> QED
  BY <1>2, <1>3, EntriesOKInit, PTL DEF LoginSpec

-----------------------------------------------------------------------------
\* The list shows what an open wallet holds, from the moment it opens, after every import, login
\* and removal (CredentialStore::changed() and RegistryCredentialModel::reload()).
THEOREM ListFollowsWallet == LoginSpec => []ListShowsWallet
<1>1. ASSUME OneCheck, ListShowsWallet, [LoginNext]_loginVars PROVE ListShowsWallet'
  <2> USE DEF ListShowsWallet
  <2>1. CASE UNCHANGED walletVars
    BY <1>1, <2>1 DEF walletVars, Decoded
  <2>2. CASE WalletOpened
    BY <1>1, <2>2 DEF WalletOpened, ReloadList, Usable
  <2>3. CASE WalletLost
    BY <2>3 DEF WalletLost
  <2>4. CASE FileEdited
    BY <2>1, <2>4 DEF FileEdited
  <2>5. CASE Refresh
    <3>1. wallet' = "open" => state' = "ready"
      BY <1>1, <2>5 DEF Refresh, OpenStore
    <3> QED
      BY <2>5, <3>1 DEF Refresh, ReloadList, Usable
  <2>6. ASSUME NEW r \in Registries, RemoveCredential(r) PROVE ListShowsWallet'
    BY <1>1, <2>6 DEF RemoveCredential, RemoveFromWallet, ReloadList, Usable
  <2>7. CASE LoginStored
    BY <1>1, <2>1, <2>7 DEF LoginStored, StoreLogin, ReloadList, Usable
  <2> QED
    BY <1>1, <2>1, <2>2, <2>3, <2>4, <2>5, <2>6, <2>7, WalletSteps
<1>2. LoginInit => ListShowsWallet
  BY DEF LoginInit, ListShowsWallet
<1>3. EntriesOK /\ OneCheck /\ ListShowsWallet /\ [LoginNext]_loginVars
      => (EntriesOK /\ OneCheck /\ ListShowsWallet)'
  BY <1>1, EntriesOKStep, OneCheckStep
<1> QED
  BY <1>2, <1>3, EntriesOKInit, PTL DEF LoginSpec

-----------------------------------------------------------------------------
\* What makes forgetting last: the file has no entry either that could be imported.
ForgottenEverywhere ==
    \A r \in forgotten : /\ entries[r] = NoSecret
                         /\ auths[r].auth = NoSecret /\ auths[r].token = NoSecret

LEMMA ForgottenStep ==
    ASSUME EntriesOK, OneCheck, ForgottenEverywhere, [LoginNext]_loginVars
    PROVE  ForgottenEverywhere'
<1> USE DEF ForgottenEverywhere
<1>1. CASE UNCHANGED <<entries, auths, forgotten>>
  BY <1>1
<1>2. CASE WalletOpened \/ WalletLost
  BY <1>1, <1>2 DEF WalletOpened, WalletLost, cliVars
<1>3. CASE FileEdited
  <2>1. entries' = entries
    BY <1>3 DEF FileEdited, walletVars
  <2>2. CASE UNCHANGED <<auths, forgotten>>
    BY <1>1, <2>1, <2>2
  <2>3. ASSUME NEW r \in Registries, NEW p, NEW t,
               auths' = [auths EXCEPT ![r] = [auth |-> p, token |-> t]],
               forgotten' = forgotten \ {r}
        PROVE  ForgottenEverywhere'
    BY <2>1, <2>3 DEF EntriesOK
  <2> QED
    BY <1>3, <2>2, <2>3 DEF FileEdited
<1>4. CASE Refresh
  <2>1. auths' = auths /\ forgotten' = forgotten
    BY <1>4 DEF Refresh, cliVars
  <2>2. ASSUME NEW r \in forgotten PROVE entries'[r] = NoSecret
    <3>1. r \in Registries /\ Scanned[r] = NoSecret
      BY <2>2 DEF EntriesOK, Scanned, EntryOf
    <3>2. entries' = entries \/ \E written \in SUBSET Registries : entries' = Imported(Scanned, written)
      BY <1>4 DEF Refresh
    <3> QED
      BY <2>2, <3>1, <3>2 DEF Imported
  <2> QED
    BY <2>1, <2>2
<1>5. ASSUME NEW r \in Registries, RemoveCredential(r) PROVE ForgottenEverywhere'
  <2>1. entries' = [entries EXCEPT ![r] = NoSecret]
    BY <1>5 DEF RemoveCredential, RemoveFromWallet
  <2>2. CASE auths' = WithoutEntry(r) /\ forgotten' = forgotten \cup {r}
    BY <2>1, <2>2 DEF EntriesOK, WithoutEntry
  <2>3. CASE UNCHANGED <<auths, forgotten>>
    BY <2>1, <2>3 DEF EntriesOK
  <2> QED
    BY <1>5, <2>2, <2>3 DEF RemoveCredential
<1>6. CASE LoginStored
  <2>1. CASE UNCHANGED <<walletVars, auths, forgotten>>
    BY <1>1, <2>1 DEF walletVars
  <2>2. ASSUME entries' = [entries EXCEPT ![pending.registry] = pending.secret],
               auths' \in {auths} \cup (IF UpsertMay(pending.secret)
                                        THEN {Upserted(pending.registry, pending.secret)} ELSE {}),
               forgotten' = forgotten \ {pending.registry}
        PROVE  ForgottenEverywhere'
    <3>1. \A r \in forgotten' : r \in Registries /\ entries'[r] = entries[r] /\ auths'[r] = auths[r]
      BY <2>2 DEF EntriesOK, Upserted
    <3> QED
      BY <2>2, <3>1
  <2> QED
    BY <1>6, <2>1, <2>2 DEF LoginStored, StoreLogin
<1> QED
  BY <1>1, <1>2, <1>3, <1>4, <1>5, <1>6, WalletSteps DEF walletVars

\* A credential removed from wallet and file does not come back by the silent import of a refresh
\* (RegistryAuthController::removeCredential() and importFromCliSilently()).
THEOREM ForgettingLasts == LoginSpec => []ForgottenStaysForgotten
<1>1. LoginInit => ForgottenEverywhere
  BY DEF LoginInit, ForgottenEverywhere
<1>2. EntriesOK /\ OneCheck /\ ForgottenEverywhere /\ [LoginNext]_loginVars
      => (EntriesOK /\ OneCheck /\ ForgottenEverywhere)'
  BY ForgottenStep, EntriesOKStep, OneCheckStep
<1>3. ForgottenEverywhere => ForgottenStaysForgotten
  BY DEF ForgottenEverywhere, ForgottenStaysForgotten
<1> QED
  BY <1>1, <1>2, <1>3, EntriesOKInit, PTL DEF LoginSpec
=============================================================================
