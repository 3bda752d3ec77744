----------------------------- MODULE Operations ------------------------------
(***************************************************************************)
(* OperationController (model/operation_controller.cpp) over the write     *)
(* jobs of the backend: one operation per target, the lists of pulls and   *)
(* builds, create-and-start and the read-only fallback.                    *)
(* The text of the last result is not kept.                                *)
(*                                                                         *)
(* mutationFinished() is delivered synchronously, so an action is a        *)
(* handler of the backend conjoined with the controller's slots.           *)
(***************************************************************************)
EXTENDS WriteJobs

CONSTANTS
    Existing,    \* containers that exist at the beginning
    NoContainer, \* m_createdContainerId is empty
    MaxIssued,   \* bound: operations asked for
    MaxAbandons  \* bound: times the watchdog gives up

ASSUME OperationsAssumption ==
    /\ Existing \subseteq Containers
    /\ NoContainer \notin Containers
    /\ MaxIssued \in Nat /\ MaxAbandons \in Nat

VARIABLES
    busy,         \* m_busyTargets
    degraded,     \* m_writeDegraded
    wishPending,  \* m_pendingStartAfterCreate
    startPending, \* m_startAfterCreateInFlight
    created,      \* m_createdContainerId
    pullEntries,  \* m_pullEntries: statusKey by reference, or "none"
    buildEntries, \* m_builds: statusKey by build id, or "none" or "cleared"
    existing,     \* external: containers the engine has
    unguarded,    \* history: targets with an operation that did not ask whether they are busy
    refused,      \* history: builds that were not sent, or whose archive was not written
    creates,      \* history: a create began before the last one, or the start after it, had ended
    misled,       \* history: a start was announced for a container that was not started
    issued,       \* operations asked for (only to bound the model)
    abandons      \* times the watchdog gave up (only to bound the model)

createVars == <<wishPending, startPending, created, existing, creates, misled>>
entryVars == <<pullEntries, buildEntries, refused>>
boundVars == <<issued, abandons>>
controllerVars == <<busy, degraded, unguarded, createVars, entryVars, boundVars>>
vars == <<handshakeVars, jobVars, controllerVars>>

Finished == {"succeeded", "failed", "cancelled"}

-----------------------------------------------------------------------------
\* Admission.

\* Fault: the busy set is not asked.
AdmitAnyTarget(t) == ~degraded

\* admit(), and the checks that the operations on volumes, networks and new containers make
\* themselves.
Admit(t) == ~degraded /\ t \notin busy

\* beginOperation() and the request it is followed by.
Begin(job) ==
    /\ issued < MaxIssued
    /\ issued' = issued + 1
    /\ busy' = busy \cup {job.target}
    /\ RunMutation(job)
    /\ UNCHANGED <<degraded, archives, entryVars, abandons>>

\* startContainer()
StartContainer(c) ==
    /\ c \in existing
    /\ Admit(ById(c))
    /\ Begin(Write("start", ById(c), FALSE))
    /\ UNCHANGED <<createVars, unguarded>>

\* A write that asks whether its target is busy.
Change(t) ==
    /\ Admit(t)
    /\ Begin(Write("change", t, FALSE))
    /\ UNCHANGED <<createVars, unguarded>>

\* stopContainer(), restartContainer(), removeContainer()
ChangeContainer(c) == c \in existing /\ Change(ById(c))

\* removeImage()
RemoveImage(i) == Change(ByReference(i))

\* createVolume(), removeVolume(), pruneVolumes(): a prune has a key of its own, so it may run
\* beside the removal of one of its volumes.
ChangeVolumes(t) == t \in VolumeTargets /\ Change(t)

\* createNetwork() by the name, removeNetwork() by the id
ChangeNetwork(n) == Change(ByNetwork(n))

\* connectContainerToNetwork(), disconnectContainerFromNetwork(): the key is that of the pair,
\* so a membership may change while its network or its container is removed.
ChangeMembership(n, c) == c \in existing /\ Change(Membership(n, c))

\* A write that does not ask whether its target is busy.
Unguarded(t) ==
    /\ ~degraded
    /\ Begin(Write("pause", t, FALSE))
    /\ unguarded' = unguarded \cup {t}
    /\ UNCHANGED createVars

\* pauseContainer(), unpauseContainer()
PauseContainer(c) == c \in existing /\ Unguarded(ById(c))

\* pruneBuildCache()
PruneBuildCache == Unguarded(BuildCache)

\* Fault: the wish of an earlier create is kept.
CreateContainerKeeping(c, wish) ==
    /\ Admit(ByName(c))
    /\ wishPending' = (wishPending \/ wish)
    /\ created' = NoContainer
    /\ Begin(Write("create", ByName(c), wish))
    /\ creates' = (creates \/ \E j \in Jobs : (j.mutation = "create" \/ j.wish) /\ Outstanding(j) > 0)
    /\ UNCHANGED <<startPending, existing, misled, unguarded>>

\* createContainer(): one pair of members serves every create.
CreateContainer(c, wish) ==
    /\ Admit(ByName(c))
    /\ wishPending' = wish
    /\ created' = NoContainer
    /\ Begin(Write("create", ByName(c), wish))
    /\ creates' = (creates \/ \E j \in Jobs : (j.mutation = "create" \/ j.wish) /\ Outstanding(j) > 0)
    /\ UNCHANGED <<startPending, existing, misled, unguarded>>

-----------------------------------------------------------------------------
\* Pulls and builds: they stay out of the busy set.

\* A reference may be pulled when it has no entry, not even a finished one.
MayPull(i) == pullEntries[i] = "none"

\* pullImage() of the controller and of the backend.
PullImage(i) ==
    /\ ~degraded /\ MayPull(i)
    /\ issued < MaxIssued
    /\ issued' = issued + 1
    /\ IF i \in pulls
       THEN /\ pullEntries' = [pullEntries EXCEPT ![i] = "failed"]
            /\ busy' = busy \ {ByReference(i)}
            /\ UNCHANGED <<handshakeVars, jobVars>>
       ELSE /\ pullEntries' = [pullEntries EXCEPT ![i] = "pulling"]
            /\ RunMutation(Pull(i))
            /\ UNCHANGED <<busy, archives>>
    /\ unguarded' = unguarded \cup {ByReference(i)}
    /\ UNCHANGED <<degraded, createVars, buildEntries, refused, abandons>>

\* What packBuildContext() leaves on disk: nothing when the context is refused or too large,
\* the archive when it is complete, and an empty archive when KTar cannot open it.
PackContext(b) ==
    \/ UNCHANGED <<archives, refused, buildEntries>>
    \/ /\ archives' = archives \cup {b}
       /\ refused' = refused \cup {b}
       /\ buildEntries' = [buildEntries EXCEPT ![b] = "cleared"]
    \/ /\ archives' = archives \cup {b}
       /\ buildEntries' = [buildEntries EXCEPT ![b] = "building"]
       /\ UNCHANGED refused

\* buildImage() of the backend: only a context that was packed is sent.
SendBuild(b, packed) ==
    IF packed THEN RunMutation(Build(b))
              ELSE UNCHANGED <<handshakeVars, queued, running, pulls, tainted>>

\* buildImage() of the controller.
BuildImage(b) ==
    /\ ~degraded /\ buildEntries[b] = "none"
    /\ issued < MaxIssued
    /\ issued' = issued + 1
    /\ PackContext(b)
    /\ SendBuild(b, buildEntries'[b] = "building")
    /\ UNCHANGED <<busy, degraded, unguarded, createVars, pullEntries, abandons>>

\* dismissPull() for one finished entry, clearFinishedPulls() for all of them.
DismissPulls(is) ==
    /\ is # {}
    /\ \A i \in is : pullEntries[i] \in Finished
    /\ pullEntries' = [i \in Images |-> IF i \in is THEN "none" ELSE pullEntries[i]]
    /\ UNCHANGED <<handshakeVars, jobVars, busy, degraded, unguarded, createVars,
                   buildEntries, refused, boundVars>>

\* clearFinishedBuilds()
ClearFinishedBuilds ==
    /\ \E b \in Builds : buildEntries[b] \in Finished
    /\ buildEntries' = [b \in Builds |->
                          IF buildEntries[b] \in Finished THEN "cleared" ELSE buildEntries[b]]
    /\ UNCHANGED <<handshakeVars, jobVars, busy, degraded, unguarded, createVars,
                   pullEntries, refused, boundVars>>

-----------------------------------------------------------------------------
\* onMutationFinished()

\* A failure may say that the engine denied the write: the session becomes read-only.
MayDegrade(failed) == \/ failed /\ degraded' = TRUE
                      \/ degraded' = degraded

\* The end of a start while a start after a create is in flight is taken for that one.
Chained(job, outcome) == startPending /\ job.mutation = "start" /\ outcome # "unchanged"

\* outcomeFor(): only a start and a stop are answered with "already so".
MayEnd(job, outcome) ==
    /\ job.mutation \in {"start", "change", "pause"} \/ (job.mutation = "create" /\ outcome = "failed")
    /\ outcome = "unchanged" => job.mutation \in {"start", "change"}

\* The end of any operation that is neither a pull nor a build nor a create that succeeded.
OperationEnds(job, outcome) ==
    /\ MayEnd(job, outcome)
    /\ RequestEnds(job)
    /\ busy' = busy \ {job.target}
    /\ MayDegrade(outcome = "failed" /\ ~Chained(job, outcome))
    /\ startPending' = (startPending /\ ~Chained(job, outcome))
    /\ misled' = (misled \/ /\ Chained(job, outcome) /\ outcome = "succeeded"
                            /\ job.target # ById(created))
    /\ IF outcome # "failed" \/ Chained(job, outcome) THEN Refetch ELSE UNCHANGED handshakeVars
    /\ UNCHANGED <<wishPending, created, existing, creates, unguarded, entryVars, boundVars>>

\* The slot of containerCreated(): m_pendingStartAfterCreate, whichever create set it last.
StartsNow == wishPending

\* The end of a create that succeeded: containerCreated(), then mutationFinished().
ContainerCreated(c, wish) ==
    LET job == Write("create", ByName(c), wish)
        start == Write("start", ById(c), TRUE)
    IN  /\ running[job] > 0 /\ c \notin existing
        /\ existing' = existing \cup {c}
        /\ created' = c
        /\ IF StartsNow
           THEN /\ RunMutationAfter(Ended(job), start)
                /\ startPending' = TRUE
                /\ unguarded' = unguarded \cup {ById(c)}
                /\ UNCHANGED archives
           ELSE /\ RequestEnds(job)
                /\ Refetch
                /\ UNCHANGED <<startPending, unguarded>>
        /\ busy' = busy \ {ByName(c)}
        /\ UNCHANGED <<degraded, wishPending, creates, misled, entryVars, boundVars>>

\* The end of a pull of the backend: when the stream is no longer registered, another one of
\* the same image has settled the pull already.  An error line makes a failure of a success.
PullFinished(i, outcome) ==
    /\ outcome = "succeeded" => Pull(i) \notin tainted
    /\ PullEnds(i)
    /\ IF i \in pulls
       THEN /\ busy' = busy \ {ByReference(i)}
            /\ pullEntries' = [pullEntries EXCEPT ![i] = IF @ = "none" THEN @ ELSE outcome]
            /\ MayDegrade(outcome = "failed")
            /\ IF outcome = "succeeded" THEN Refetch ELSE UNCHANGED handshakeVars
       ELSE UNCHANGED <<handshakeVars, busy, pullEntries, degraded>>
    /\ UNCHANGED <<unguarded, createVars, buildEntries, refused, boundVars>>

\* cancelPull(): the backend knows the pull once it has been sent.
CancelPull(i) == i \in pulls /\ PullFinished(i, "cancelled")

\* cancelAllPulls()
CancelAllPulls ==
    /\ pulls # {}
    /\ running' = [j \in Jobs |-> IF \E i \in pulls : j = Pull(i) THEN running[j] - 1 ELSE running[j]]
    /\ tainted' = tainted \ {Pull(i) : i \in pulls}
    /\ pulls' = {}
    /\ busy' = busy \ {ByReference(i) : i \in pulls}
    /\ pullEntries' = [i \in Images |-> IF i \in pulls THEN "cancelled" ELSE pullEntries[i]]
    /\ UNCHANGED <<handshakeVars, queued, archives, degraded, unguarded, createVars,
                   buildEntries, refused, boundVars>>

\* imageBuildFinished(), then mutationFinished().
BuildFinished(b, outcome) ==
    /\ outcome = "succeeded" => Build(b) \notin tainted
    /\ BuildEnds(b)
    /\ buildEntries' = [buildEntries EXCEPT ![b] = IF @ = "building" THEN outcome ELSE @]
    /\ MayDegrade(outcome = "failed")
    /\ IF outcome = "succeeded" THEN Refetch ELSE UNCHANGED handshakeVars
    /\ UNCHANGED <<busy, unguarded, createVars, pullEntries, refused, boundVars>>

\* cancelBuild(): the backend knows the build once it has been sent.
CancelBuild(b) == BuildFinished(b, "cancelled")

StreamError(job) ==
    /\ ErrorLine(job)
    /\ UNCHANGED <<handshakeVars, controllerVars>>

-----------------------------------------------------------------------------
\* The handshake, driven by the other pages as well.

RefreshInfo == ~engineBusy /\ RefreshEngineInfo /\ UNCHANGED <<jobVars, controllerVars>>
PingStep == PingPasses /\ UNCHANGED <<jobVars, controllerVars>>
VersionStep == VersionPasses /\ UNCHANGED <<jobVars, controllerVars>>

\* The counts of /info play no part here: it is always readable.
\* The answer of a build without its archive is onMutationFinished() alone, a failure that does
\* not degrade the session: the entry of the build is not touched.
QueueSent(lost) ==
    /\ HandshakeSucceeds /\ countsAvailable' = TRUE
    /\ SendQueue(lost)
    /\ busy' = busy \ {ByBuild(b) : b \in lost}
    /\ refused' = refused \cup lost
    /\ UNCHANGED <<degraded, unguarded, createVars, pullEntries, buildEntries, boundVars>>

Waiting == {j \in Jobs : queued[j] > 0}
StartWaits == startPending /\ \E j \in Waiting : j.mutation = "start"

\* A failure that the controller answers with a refresh starts the next handshake at once.
FailAndRestart(s) ==
    /\ steps[s] > 0
    /\ steps' = [steps EXCEPT ![s] = @ - 1, !["ping"] = @ + 1]
    /\ handshake' = TRUE /\ engineBusy' = TRUE
    /\ negotiated' = FALSE /\ engineAvailable' = FALSE /\ countsAvailable' = FALSE

AbandonAndRestart ==
    /\ steps' = [steps EXCEPT !["ping"] = @ + 1]
    /\ handshake' = TRUE /\ engineBusy' = TRUE
    /\ negotiated' = FALSE
    /\ UNCHANGED <<engineAvailable, countsAvailable>>

\* onMutationFinished() for every write of the queue.  A start that follows a create takes one
\* of the failures upon itself.
QueueFails(denied) ==
    LET others == IF StartWaits
                  THEN \E j, k \in Waiting : j.mutation # "start" \/ j # k \/ queued[j] > 1
                  ELSE Waiting # {}
    IN  /\ DropQueue
        /\ busy' = busy \ {j.target : j \in Waiting}
        /\ degraded' = (degraded \/ (denied /\ others))
        /\ startPending' = (startPending /\ ~StartWaits)
        /\ pullEntries' = [i \in Images |-> IF Pull(i) \in Waiting /\ pullEntries[i] # "none"
                                            THEN "failed" ELSE pullEntries[i]]
        /\ refused' = refused \cup {b \in Builds : Build(b) \in Waiting}
        /\ UNCHANGED <<wishPending, created, existing, creates, misled, unguarded, buildEntries, issued>>

\* finishHandshakeFailure()
HandshakeFailed(s, denied) ==
    /\ IF StartWaits THEN FailAndRestart(s) ELSE HandshakeFails(s)
    /\ QueueFails(denied)
    /\ UNCHANGED abandons

\* abandonInFlightRequests()
Abandon ==
    /\ abandons < MaxAbandons
    /\ abandons' = abandons + 1
    /\ IF StartWaits THEN AbandonAndRestart ELSE AbandonHandshake
    /\ QueueFails(FALSE)

-----------------------------------------------------------------------------

Init ==
    /\ HandshakeInit
    /\ JobsInit
    /\ busy = {}
    /\ degraded = FALSE
    /\ wishPending = FALSE
    /\ startPending = FALSE
    /\ created = NoContainer
    /\ pullEntries = [i \in Images |-> "none"]
    /\ buildEntries = [b \in Builds |-> "none"]
    /\ existing = Existing
    /\ unguarded = {}
    /\ refused = {}
    /\ creates = FALSE
    /\ misled = FALSE
    /\ issued = 0
    /\ abandons = 0

Next ==
    \/ \E c \in Containers : StartContainer(c) \/ ChangeContainer(c)
    \/ \E c \in Containers : PauseContainer(c)
    \/ PruneBuildCache
    \/ \E t \in Targets : ChangeVolumes(t)
    \/ \E n \in Networks : ChangeNetwork(n)
    \/ \E n \in Networks, c \in Containers : ChangeMembership(n, c)
    \/ \E i \in Images : RemoveImage(i)
    \/ \E c \in Containers, wish \in BOOLEAN : CreateContainer(c, wish) \/ ContainerCreated(c, wish)
    \/ \E i \in Images : PullImage(i) \/ CancelPull(i) \/ StreamError(Pull(i))
    \/ \E i \in Images, o \in {"succeeded", "failed"} : PullFinished(i, o)
    \/ \E is \in SUBSET Images : DismissPulls(is)
    \/ CancelAllPulls
    \/ \E b \in Builds : BuildImage(b) \/ CancelBuild(b) \/ StreamError(Build(b))
    \/ \E b \in Builds, o \in {"succeeded", "failed"} : BuildFinished(b, o)
    \/ ClearFinishedBuilds
    \/ \E j \in Jobs, o \in {"succeeded", "unchanged", "failed"} : OperationEnds(j, o)
    \/ RefreshInfo
    \/ PingStep
    \/ VersionStep
    \/ \E lost \in SUBSET Builds : QueueSent(lost)
    \/ \E s \in {"ping", "version"}, denied \in BOOLEAN : HandshakeFailed(s, denied)
    \/ Abandon

\* Every reply finishes, as in DockerBackend; for a pull and a build this is the idle timeout
\* of their stream.
Fairness ==
    /\ WF_vars(PingStep \/ HandshakeFailed("ping", FALSE))
    /\ WF_vars(VersionStep \/ HandshakeFailed("version", FALSE))
    /\ WF_vars(\E lost \in SUBSET Builds : QueueSent(lost))
    /\ \A i \in Images : WF_vars(\E o \in {"succeeded", "failed"} : PullFinished(i, o))
    /\ \A b \in Builds : WF_vars(\E o \in {"succeeded", "failed"} : BuildFinished(b, o))

Spec == Init /\ [][Next]_vars /\ Fairness

-----------------------------------------------------------------------------

\* The types of the variables.
TypeOK ==
    /\ JobsTypeOK
    /\ busy \subseteq Targets
    /\ degraded \in BOOLEAN /\ wishPending \in BOOLEAN /\ startPending \in BOOLEAN
    /\ created \in Containers \cup {NoContainer}
    /\ pullEntries \in [Images -> {"none", "pulling"} \cup Finished]
    /\ buildEntries \in [Builds -> {"none", "building", "cleared"} \cup Finished]
    /\ existing \subseteq Containers
    /\ unguarded \subseteq Targets
    /\ refused \subseteq Builds

\* A target shown as busy has an operation that will end it, whichever way the handshake, the
\* watchdog and the replies go; and on a target where nothing bypasses admission there is at
\* most one operation, which keeps it busy until it ends.
OneOperationPerTarget ==
    \A t \in Targets :
        /\ t \in busy => Working(t) # {}
        /\ t \notin unguarded /\ (\A b \in Builds : t # ByBuild(b)) =>
              /\ \A j \in Working(t) : Outstanding(j) = 1 /\ Working(t) = {j}
              /\ Working(t) # {} => t \in busy

\* The list of pulls shows what the backend does: an entry is running exactly while its pull
\* waits or streams, there is one pull per image, and the backend can still cancel it.
PullsAreShown ==
    \A i \in Images :
        /\ Outstanding(Pull(i)) <= 1
        /\ pullEntries[i] = "pulling" <=> Outstanding(Pull(i)) = 1
        /\ i \in pulls <=> running[Pull(i)] = 1

\* A build is shown as running exactly while it waits or runs, and so long it has its archive;
\* no archive outlives its build.  The exceptions are builds refused with their handshake or
\* for want of their archive, which nobody reports to the list, and an archive that could not
\* be opened.
BuildOwnsArchive ==
    \A b \in Builds :
        b \notin refused => /\ buildEntries[b] = "building" <=> Outstanding(Build(b)) = 1
                            /\ b \in archives <=> Outstanding(Build(b)) = 1

\* As long as no create begins before the last one and its start have ended, the one pair of
\* members serves: the flag of the wish is that of the create under way, and a start that
\* follows a create is that of the container created last.
WishIsKept ==
    ~creates => \A c \in Containers :
        LET start == Write("start", ById(c), TRUE)
        IN  /\ Outstanding(start) > 0 => created = c
            /\ Outstanding(Write("create", ByName(c), TRUE)) > 0 => wishPending
            /\ Outstanding(Write("create", ByName(c), FALSE)) > 0 => ~wishPending

\* A pull does not stay in the list as running for ever.
PullsSettle == \A i \in Images : pullEntries[i] = "pulling" ~> pullEntries[i] # "pulling"

\* A comment in the constructor of the controller says that started=true follows after step 2,
\* the start of the container just created, succeeds.
\* It does not hold: a second create replaces the members of the first.
AnnouncedStartIsTrue == ~misled
=============================================================================
