------------------------------ MODULE WriteJobs ------------------------------
(***************************************************************************)
(* The write operations of DockerBackend that OperationController starts:  *)
(* single requests, image pulls and image builds over the version          *)
(* handshake (backend/docker_backend.cpp).                                 *)
(*                                                                         *)
(* A write is a job: what it does and the target key it is reported with.  *)
(* "change" stands for every other write that OperationController admits   *)
(* one at a time (stop, restart, remove; volumes; networks), "pause" for   *)
(* pause and unpause.  Jobs that wait for the handshake, and jobs whose    *)
(* reply is on the wire, are counted: the queue is always emptied whole.   *)
(* A reply on the wire is one whose finished() is heard.                   *)
(***************************************************************************)
EXTENDS DockerHandshake, FiniteSets

CONSTANTS
    Containers, \* containers, also the ones that are not created yet
    Images,     \* normalized image references
    Builds,     \* build ids
    Volumes,    \* volume names
    Networks    \* networks: their ids, or their names while they are created

VARIABLES
    queued,     \* m_pendingMutations
    running,    \* requests on the wire
    pulls,      \* m_pulls: images with a registered pull
    tainted,    \* streams in which the engine has reported an error (ImagePullState::failed)
    archives    \* builds whose temporary archive is on disk

jobVars == <<queued, running, pulls, tainted, archives>>

-----------------------------------------------------------------------------
\* Target keys and jobs.

ById(c) == <<"container", c>>        \* container:<id>
ByName(c) == <<"container name", c>> \* container:<name>, while the id is not known
ByReference(i) == <<"image", i>>     \* image:<ref>, also for the removal of a tagged image
ByBuild(b) == <<"build", b>>
BuildCache == <<"build cache", "all">>
ByVolume(v) == <<"volume", v>>
VolumePrune == <<"volumes", "unused">>
ByNetwork(n) == <<"network", n>>
Membership(n, c) == <<"member", <<n, c>>>> \* network:<id>/<container>

VolumeTargets == {ByVolume(v) : v \in Volumes} \cup (IF Volumes = {} THEN {} ELSE {VolumePrune})
Memberships == {Membership(n, c) : n \in Networks, c \in Containers}
NetworkTargets == {ByNetwork(n) : n \in Networks} \cup Memberships

Targets ==
    {ById(c) : c \in Containers} \cup {ByName(c) : c \in Containers}
    \cup {ByReference(i) : i \in Images} \cup {ByBuild(b) : b \in Builds} \cup {BuildCache}
    \cup VolumeTargets \cup NetworkTargets

\* wish: a create that asks for a start, or a start that follows a create.
Write(mutation, target, wish) == [mutation |-> mutation, target |-> target, wish |-> wish]
Pull(i) == Write("pull", ByReference(i), FALSE)
Build(b) == Write("build", ByBuild(b), FALSE)

Jobs ==
    [mutation : {"start"}, target : {ById(c) : c \in Containers}, wish : BOOLEAN]
    \cup [mutation : {"create"}, target : {ByName(c) : c \in Containers}, wish : BOOLEAN]
    \cup [mutation : {"change", "pause"}, target : {ById(c) : c \in Containers}, wish : {FALSE}]
    \cup [mutation : {"change"}, target : {ByReference(i) : i \in Images}, wish : {FALSE}]
    \cup [mutation : {"change"}, target : VolumeTargets \cup NetworkTargets, wish : {FALSE}]
    \cup {Pull(i) : i \in Images} \cup {Build(b) : b \in Builds}
    \cup {Write("pause", BuildCache, FALSE)}

Outstanding(j) == queued[j] + running[j]
Working(t) == {j \in Jobs : j.target = t /\ Outstanding(j) > 0}

JobsInit ==
    /\ queued = [j \in Jobs |-> 0]
    /\ running = [j \in Jobs |-> 0]
    /\ pulls = {}
    /\ tainted = {}
    /\ archives = {}

-----------------------------------------------------------------------------
\* The parts of the backend's handlers that change the jobs.

\* startPullRequest() for the pulls of is: the state of an earlier pull is overwritten.
RegisterPulls(is) ==
    /\ pulls' = pulls \cup is
    /\ tainted' = tainted \ {Pull(i) : i \in is}

\* runMutation(job), when ended requests have just left the wire.
RunMutationAfter(ended, job) ==
    /\ IF negotiated
       THEN /\ running' = [ended EXCEPT ![job] = @ + 1]
            /\ UNCHANGED queued
            /\ RegisterPulls({i \in Images : job = Pull(i)})
            /\ UNCHANGED handshakeVars
       ELSE /\ queued' = [queued EXCEPT ![job] = @ + 1]
            /\ running' = ended
            /\ UNCHANGED <<pulls, tainted>>
            /\ JoinHandshake

RunMutation(job) == RunMutationAfter(running, job)

\* The end of one request.
Ended(job) == [running EXCEPT ![job] = @ - 1]

\* A refresh asked for by the slot of mutationFinished(): it needs a handshake as well.
Refetch == IF negotiated THEN UNCHANGED handshakeVars ELSE JoinHandshake

\* The finished handler of a single request.
RequestEnds(job) ==
    /\ running[job] > 0
    /\ running' = Ended(job)
    /\ UNCHANGED <<queued, pulls, tainted, archives>>

\* Fault: a pull is forgotten only when its own stream reported an error.
PullEndsKeeping(i) ==
    /\ running[Pull(i)] > 0
    /\ running' = Ended(Pull(i))
    /\ pulls' = IF Pull(i) \in tainted THEN pulls \ {i} ELSE pulls
    /\ tainted' = tainted \ {Pull(i)}
    /\ UNCHANGED <<queued, archives>>

\* finishPull(), also after the cancellation, which settles the reply at once.
PullEnds(i) ==
    /\ running[Pull(i)] > 0
    /\ running' = Ended(Pull(i))
    /\ pulls' = pulls \ {i}
    /\ tainted' = tainted \ {Pull(i)}
    /\ UNCHANGED <<queued, archives>>

\* Fault: a cancelled or failed build leaves its archive behind.
BuildEndsKeeping(b) ==
    /\ running[Build(b)] > 0
    /\ running' = Ended(Build(b))
    /\ archives' = IF Build(b) \in tainted THEN archives ELSE archives \ {b}
    /\ tainted' = tainted \ {Build(b)}
    /\ UNCHANGED <<queued, pulls>>

\* finishBuild(): the archive is deleted however the build ended.
BuildEnds(b) ==
    /\ running[Build(b)] > 0
    /\ running' = Ended(Build(b))
    /\ archives' = archives \ {b}
    /\ tainted' = tainted \ {Build(b)}
    /\ UNCHANGED <<queued, pulls>>

\* handlePullLine() and handleBuildLine() for a line that reports an error: the HTTP status
\* is still a success.
ErrorLine(job) ==
    /\ running[job] > 0
    /\ job \notin tainted
    /\ tainted' = tainted \cup {job}
    /\ UNCHANGED <<queued, running, pulls, archives>>

\* Fault: a pull that had to wait is taken from the queue but not sent.
SendQueueWithoutPulls(lost) ==
    /\ running' = [j \in Jobs |-> IF j.mutation = "pull" THEN running[j] ELSE running[j] + queued[j]]
    /\ queued' = [j \in Jobs |-> 0]
    /\ lost = {}
    /\ UNCHANGED <<pulls, tainted, archives>>

\* flushReadyCallbacks() after a handshake: every write of the queue is sent, except the builds
\* in lost, whose archive somebody else has deleted from the temporary directory while they
\* waited.  These only end with mutationFinished(), which reports them as failed.
SendQueue(lost) ==
    /\ \A b \in lost : b \in archives /\ queued[Build(b)] > 0
    /\ running' = [j \in Jobs |-> IF \E b \in lost : j = Build(b) THEN running[j]
                                                                ELSE running[j] + queued[j]]
    /\ queued' = [j \in Jobs |-> 0]
    /\ archives' = archives \ lost
    /\ RegisterPulls({i \in Images : queued[Pull(i)] > 0})

\* flushReadyCallbacks() with an error: every write of the queue is reported as failed.  A
\* build is not: only mutationFinished() is emitted, and its archive stays.
DropQueue ==
    /\ queued' = [j \in Jobs |-> 0]
    /\ UNCHANGED <<running, pulls, tainted, archives>>

JobsTypeOK ==
    /\ HandshakeTypeOK
    /\ queued \in [Jobs -> Nat]
    /\ running \in [Jobs -> Nat]
    /\ pulls \subseteq Images
    /\ tainted \subseteq Jobs
    /\ archives \subseteq Builds
=============================================================================
