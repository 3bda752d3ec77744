--------------------------- MODULE OperationsProofs ---------------------------
(***************************************************************************)
(* Proofs about Operations: for any containers, images, builds, volumes    *)
(* and networks, any number of operations, handshakes and failures.        *)
(***************************************************************************)
EXTENDS Operations, TLAPS

-----------------------------------------------------------------------------
\* Jobs and their target keys.

LEMMA PullFacts ==
    ASSUME NEW i \in Images
    PROVE  /\ Pull(i) \in Jobs /\ Pull(i).mutation = "pull" /\ Pull(i).wish = FALSE
           /\ Pull(i).target = ByReference(i) /\ ByReference(i) \in Targets
           /\ \A k \in Images : Pull(k) = Pull(i) => k = i
           /\ \A b \in Builds : ByBuild(b) # ByReference(i)
  BY DEF Pull, Write, Jobs, ByReference, ByBuild, Targets

LEMMA BuildFacts ==
    ASSUME NEW b \in Builds
    PROVE  /\ Build(b) \in Jobs /\ Build(b).mutation = "build" /\ Build(b).wish = FALSE
           /\ Build(b).target = ByBuild(b)
           /\ \A a \in Builds : Build(a) = Build(b) => a = b
  BY DEF Build, Write, Jobs, ByBuild

LEMMA ContainerFacts ==
    ASSUME NEW c \in Containers, NEW wish \in BOOLEAN
    PROVE  /\ Write("start", ById(c), wish) \in Jobs /\ Write("create", ByName(c), wish) \in Jobs
           /\ Write("change", ById(c), FALSE) \in Jobs /\ Write("pause", ById(c), FALSE) \in Jobs
           /\ ById(c) \in Targets /\ ByName(c) \in Targets
  BY DEF Write, Jobs, Targets

LEMMA OtherFacts ==
    /\ Write("pause", BuildCache, FALSE) \in Jobs
    /\ \A t \in VolumeTargets \cup NetworkTargets : Write("change", t, FALSE) \in Jobs
    /\ \A i \in Images : Write("change", ByReference(i), FALSE) \in Jobs
  BY DEF Write, Jobs

\* Only a build is reported with the key of a build.
LEMMA BuildTargets ==
    ASSUME NEW j \in Jobs
    PROVE  /\ j.target \in Targets
           /\ j.mutation # "build" => \A b \in Builds : j.target # ByBuild(b)
           /\ j.mutation = "build" => \E b \in Builds : j = Build(b)
<1> DEFINE Plain == Targets \ {ByBuild(b) : b \in Builds}
<1>1. /\ {ById(c) : c \in Containers} \cup {ByName(c) : c \in Containers} \subseteq Plain
      /\ {ByReference(i) : i \in Images} \cup {BuildCache} \subseteq Plain
  <2>1. \A c \in Containers : ById(c) \in Plain /\ ByName(c) \in Plain
    BY DEF Targets, ById, ByName, ByBuild
  <2>2. \A i \in Images : ByReference(i) \in Plain
    BY DEF Targets, ByReference, ByBuild
  <2>3. BuildCache \in Plain
    BY DEF Targets, BuildCache, ByBuild
  <2> QED
    BY <2>1, <2>2, <2>3
<1>2. VolumeTargets \cup NetworkTargets \subseteq Plain
  <2>1. VolumeTargets \subseteq Plain
    BY DEF VolumeTargets, Targets, ByVolume, VolumePrune, ByBuild
  <2>2. {ByNetwork(n) : n \in Networks} \subseteq Plain
    BY DEF NetworkTargets, Targets, ByNetwork, ByBuild
  <2>3. Memberships \subseteq Plain
    BY DEF NetworkTargets, Memberships, Targets, Membership, ByBuild
  <2> QED
    BY <2>1, <2>2, <2>3 DEF NetworkTargets
<1>3. CASE j \in {Pull(i) : i \in Images} \cup {Build(b) : b \in Builds}
  <2>1. \A b \in Builds : ByBuild(b) \in Targets
    BY DEF Targets
  <2>2. CASE j \in {Pull(i) : i \in Images}
    BY <2>2, PullFacts
  <2>3. CASE j \in {Build(b) : b \in Builds}
    BY <2>1, <2>3, BuildFacts
  <2> QED
    BY <1>3, <2>2, <2>3
<1>4. CASE ~(j \in {Pull(i) : i \in Images} \cup {Build(b) : b \in Builds})
  <2>1. j.mutation # "build" /\ j.target \in Plain
    <3> HIDE DEF Plain
    <3>1. CASE \/ j \in [mutation : {"start"}, target : {ById(c) : c \in Containers}, wish : BOOLEAN]
               \/ j \in [mutation : {"create"}, target : {ByName(c) : c \in Containers}, wish : BOOLEAN]
      BY <1>1, <3>1
    <3>2. CASE j \in [mutation : {"change", "pause"}, target : {ById(c) : c \in Containers}, wish : {FALSE}]
      BY <1>1, <3>2
    <3>3. CASE j \in [mutation : {"change"}, target : {ByReference(i) : i \in Images}, wish : {FALSE}]
      BY <1>1, <3>3
    <3>4. CASE j \in [mutation : {"change"}, target : VolumeTargets \cup NetworkTargets, wish : {FALSE}]
      BY <1>2, <3>4
    <3>5. CASE j = Write("pause", BuildCache, FALSE)
      BY <1>1, <3>5 DEF Write
    <3> QED
      BY <1>4, <3>1, <3>2, <3>3, <3>4, <3>5 DEF Jobs
  <2> QED
    BY <2>1
<1> QED
  BY <1>3, <1>4

LEMMA BuildShare ==
    ASSUME NEW j \in Jobs, NEW k \in Jobs, j.target = k.target, k.mutation # "build"
    PROVE  j.mutation # "build"
<1> SUFFICES ASSUME j.mutation = "build" PROVE FALSE
  OBVIOUS
<1>1. PICK b \in Builds : j = Build(b)
  BY BuildTargets
<1>2. k.target = ByBuild(b)
  BY <1>1, BuildFacts
<1>3. k.target # ByBuild(b)
  BY BuildTargets
<1> QED
  BY <1>2, <1>3

-----------------------------------------------------------------------------
\* The invariant.

CountsOK ==
    /\ queued \in [Jobs -> Nat] /\ running \in [Jobs -> Nat]
    /\ pulls \subseteq Images
    /\ pullEntries \in [Images -> {"none", "pulling"} \cup Finished]
    /\ buildEntries \in [Builds -> {"none", "building", "cleared"} \cup Finished]

\* OneOperationPerTarget, job by job: what keeps it is that a target outside `unguarded' is busy
\* as long as it has a job, and no build is ever in the busy set.
TargetsInv ==
    /\ \A b \in Builds : ByBuild(b) \notin busy
    /\ \A t \in busy : \E j \in Jobs : j.target = t /\ Outstanding(j) > 0
    /\ \A j \in Jobs :
          j.mutation # "build" /\ j.target \notin unguarded /\ Outstanding(j) > 0 =>
             /\ j.target \in busy
             /\ Outstanding(j) = 1
             /\ \A k \in Jobs : k.target = j.target /\ Outstanding(k) > 0 => k = j

BuildsInv ==
    \A b \in Builds :
        b \notin refused => /\ Outstanding(Build(b)) <= 1
                            /\ buildEntries[b] = "building" <=> Outstanding(Build(b)) = 1
                            /\ b \in archives <=> Outstanding(Build(b)) = 1

OperationsInv == CountsOK /\ TargetsInv /\ PullsAreShown /\ BuildsInv

LEMMA OutstandingNat ==
    ASSUME CountsOK, NEW j \in Jobs
    PROVE  Outstanding(j) \in Nat /\ queued[j] \in Nat /\ running[j] \in Nat
  BY DEF CountsOK, Outstanding

-----------------------------------------------------------------------------
\* What the parts of the backend's handlers do to the counts.

LEMMA RunEffect ==
    ASSUME CountsOK, NEW ended \in [Jobs -> Nat], NEW job \in Jobs, RunMutationAfter(ended, job)
    PROVE  /\ queued' \in [Jobs -> Nat] /\ running' \in [Jobs -> Nat]
           /\ Outstanding(job)' = queued[job] + ended[job] + 1
           /\ \A j \in Jobs : j # job => queued'[j] = queued[j] /\ running'[j] = ended[j]
  BY DEF CountsOK, RunMutationAfter, Outstanding

\* A pull is registered when it is sent, any other job leaves the registered pulls alone.
LEMMA RunPullEffect ==
    ASSUME CountsOK, NEW ended \in [Jobs -> Nat], NEW job \in Jobs, RunMutationAfter(ended, job)
    PROVE  /\ job.mutation # "pull" => pulls' = pulls
           /\ \A i \in Images : job = Pull(i) =>
                 \/ pulls' = pulls \cup {i} /\ running'[job] = ended[job] + 1 /\ queued'[job] = queued[job]
                 \/ pulls' = pulls /\ running'[job] = ended[job] /\ queued'[job] = queued[job] + 1
<1>1. CASE negotiated
  <2>1. /\ running' = [ended EXCEPT ![job] = @ + 1] /\ queued' = queued
        /\ pulls' = pulls \cup {i \in Images : job = Pull(i)}
    BY <1>1 DEF RunMutationAfter, RegisterPulls
  <2>2. job.mutation # "pull" => {i \in Images : job = Pull(i)} = {}
    BY PullFacts
  <2>3. \A i \in Images : job = Pull(i) => {k \in Images : job = Pull(k)} = {i}
    BY PullFacts
  <2> QED
    BY <2>1, <2>2, <2>3 DEF CountsOK
<1>2. CASE ~negotiated
  BY <1>2 DEF RunMutationAfter, CountsOK
<1> QED
  BY <1>1, <1>2

-----------------------------------------------------------------------------
\* The targets.

\* A job is added.
LEMMA TargetsAfterBegin ==
    ASSUME CountsOK, TargetsInv, NEW job \in Jobs,
           \A j \in Jobs : Outstanding(j)' = IF j = job THEN Outstanding(j) + 1 ELSE Outstanding(j),
           unguarded \subseteq unguarded',
           \/ job.mutation = "build" /\ busy' = busy
           \/ job.target \in unguarded' /\ busy' = busy
           \/ job.mutation # "build" /\ job.target \in unguarded' /\ busy' = busy \cup {job.target}
           \/ job.mutation # "build" /\ job.target \notin busy /\ busy' = busy \cup {job.target}
    PROVE  TargetsInv'
<1> DEFINE Out(j) == Outstanding(j)
<1>1. \A j \in Jobs : Outstanding(j) \in Nat
  BY OutstandingNat
<1>2. \A b \in Builds : ByBuild(b) \notin busy'
  BY BuildTargets DEF TargetsInv
<1>3. \A t \in busy' : \E j \in Jobs : j.target = t /\ Outstanding(j)' > 0
  <2> SUFFICES ASSUME NEW t \in busy' PROVE \E j \in Jobs : j.target = t /\ Outstanding(j)' > 0
    OBVIOUS
  <2>1. CASE t \in busy
    <3>1. PICK j \in Jobs : j.target = t /\ Outstanding(j) > 0
      BY <2>1 DEF TargetsInv
    <3>2. Outstanding(j)' > 0
      BY <1>1, <3>1
    <3> QED
      BY <3>1, <3>2
  <2>2. CASE t = job.target
    <3>1. Outstanding(job)' > 0
      BY <1>1
    <3> QED
      BY <2>2, <3>1
  <2> QED
    BY <2>1, <2>2
<1>4. ASSUME NEW j \in Jobs, j.mutation # "build", j.target \notin unguarded', Outstanding(j)' > 0
      PROVE  /\ j.target \in busy'
             /\ Outstanding(j)' = 1
             /\ \A k \in Jobs : k.target = j.target /\ Outstanding(k)' > 0 => k = j
  <2>1. j.target \notin unguarded
    BY <1>4
  <2>2. CASE j.target = job.target
    <3>1. job.mutation # "build"
      BY <1>4, <2>2, BuildShare
    <3>2. job.target \notin busy /\ busy' = busy \cup {job.target}
      BY <1>4, <2>2, <3>1
    <3>3. \A k \in Jobs : k.target = j.target => ~(Outstanding(k) > 0)
      <4> SUFFICES ASSUME NEW k \in Jobs, k.target = j.target, Outstanding(k) > 0 PROVE FALSE
        OBVIOUS
      <4>1. k.mutation # "build"
        BY <1>4, BuildShare
      <4> QED
        BY <2>1, <2>2, <3>2, <4>1 DEF TargetsInv
    <3>4. \A k \in Jobs : k.target = j.target => Outstanding(k) = 0
      BY <1>1, <3>3
    <3>5. j = job
      BY <1>1, <1>4, <3>4
    <3>6. \A k \in Jobs : k.target = j.target /\ Outstanding(k)' > 0 => k = job
      BY <1>1, <3>4
    <3> QED
      BY <1>1, <2>2, <3>2, <3>4, <3>5, <3>6
  <2>3. CASE j.target # job.target
    <3>1. Outstanding(j) > 0 /\ Outstanding(j)' = Outstanding(j)
      BY <1>4, <2>3
    <3>2. \A k \in Jobs : k.target = j.target => Outstanding(k)' = Outstanding(k)
      BY <2>3
    <3>3. /\ j.target \in busy /\ Outstanding(j) = 1
          /\ \A k \in Jobs : k.target = j.target /\ Outstanding(k) > 0 => k = j
      BY <1>4, <2>1, <3>1 DEF TargetsInv
    <3> QED
      BY <3>1, <3>2, <3>3
  <2> QED
    BY <2>2, <2>3
<1> QED
  BY <1>2, <1>3, <1>4 DEF TargetsInv

\* Jobs end, and the targets of `released' leave the busy set.
LEMMA TargetsAfterEnd ==
    ASSUME CountsOK, TargetsInv, NEW released,
           busy' = busy \ released, unguarded \subseteq unguarded',
           \A j \in Jobs : Outstanding(j)' \in Nat /\ Outstanding(j)' <= Outstanding(j),
           \A j \in Jobs : j.mutation # "build" /\ j.target \notin released
                           => Outstanding(j)' = Outstanding(j),
           \A j \in Jobs : j.mutation # "build" /\ j.target \in released /\ j.target \notin unguarded'
                           => Outstanding(j)' = 0
    PROVE  TargetsInv'
<1>1. \A j \in Jobs : Outstanding(j) \in Nat
  BY OutstandingNat
<1>2. \A b \in Builds : ByBuild(b) \notin busy'
  BY DEF TargetsInv
<1>3. \A t \in busy' : \E j \in Jobs : j.target = t /\ Outstanding(j)' > 0
  <2> SUFFICES ASSUME NEW t \in busy' PROVE \E j \in Jobs : j.target = t /\ Outstanding(j)' > 0
    OBVIOUS
  <2>1. PICK j \in Jobs : j.target = t /\ Outstanding(j) > 0
    BY DEF TargetsInv
  <2>2. j.mutation # "build"
    <3>1. \A b \in Builds : Build(b).target = ByBuild(b)
      BY BuildFacts
    <3>2. \A b \in Builds : t # ByBuild(b)
      BY <1>2
    <3> QED
      BY <2>1, <3>1, <3>2, BuildTargets
  <2>3. Outstanding(j)' = Outstanding(j)
    BY <2>1, <2>2
  <2> QED
    BY <2>1, <2>3
<1>4. ASSUME NEW j \in Jobs, j.mutation # "build", j.target \notin unguarded', Outstanding(j)' > 0
      PROVE  /\ j.target \in busy'
             /\ Outstanding(j)' = 1
             /\ \A k \in Jobs : k.target = j.target /\ Outstanding(k)' > 0 => k = j
  <2>1. j.target \notin released /\ j.target \notin unguarded
    BY <1>1, <1>4
  <2>2. Outstanding(j)' = Outstanding(j)
    BY <1>4, <2>1
  <2>3. /\ j.target \in busy /\ Outstanding(j) = 1
        /\ \A k \in Jobs : k.target = j.target /\ Outstanding(k) > 0 => k = j
    BY <1>4, <2>1, <2>2 DEF TargetsInv
  <2>4. \A k \in Jobs : Outstanding(k)' > 0 => Outstanding(k) > 0
    BY <1>1
  <2> QED
    BY <2>1, <2>2, <2>3, <2>4
<1> QED
  BY <1>2, <1>3, <1>4 DEF TargetsInv
-----------------------------------------------------------------------------
\* Pulls and builds that a step does not touch.

LEMMA PullsIdle ==
    ASSUME PullsAreShown, UNCHANGED <<pulls, pullEntries>>,
           \A i \in Images : queued'[Pull(i)] = queued[Pull(i)] /\ running'[Pull(i)] = running[Pull(i)]
    PROVE  PullsAreShown'
  BY DEF PullsAreShown, Outstanding

LEMMA BuildsIdle ==
    ASSUME BuildsInv, UNCHANGED <<archives, buildEntries>>, refused \subseteq refused',
           \A b \in Builds : queued'[Build(b)] = queued[Build(b)] /\ running'[Build(b)] = running[Build(b)]
    PROVE  BuildsInv'
  BY DEF BuildsInv, Outstanding

-----------------------------------------------------------------------------
\* The actions.

LEMMA IdleKeeps ==
    ASSUME OperationsInv,
           UNCHANGED <<queued, running, pulls, archives, busy, pullEntries, buildEntries, unguarded, refused>>
    PROVE  OperationsInv'
<1>1. CountsOK'
  BY DEF OperationsInv, CountsOK
<1>2. TargetsInv'
  BY DEF OperationsInv, TargetsInv, Outstanding
<1>3. PullsAreShown'
  BY PullsIdle DEF OperationsInv
<1>4. BuildsInv'
  BY BuildsIdle DEF OperationsInv
<1> QED
  BY <1>1, <1>2, <1>3, <1>4 DEF OperationsInv

\* beginOperation() and the request, for every write that is neither a pull nor a build.
LEMMA BeginKeeps ==
    ASSUME OperationsInv, NEW job \in Jobs, job.mutation \notin {"pull", "build"}, Begin(job),
           unguarded \subseteq unguarded', job.target \in unguarded' \/ job.target \notin busy
    PROVE  OperationsInv'
<1>1. CountsOK /\ TargetsInv /\ PullsAreShown /\ BuildsInv /\ running \in [Jobs -> Nat]
  BY DEF OperationsInv, CountsOK
<1>2. /\ RunMutationAfter(running, job) /\ busy' = busy \cup {job.target}
      /\ UNCHANGED <<archives, pullEntries, buildEntries, refused>>
  BY DEF Begin, RunMutation, entryVars
<1>3. /\ queued' \in [Jobs -> Nat] /\ running' \in [Jobs -> Nat]
      /\ Outstanding(job)' = queued[job] + running[job] + 1
      /\ \A j \in Jobs : j # job => queued'[j] = queued[j] /\ running'[j] = running[j]
  BY <1>1, <1>2, RunEffect
<1>4. pulls' = pulls
  BY <1>1, <1>2, RunPullEffect
<1>5. CountsOK'
  BY <1>1, <1>2, <1>3, <1>4 DEF CountsOK
<1>6. TargetsInv'
  <2>1. \A j \in Jobs : Outstanding(j)' = IF j = job THEN Outstanding(j) + 1 ELSE Outstanding(j)
    BY <1>3 DEF Outstanding
  <2> QED
    BY <1>1, <1>2, <2>1, TargetsAfterBegin
<1>7. PullsAreShown'
  BY <1>1, <1>2, <1>3, <1>4, PullFacts, PullsIdle
<1>8. BuildsInv'
  BY <1>1, <1>2, <1>3, BuildFacts, BuildsIdle
<1> QED
  BY <1>5, <1>6, <1>7, <1>8 DEF OperationsInv

LEMMA PullImageKeeps ==
    ASSUME OperationsInv, NEW i \in Images, PullImage(i)
    PROVE  OperationsInv'
<1> DEFINE job == Pull(i)
<1>1. CountsOK /\ TargetsInv /\ PullsAreShown /\ BuildsInv /\ running \in [Jobs -> Nat]
  BY DEF OperationsInv, CountsOK
<1>2. /\ job \in Jobs /\ job.mutation = "pull" /\ job.target = ByReference(i)
      /\ \A k \in Images : k # i => Pull(k) # job
  BY PullFacts
<1>3. queued[job] \in Nat /\ running[job] \in Nat
  BY <1>1, <1>2, OutstandingNat
<1>4. pullEntries[i] = "none" /\ Outstanding(job) = 0 /\ i \notin pulls
  <2>1. pullEntries[i] = "none"
    BY DEF PullImage, MayPull
  <2>2. Outstanding(job) <= 1 /\ Outstanding(job) # 1
    BY <1>1, <2>1 DEF PullsAreShown
  <2>3. Outstanding(job) = 0 /\ running[job] = 0
    BY <1>3, <2>2 DEF Outstanding
  <2> QED
    BY <1>1, <2>1, <2>3 DEF PullsAreShown
<1>5. /\ RunMutationAfter(running, job) /\ pullEntries' = [pullEntries EXCEPT ![i] = "pulling"]
      /\ UNCHANGED <<busy, archives, buildEntries, refused>>
      /\ unguarded' = unguarded \cup {job.target}
  BY <1>2, <1>4 DEF PullImage, RunMutation
<1> HIDE DEF job
<1>6. /\ queued' \in [Jobs -> Nat] /\ running' \in [Jobs -> Nat]
      /\ Outstanding(job)' = queued[job] + running[job] + 1
      /\ \A j \in Jobs : j # job => queued'[j] = queued[j] /\ running'[j] = running[j]
  BY <1>1, <1>2, <1>5, RunEffect
<1>7. \/ pulls' = pulls \cup {i} /\ running'[job] = running[job] + 1
      \/ pulls' = pulls /\ running'[job] = running[job]
  BY <1>1, <1>2, <1>5, RunPullEffect DEF job
<1>8. CountsOK'
  BY <1>1, <1>5, <1>6, <1>7 DEF CountsOK
<1>9. TargetsInv'
  <2>1. \A j \in Jobs : Outstanding(j)' = IF j = job THEN Outstanding(j) + 1 ELSE Outstanding(j)
    BY <1>2, <1>6 DEF Outstanding
  <2> QED
    BY <1>1, <1>2, <1>5, <2>1, TargetsAfterBegin
<1>10. PullsAreShown'
  <2> SUFFICES ASSUME NEW k \in Images
               PROVE  /\ Outstanding(Pull(k))' <= 1
                      /\ pullEntries'[k] = "pulling" <=> Outstanding(Pull(k))' = 1
                      /\ k \in pulls' <=> running'[Pull(k)] = 1
    BY DEF PullsAreShown
  <2>1. CASE k = i
    <3>1. queued[job] = 0 /\ running[job] = 0
      BY <1>3, <1>4 DEF Outstanding
    <3>2. Outstanding(job)' = 1 /\ pullEntries'[i] = "pulling"
      BY <1>1, <1>5, <1>6, <3>1 DEF CountsOK
    <3>3. i \in pulls' <=> running'[job] = 1
      BY <1>4, <1>7, <3>1
    <3> QED
      BY <2>1, <3>2, <3>3 DEF job
  <2>2. CASE k # i
    <3>1. Pull(k) # job /\ Pull(k) \in Jobs
      BY <1>2, <2>2, PullFacts
    <3>2. Outstanding(Pull(k))' = Outstanding(Pull(k)) /\ running'[Pull(k)] = running[Pull(k)]
      BY <1>6, <3>1 DEF Outstanding
    <3>3. pullEntries'[k] = pullEntries[k] /\ (k \in pulls' <=> k \in pulls)
      BY <1>1, <1>5, <1>7, <2>2 DEF CountsOK
    <3> QED
      BY <1>1, <3>2, <3>3 DEF PullsAreShown
  <2> QED
    BY <2>1, <2>2
<1>11. BuildsInv'
  BY <1>1, <1>2, <1>5, <1>6, BuildFacts, BuildsIdle
<1> QED
  BY <1>8, <1>9, <1>10, <1>11 DEF OperationsInv

LEMMA BuildImageKeeps ==
    ASSUME OperationsInv, NEW b \in Builds, BuildImage(b)
    PROVE  OperationsInv'
<1> DEFINE job == Build(b)
<1>1. CountsOK /\ TargetsInv /\ PullsAreShown /\ BuildsInv /\ running \in [Jobs -> Nat]
  BY DEF OperationsInv, CountsOK
<1>2. /\ job \in Jobs /\ job.mutation = "build"
      /\ \A a \in Builds : a # b => Build(a) # job
  BY BuildFacts
<1>3. /\ buildEntries[b] = "none" /\ PackContext(b) /\ SendBuild(b, buildEntries'[b] = "building")
      /\ UNCHANGED <<busy, unguarded, pullEntries>>
  BY DEF BuildImage
<1>4. CASE UNCHANGED <<archives, refused, buildEntries>>
  <2>1. ~(buildEntries'[b] = "building")
    BY <1>3, <1>4
  <2>2. UNCHANGED <<queued, running, pulls>>
    BY <1>3, <2>1 DEF SendBuild
  <2> QED
    BY <1>3, <1>4, <2>2, IdleKeeps
<1>5. CASE /\ archives' = archives \cup {b} /\ refused' = refused \cup {b}
           /\ buildEntries' = [buildEntries EXCEPT ![b] = "cleared"]
  <2>1. ~(buildEntries'[b] = "building")
    BY <1>1, <1>5 DEF CountsOK
  <2>2. UNCHANGED <<queued, running, pulls>>
    BY <1>3, <2>1 DEF SendBuild
  <2>3. CountsOK'
    BY <1>1, <1>3, <1>5, <2>2 DEF CountsOK
  <2>4. TargetsInv'
    BY <1>1, <1>3, <2>2 DEF TargetsInv, Outstanding
  <2>5. PullsAreShown'
    BY <1>1, <1>3, <2>2, PullsIdle
  <2>6. BuildsInv'
    BY <1>1, <1>5, <2>2 DEF BuildsInv, CountsOK, Outstanding
  <2> QED
    BY <2>3, <2>4, <2>5, <2>6 DEF OperationsInv
<1>6. CASE /\ archives' = archives \cup {b} /\ refused' = refused
           /\ buildEntries' = [buildEntries EXCEPT ![b] = "building"]
  <2>1. buildEntries'[b] = "building"
    BY <1>1, <1>6 DEF CountsOK
  <2>2. RunMutationAfter(running, job)
    BY <1>3, <2>1 DEF SendBuild, RunMutation
  <2> HIDE DEF job
  <2>3. /\ queued' \in [Jobs -> Nat] /\ running' \in [Jobs -> Nat]
        /\ Outstanding(job)' = queued[job] + running[job] + 1
        /\ \A j \in Jobs : j # job => queued'[j] = queued[j] /\ running'[j] = running[j]
    BY <1>1, <1>2, <2>2, RunEffect
  <2>4. pulls' = pulls
    BY <1>1, <1>2, <2>2, RunPullEffect
  <2>5. CountsOK'
    BY <1>1, <1>3, <1>6, <2>3, <2>4 DEF CountsOK
  <2>6. TargetsInv'
    <3>1. \A j \in Jobs : Outstanding(j)' = IF j = job THEN Outstanding(j) + 1 ELSE Outstanding(j)
      BY <2>3 DEF Outstanding
    <3> QED
      BY <1>1, <1>2, <1>3, <3>1, TargetsAfterBegin
  <2>7. PullsAreShown'
    BY <1>1, <1>2, <1>3, <2>3, <2>4, PullFacts, PullsIdle
  <2>8. BuildsInv'
    <3> SUFFICES ASSUME NEW a \in Builds, a \notin refused
                 PROVE  /\ Outstanding(Build(a))' <= 1
                        /\ buildEntries'[a] = "building" <=> Outstanding(Build(a))' = 1
                        /\ a \in archives' <=> Outstanding(Build(a))' = 1
      BY <1>6 DEF BuildsInv
    <3>1. CASE a = b
      <4>1. Outstanding(job) <= 1 /\ Outstanding(job) # 1 /\ Outstanding(job) \in Nat
        BY <1>1, <1>2, <1>3, <3>1, OutstandingNat DEF BuildsInv, job
      <4>2. Outstanding(job)' = 1
        BY <2>3, <4>1 DEF Outstanding
      <4> QED
        BY <1>6, <2>1, <3>1, <4>2 DEF job
    <3>2. CASE a # b
      <4>1. Outstanding(Build(a))' = Outstanding(Build(a))
        BY <1>2, <2>3, <3>2, BuildFacts DEF Outstanding
      <4>2. buildEntries'[a] = buildEntries[a] /\ (a \in archives' <=> a \in archives)
        BY <1>1, <1>6, <3>2 DEF CountsOK
      <4> QED
        BY <1>1, <4>1, <4>2 DEF BuildsInv
    <3> QED
      BY <3>1, <3>2
  <2> QED
    BY <2>5, <2>6, <2>7, <2>8 DEF OperationsInv
<1> QED
  BY <1>3, <1>4, <1>5, <1>6 DEF PackContext
\* One request ends: its count is less by one, the others stay.
LEMMA EndEffect ==
    ASSUME CountsOK, NEW job \in Jobs, running[job] > 0, running' = Ended(job), queued' = queued
    PROVE  /\ running' \in [Jobs -> Nat] /\ queued' \in [Jobs -> Nat]
           /\ Outstanding(job)' = Outstanding(job) - 1 /\ running'[job] = running[job] - 1
           /\ \A j \in Jobs : j # job => queued'[j] = queued[j] /\ running'[j] = running[j]
           /\ \A j \in Jobs : Outstanding(j)' \in Nat /\ Outstanding(j)' <= Outstanding(j)
           /\ \A j \in Jobs : j # job => Outstanding(j)' = Outstanding(j)
  BY DEF CountsOK, Ended, Outstanding

\* On a target that nothing but admitted writes use, the end of its job is the end of all.
LEMMA TargetReleased ==
    ASSUME CountsOK, TargetsInv, NEW job \in Jobs, job.mutation # "build", running[job] > 0,
           running' = Ended(job), queued' = queued,
           busy' = busy \ {job.target}, unguarded \subseteq unguarded'
    PROVE  TargetsInv'
<1>1. /\ \A j \in Jobs : Outstanding(j)' \in Nat /\ Outstanding(j)' <= Outstanding(j)
      /\ \A j \in Jobs : j # job => Outstanding(j)' = Outstanding(j)
      /\ Outstanding(job)' = Outstanding(job) - 1
  BY EndEffect
<1>2. ASSUME NEW j \in Jobs, j.target = job.target, j.target \notin unguarded'
      PROVE  Outstanding(j)' = 0
  <2>1. Outstanding(job) > 0 /\ \A k \in Jobs : Outstanding(k) \in Nat
    BY OutstandingNat DEF Outstanding
  <2>2. /\ Outstanding(job) = 1
        /\ \A k \in Jobs : k.target = job.target /\ Outstanding(k) > 0 => k = job
    BY <1>2, <2>1 DEF TargetsInv
  <2> QED
    BY <1>1, <1>2, <2>1, <2>2
<1>3. \A j \in Jobs : j.mutation # "build" /\ j.target \notin {job.target}
                      => Outstanding(j)' = Outstanding(j)
  BY <1>1
<1>4. \A j \in Jobs : j.mutation # "build" /\ j.target \in {job.target} /\ j.target \notin unguarded'
                      => Outstanding(j)' = 0
  BY <1>2
<1> QED
  BY <1>1, <1>3, <1>4, TargetsAfterEnd

\* Nothing changes for the targets, or only for builds.
LEMMA TargetsSettle ==
    ASSUME CountsOK, TargetsInv, UNCHANGED <<busy, unguarded>>,
           \A j \in Jobs : Outstanding(j)' \in Nat /\ Outstanding(j)' <= Outstanding(j),
           \A j \in Jobs : j.mutation # "build" => Outstanding(j)' = Outstanding(j)
    PROVE  TargetsInv'
<1>1. \A b \in Builds : ByBuild(b) \notin busy'
  BY DEF TargetsInv
<1>2. \A t \in busy' : \E j \in Jobs : j.target = t /\ Outstanding(j)' > 0
  <2> SUFFICES ASSUME NEW t \in busy PROVE \E j \in Jobs : j.target = t /\ Outstanding(j)' > 0
    OBVIOUS
  <2>1. PICK j \in Jobs : j.target = t /\ Outstanding(j) > 0
    BY DEF TargetsInv
  <2>2. j.mutation # "build"
    <3>1. \A b \in Builds : Build(b).target = ByBuild(b)
      BY BuildFacts
    <3>2. \A b \in Builds : t # ByBuild(b)
      BY <1>1
    <3> QED
      BY <2>1, <3>1, <3>2, BuildTargets
  <2> QED
    BY <2>1, <2>2
<1>3. ASSUME NEW j \in Jobs, j.mutation # "build", j.target \notin unguarded', Outstanding(j)' > 0
      PROVE  /\ j.target \in busy'
             /\ Outstanding(j)' = 1
             /\ \A k \in Jobs : k.target = j.target /\ Outstanding(k)' > 0 => k = j
  <2>1. \A k \in Jobs : Outstanding(k)' > 0 => Outstanding(k) > 0
    BY OutstandingNat
  <2> QED
    BY <1>3, <2>1 DEF TargetsInv
<1> QED
  BY <1>1, <1>2, <1>3 DEF TargetsInv

LEMMA EndKeeps ==
    ASSUME OperationsInv, NEW job \in Jobs, job.mutation \notin {"pull", "build"},
           RequestEnds(job), busy' = busy \ {job.target},
           UNCHANGED <<unguarded, entryVars>>
    PROVE  OperationsInv'
<1>1. CountsOK /\ TargetsInv /\ PullsAreShown /\ BuildsInv
  BY DEF OperationsInv
<1>2. /\ running[job] > 0 /\ running' = Ended(job)
      /\ UNCHANGED <<queued, pulls, archives, unguarded, pullEntries, buildEntries, refused>>
  BY DEF RequestEnds, entryVars
<1>3. /\ running' \in [Jobs -> Nat]
      /\ \A j \in Jobs : j # job => queued'[j] = queued[j] /\ running'[j] = running[j]
  BY <1>1, <1>2, EndEffect
<1>4. CountsOK'
  BY <1>1, <1>2, <1>3 DEF CountsOK
<1>5. TargetsInv'
  BY <1>1, <1>2, TargetReleased
<1>6. PullsAreShown'
  BY <1>1, <1>2, <1>3, PullFacts, PullsIdle
<1>7. BuildsInv'
  BY <1>1, <1>2, <1>3, BuildFacts, BuildsIdle
<1> QED
  BY <1>4, <1>5, <1>6, <1>7 DEF OperationsInv

LEMMA OperationEndsKeeps ==
    ASSUME OperationsInv, NEW job \in Jobs, NEW o, OperationEnds(job, o)
    PROVE  OperationsInv'
<1>1. job.mutation \notin {"pull", "build"}
  BY DEF OperationEnds, MayEnd
<1>2. RequestEnds(job) /\ busy' = busy \ {job.target} /\ UNCHANGED <<unguarded, entryVars>>
  BY DEF OperationEnds
<1> QED
  BY <1>1, <1>2, EndKeeps

\* The create leaves the wire, and the start that follows it is issued by the same slot.
LEMMA ContainerCreatedKeeps ==
    ASSUME OperationsInv, NEW c \in Containers, NEW wish \in BOOLEAN, ContainerCreated(c, wish)
    PROVE  OperationsInv'
<1> DEFINE job == Write("create", ByName(c), wish)
<1> DEFINE start == Write("start", ById(c), TRUE)
<1>1. /\ job \in Jobs /\ job.mutation = "create" /\ job.target = ByName(c)
      /\ start \in Jobs /\ start.mutation = "start" /\ start.target = ById(c)
      /\ start # job /\ start.target # job.target
  BY ContainerFacts DEF Write, ById, ByName
<1>2. CountsOK /\ TargetsInv /\ PullsAreShown /\ BuildsInv /\ running \in [Jobs -> Nat]
  BY DEF OperationsInv, CountsOK
<1>3. /\ running[job] > 0 /\ busy' = busy \ {job.target}
      /\ UNCHANGED <<pullEntries, buildEntries, refused>>
  BY <1>1 DEF ContainerCreated, entryVars
<1>4. CASE RequestEnds(job) /\ UNCHANGED unguarded
  BY <1>1, <1>3, <1>4, EndKeeps DEF entryVars
<1>5. CASE /\ RunMutationAfter(Ended(job), start)
           /\ unguarded' = unguarded \cup {start.target} /\ UNCHANGED archives
  <2> HIDE DEF job, start
  <2>1. /\ Ended(job) \in [Jobs -> Nat] /\ Ended(job)[job] = running[job] - 1
        /\ \A j \in Jobs : j # job => Ended(job)[j] = running[j]
    BY <1>1, <1>2, <1>3 DEF Ended
  <2>2. /\ queued' \in [Jobs -> Nat] /\ running' \in [Jobs -> Nat]
        /\ Outstanding(start)' = queued[start] + Ended(job)[start] + 1
        /\ \A j \in Jobs : j # start => queued'[j] = queued[j] /\ running'[j] = Ended(job)[j]
    BY <1>1, <1>2, <1>5, <2>1, RunEffect
  <2>3. pulls' = pulls
    BY <1>1, <1>2, <1>5, <2>1, RunPullEffect
  <2>4. CountsOK'
    BY <1>2, <1>3, <2>2, <2>3 DEF CountsOK
  <2>5. /\ Outstanding(job)' = Outstanding(job) - 1
        /\ Outstanding(start)' = Outstanding(start) + 1
        /\ \A j \in Jobs : j # job /\ j # start => Outstanding(j)' = Outstanding(j)
    BY <1>1, <1>2, <2>1, <2>2 DEF Outstanding, CountsOK
  <2>6. TargetsInv'
    <3>1. \A j \in Jobs : Outstanding(j) \in Nat
      BY <1>2, OutstandingNat
    <3>2. Outstanding(job) > 0
      BY <1>1, <1>2, <1>3 DEF Outstanding, CountsOK
    <3>3. \A b \in Builds : ByBuild(b) \notin busy'
      BY <1>2, <1>3 DEF TargetsInv
    <3>4. ASSUME NEW t \in busy' PROVE \E j \in Jobs : j.target = t /\ Outstanding(j)' > 0
      <4>1. t \in busy /\ t # job.target
        BY <1>3, <3>4
      <4>2. PICK j \in Jobs : j.target = t /\ Outstanding(j) > 0
        BY <1>2, <4>1 DEF TargetsInv
      <4>3. Outstanding(j)' >= Outstanding(j)
        BY <1>1, <2>5, <3>1, <4>1, <4>2
      <4> QED
        BY <2>2, <3>1, <4>2, <4>3 DEF Outstanding
    <3>5. ASSUME NEW j \in Jobs, j.mutation # "build", j.target \notin unguarded', Outstanding(j)' > 0
          PROVE  /\ j.target \in busy'
                 /\ Outstanding(j)' = 1
                 /\ \A k \in Jobs : k.target = j.target /\ Outstanding(k)' > 0 => k = j
      <4>1. j.target \notin unguarded /\ j.target # start.target
        BY <1>5, <3>5
      <4>2. Outstanding(j) > 0
        BY <2>5, <3>1, <3>5, <4>1, <1>1
      <4>3. /\ j.target \in busy /\ Outstanding(j) = 1
            /\ \A k \in Jobs : k.target = j.target /\ Outstanding(k) > 0 => k = j
        BY <1>2, <3>5, <4>1, <4>2 DEF TargetsInv
      <4>4. j.target # job.target
        <5> SUFFICES ASSUME j.target = job.target PROVE FALSE
          OBVIOUS
        <5>1. j = job
          BY <1>1, <3>2, <4>3
        <5> QED
          BY <2>5, <3>5, <4>3, <5>1
      <4>5. \A k \in Jobs : k.target = j.target => Outstanding(k)' = Outstanding(k)
        BY <2>5, <4>1, <4>4
      <4> QED
        BY <1>3, <4>3, <4>4, <4>5
    <3> QED
      BY <3>3, <3>4, <3>5 DEF TargetsInv
  <2>7. PullsAreShown'
    <3>1. \A i \in Images : Pull(i) \in Jobs /\ Pull(i) # job /\ Pull(i) # start
      BY <1>1, PullFacts
    <3> QED
      BY <1>2, <1>3, <2>1, <2>2, <2>3, <3>1, PullsIdle
  <2>8. BuildsInv'
    <3>1. \A b \in Builds : Build(b) \in Jobs /\ Build(b) # job /\ Build(b) # start
      BY <1>1, BuildFacts
    <3> QED
      BY <1>2, <1>3, <1>5, <2>1, <2>2, <3>1, BuildsIdle
  <2> QED
    BY <2>4, <2>6, <2>7, <2>8 DEF OperationsInv
<1> QED
  BY <1>1, <1>4, <1>5 DEF ContainerCreated

\* finishPull(): the pull that ends is the registered one.
LEMMA PullFinishedKeeps ==
    ASSUME OperationsInv, NEW i \in Images, NEW o \in Finished, PullFinished(i, o)
    PROVE  OperationsInv'
<1> DEFINE job == Pull(i)
<1>1. CountsOK /\ TargetsInv /\ PullsAreShown /\ BuildsInv
  BY DEF OperationsInv
<1>2. /\ job \in Jobs /\ job.mutation = "pull" /\ job.target = ByReference(i)
      /\ \A k \in Images : k # i => Pull(k) # job
  BY PullFacts
<1>3. running[job] > 0 /\ running' = Ended(job) /\ UNCHANGED <<queued, archives>> /\ pulls' = pulls \ {i}
  BY DEF PullFinished, PullEnds
<1>4. /\ Outstanding(job) <= 1 /\ (pullEntries[i] = "pulling" <=> Outstanding(job) = 1)
      /\ i \in pulls <=> running[job] = 1
  BY <1>1 DEF PullsAreShown
<1>5. Outstanding(job) = 1 /\ running[job] = 1 /\ i \in pulls
  BY <1>1, <1>2, <1>3, <1>4, OutstandingNat DEF Outstanding
<1>6. /\ busy' = busy \ {job.target}
      /\ pullEntries' = [pullEntries EXCEPT ![i] = IF @ = "none" THEN @ ELSE o]
      /\ UNCHANGED <<unguarded, buildEntries, refused>>
  BY <1>2, <1>5 DEF PullFinished
<1> HIDE DEF job
<1>7. /\ running' \in [Jobs -> Nat]
      /\ Outstanding(job)' = Outstanding(job) - 1 /\ running'[job] = running[job] - 1
      /\ \A j \in Jobs : j # job => queued'[j] = queued[j] /\ running'[j] = running[j]
  BY <1>1, <1>2, <1>3, EndEffect
<1>8. CountsOK'
  BY <1>1, <1>3, <1>6, <1>7 DEF CountsOK
<1>9. TargetsInv'
  BY <1>1, <1>2, <1>3, <1>6, TargetReleased
<1>10. PullsAreShown'
  <2> SUFFICES ASSUME NEW k \in Images
               PROVE  /\ Outstanding(Pull(k))' <= 1
                      /\ pullEntries'[k] = "pulling" <=> Outstanding(Pull(k))' = 1
                      /\ k \in pulls' <=> running'[Pull(k)] = 1
    BY DEF PullsAreShown
  <2>1. CASE k = i
    <3>1. Outstanding(job)' = 0 /\ running'[job] = 0
      BY <1>5, <1>7
    <3>2. pullEntries'[i] # "pulling"
      BY <1>1, <1>6 DEF CountsOK, Finished
    <3> QED
      BY <1>3, <2>1, <3>1, <3>2 DEF job
  <2>2. CASE k # i
    <3>1. Pull(k) # job /\ Pull(k) \in Jobs
      BY <1>2, <2>2, PullFacts
    <3>2. Outstanding(Pull(k))' = Outstanding(Pull(k)) /\ running'[Pull(k)] = running[Pull(k)]
      BY <1>7, <3>1 DEF Outstanding
    <3>3. pullEntries'[k] = pullEntries[k] /\ (k \in pulls' <=> k \in pulls)
      BY <1>1, <1>3, <1>6, <2>2 DEF CountsOK
    <3> QED
      BY <1>1, <3>2, <3>3 DEF PullsAreShown
  <2> QED
    BY <2>1, <2>2
<1>11. BuildsInv'
  BY <1>1, <1>2, <1>3, <1>6, <1>7, BuildFacts, BuildsIdle
<1> QED
  BY <1>8, <1>9, <1>10, <1>11 DEF OperationsInv
LEMMA CancelAllPullsKeeps ==
    ASSUME OperationsInv, CancelAllPulls
    PROVE  OperationsInv'
<1> DEFINE Cancelled == {Pull(i) : i \in pulls}
<1> DEFINE released == {ByReference(i) : i \in pulls}
<1>1. CountsOK /\ TargetsInv /\ PullsAreShown /\ BuildsInv
  BY DEF OperationsInv
<1>2. /\ running' = [j \in Jobs |-> IF \E i \in pulls : j = Pull(i) THEN running[j] - 1 ELSE running[j]]
      /\ pulls' = {} /\ busy' = busy \ released
      /\ pullEntries' = [i \in Images |-> IF i \in pulls THEN "cancelled" ELSE pullEntries[i]]
      /\ UNCHANGED <<queued, archives, unguarded, buildEntries, refused>>
  BY DEF CancelAllPulls
<1>3. ASSUME NEW i \in Images
      PROVE  /\ Outstanding(Pull(i)) <= 1 /\ (pullEntries[i] = "pulling" <=> Outstanding(Pull(i)) = 1)
             /\ i \in pulls <=> running[Pull(i)] = 1
             /\ i \in pulls => queued[Pull(i)] = 0 /\ pullEntries[i] = "pulling"
             /\ queued[Pull(i)] \in Nat /\ running[Pull(i)] \in Nat
  <2>1. /\ Outstanding(Pull(i)) <= 1 /\ (pullEntries[i] = "pulling" <=> Outstanding(Pull(i)) = 1)
        /\ i \in pulls <=> running[Pull(i)] = 1
    BY <1>1 DEF PullsAreShown
  <2>2. queued[Pull(i)] \in Nat /\ running[Pull(i)] \in Nat
    BY <1>1, PullFacts, OutstandingNat
  <2> QED
    BY <2>1, <2>2 DEF Outstanding
<1>4. ASSUME NEW i \in Images
      PROVE  running'[Pull(i)] = IF i \in pulls THEN running[Pull(i)] - 1 ELSE running[Pull(i)]
  <2>1. Pull(i) \in Jobs /\ ((\E k \in pulls : Pull(i) = Pull(k)) <=> i \in pulls)
    BY <1>1, PullFacts DEF CountsOK
  <2> QED
    BY <1>2, <2>1
<1>5. ASSUME NEW j \in Jobs
      PROVE  /\ running'[j] \in Nat /\ running'[j] <= running[j]
             /\ j.mutation # "pull" => running'[j] = running[j]
  <2>1. CASE \E i \in pulls : j = Pull(i)
    <3>1. PICK i \in pulls : j = Pull(i)
      BY <2>1
    <3>2. i \in Images /\ j.mutation = "pull"
      BY <1>1, <3>1, PullFacts DEF CountsOK
    <3> QED
      BY <1>3, <1>4, <3>1, <3>2
  <2>2. CASE ~(\E i \in pulls : j = Pull(i))
    BY <1>1, <1>2, <2>2 DEF CountsOK
  <2> QED
    BY <2>1, <2>2
<1>6. CountsOK'
  <2>1. running' \in [Jobs -> Nat]
    BY <1>2, <1>5
  <2> QED
    BY <1>1, <1>2, <2>1 DEF CountsOK, Finished
<1>7. TargetsInv'
  <2>1. ASSUME NEW j \in Jobs PROVE Outstanding(j)' \in Nat /\ Outstanding(j)' <= Outstanding(j)
    BY <1>1, <1>2, <1>5 DEF Outstanding, CountsOK
  <2>2. ASSUME NEW j \in Jobs, j.mutation # "build", j.target \notin released
        PROVE  Outstanding(j)' = Outstanding(j)
    <3>1. ~(\E i \in pulls : j = Pull(i))
      BY <1>1, <2>2, PullFacts DEF CountsOK
    <3> QED
      BY <1>2, <3>1 DEF Outstanding
  <2>3. ASSUME NEW j \in Jobs, j.mutation # "build", j.target \in released, j.target \notin unguarded'
        PROVE  Outstanding(j)' = 0
    <3>1. PICK i \in pulls : j.target = ByReference(i)
      BY <2>3
    <3>2. /\ i \in Images /\ Pull(i) \in Jobs /\ Pull(i).mutation # "build" /\ Pull(i).target = j.target
          /\ running[Pull(i)] = 1 /\ queued[Pull(i)] = 0
      BY <1>1, <1>3, <3>1, PullFacts DEF CountsOK
    <3>3. Outstanding(Pull(i)) > 0 /\ Outstanding(Pull(i))' = 0
      BY <1>2, <1>4, <3>1, <3>2 DEF Outstanding
    <3>4. Outstanding(j) > 0 => j = Pull(i)
      BY <1>1, <1>2, <2>3, <3>2, <3>3 DEF TargetsInv
    <3>5. Outstanding(j) \in Nat
      BY <1>1, OutstandingNat
    <3> QED
      BY <2>1, <3>3, <3>4, <3>5
  <2> QED
    BY <1>1, <1>2, <2>1, <2>2, <2>3, TargetsAfterEnd
<1>8. PullsAreShown'
  <2> SUFFICES ASSUME NEW i \in Images
               PROVE  /\ Outstanding(Pull(i))' <= 1
                      /\ pullEntries'[i] = "pulling" <=> Outstanding(Pull(i))' = 1
                      /\ i \in pulls' <=> running'[Pull(i)] = 1
    BY DEF PullsAreShown
  <2>1. CASE i \in pulls
    BY <1>2, <1>3, <1>4, <2>1 DEF Outstanding
  <2>2. CASE i \notin pulls
    <3>1. running'[Pull(i)] = running[Pull(i)] /\ queued'[Pull(i)] = queued[Pull(i)]
      BY <1>2, <1>4, <2>2
    <3>2. pullEntries'[i] = pullEntries[i] /\ i \notin pulls'
      BY <1>2, <2>2
    <3>3. Outstanding(Pull(i))' = Outstanding(Pull(i))
      BY <3>1 DEF Outstanding
    <3>4. running'[Pull(i)] # 1
      BY <1>3, <2>2, <3>1
    <3> QED
      BY <1>3, <3>2, <3>3, <3>4
  <2> QED
    BY <2>1, <2>2
<1>9. BuildsInv'
  BY <1>1, <1>2, <1>5, BuildFacts, BuildsIdle
<1> QED
  BY <1>6, <1>7, <1>8, <1>9 DEF OperationsInv

LEMMA BuildFinishedKeeps ==
    ASSUME OperationsInv, NEW b \in Builds, NEW o \in Finished, BuildFinished(b, o)
    PROVE  OperationsInv'
<1> DEFINE job == Build(b)
<1>1. CountsOK /\ TargetsInv /\ PullsAreShown /\ BuildsInv
  BY DEF OperationsInv
<1>2. /\ job \in Jobs /\ job.mutation = "build"
      /\ \A a \in Builds : a # b => Build(a) # job
  BY BuildFacts
<1>3. /\ running[job] > 0 /\ running' = Ended(job) /\ archives' = archives \ {b}
      /\ buildEntries' = [buildEntries EXCEPT ![b] = IF @ = "building" THEN o ELSE @]
      /\ UNCHANGED <<queued, pulls, busy, unguarded, pullEntries, refused>>
  BY DEF BuildFinished, BuildEnds
<1> HIDE DEF job
<1>4. /\ running' \in [Jobs -> Nat]
      /\ Outstanding(job)' = Outstanding(job) - 1
      /\ \A j \in Jobs : j # job => queued'[j] = queued[j] /\ running'[j] = running[j]
      /\ \A j \in Jobs : Outstanding(j)' \in Nat /\ Outstanding(j)' <= Outstanding(j)
      /\ \A j \in Jobs : j # job => Outstanding(j)' = Outstanding(j)
  BY <1>1, <1>2, <1>3, EndEffect
<1>5. CountsOK'
  BY <1>1, <1>3, <1>4 DEF CountsOK
<1>6. TargetsInv'
  BY <1>1, <1>2, <1>3, <1>4, TargetsSettle
<1>7. PullsAreShown'
  BY <1>1, <1>2, <1>3, <1>4, PullFacts, PullsIdle
<1>8. BuildsInv'
  <2> SUFFICES ASSUME NEW a \in Builds, a \notin refused
               PROVE  /\ Outstanding(Build(a))' <= 1
                      /\ buildEntries'[a] = "building" <=> Outstanding(Build(a))' = 1
                      /\ a \in archives' <=> Outstanding(Build(a))' = 1
    BY <1>3 DEF BuildsInv
  <2>1. CASE a = b
    <3>1. Outstanding(job) = 1
      <4>1. Outstanding(job) <= 1
        BY <1>1, <2>1 DEF BuildsInv, job
      <4>2. Outstanding(job) >= 1
        BY <1>1, <1>2, <1>3, OutstandingNat DEF Outstanding
      <4> QED
        BY <1>1, <1>2, <4>1, <4>2, OutstandingNat
    <3>2. Outstanding(job)' = 0
      BY <1>4, <3>1
    <3>3. buildEntries'[b] # "building"
      BY <1>1, <1>3 DEF CountsOK, Finished
    <3> QED
      BY <1>3, <2>1, <3>2, <3>3 DEF job
  <2>2. CASE a # b
    <3>1. Outstanding(Build(a))' = Outstanding(Build(a))
      BY <1>2, <1>4, <2>2, BuildFacts
    <3>2. buildEntries'[a] = buildEntries[a] /\ (a \in archives' <=> a \in archives)
      BY <1>1, <1>3, <2>2 DEF CountsOK
    <3> QED
      BY <1>1, <3>1, <3>2 DEF BuildsInv
  <2> QED
    BY <2>1, <2>2
<1> QED
  BY <1>5, <1>6, <1>7, <1>8 DEF OperationsInv

\* flushReadyCallbacks() without an error: what waited is on the wire, except the builds whose
\* archive is gone.
LEMMA QueueSentKeeps ==
    ASSUME OperationsInv, NEW lost \in SUBSET Builds, QueueSent(lost)
    PROVE  OperationsInv'
<1> DEFINE left(j) == \E b \in lost : j = Build(b)
<1>1. CountsOK /\ TargetsInv /\ PullsAreShown /\ BuildsInv
  BY DEF OperationsInv
<1>2. /\ running' = [j \in Jobs |-> IF left(j) THEN running[j] ELSE running[j] + queued[j]]
      /\ queued' = [j \in Jobs |-> 0]
      /\ pulls' = pulls \cup {i \in Images : queued[Pull(i)] > 0}
      /\ archives' = archives \ lost
      /\ refused' = refused \cup lost
      /\ UNCHANGED <<pullEntries, buildEntries, unguarded>>
  BY DEF QueueSent, SendQueue, RegisterPulls
<1>3. UNCHANGED busy
  BY <1>1 DEF QueueSent, TargetsInv
<1>4. CountsOK'
  <2>1. \A j \in Jobs : queued[j] \in Nat /\ running[j] \in Nat
    BY <1>1 DEF CountsOK
  <2>2. running' \in [Jobs -> Nat] /\ queued' \in [Jobs -> Nat]
    <3> HIDE DEF left
    <3> QED
      BY <1>2, <2>1
  <2> QED
    BY <1>1, <1>2, <2>2 DEF CountsOK
<1>5. \A j \in Jobs : left(j) => j.mutation = "build"
  BY BuildFacts
<1>6. \A j \in Jobs : /\ Outstanding(j)' \in Nat /\ Outstanding(j)' <= Outstanding(j)
                      /\ ~left(j) => Outstanding(j)' = Outstanding(j)
  <2> HIDE DEF left
  <2> QED
    BY <1>1, <1>2 DEF CountsOK, Outstanding
<1>7. TargetsInv'
  <2>1. \A j \in Jobs : j.mutation # "build" => Outstanding(j)' = Outstanding(j)
    BY <1>5, <1>6
  <2> QED
    BY <1>1, <1>2, <1>3, <1>6, <2>1, TargetsSettle
<1>8. PullsAreShown'
  <2> SUFFICES ASSUME NEW i \in Images
               PROVE  /\ Outstanding(Pull(i))' <= 1
                      /\ pullEntries'[i] = "pulling" <=> Outstanding(Pull(i))' = 1
                      /\ i \in pulls' <=> running'[Pull(i)] = 1
    BY DEF PullsAreShown
  <2>1. /\ Outstanding(Pull(i)) <= 1 /\ (pullEntries[i] = "pulling" <=> Outstanding(Pull(i)) = 1)
        /\ i \in pulls <=> running[Pull(i)] = 1
    BY <1>1 DEF PullsAreShown
  <2>2. Pull(i) \in Jobs /\ queued[Pull(i)] \in Nat /\ running[Pull(i)] \in Nat
    BY <1>1, PullFacts, OutstandingNat
  <2>3. ~left(Pull(i))
    <3>1. Pull(i).mutation = "pull"
      BY PullFacts
    <3> QED
      BY <1>5, <2>2, <3>1
  <2> HIDE DEF left
  <2>4. i \in pulls' <=> running'[Pull(i)] = 1
    BY <1>2, <2>1, <2>2, <2>3 DEF Outstanding
  <2> QED
    BY <1>2, <1>6, <2>1, <2>2, <2>3, <2>4
<1>9. BuildsInv'
  <2> SUFFICES ASSUME NEW b \in Builds, b \notin refused'
               PROVE  /\ Outstanding(Build(b))' <= 1
                      /\ buildEntries'[b] = "building" <=> Outstanding(Build(b))' = 1
                      /\ b \in archives' <=> Outstanding(Build(b))' = 1
    BY DEF BuildsInv
  <2>1. b \notin refused /\ b \notin lost
    BY <1>2
  <2>2. Build(b) \in Jobs /\ ~left(Build(b))
    BY <2>1, BuildFacts
  <2>3. Outstanding(Build(b))' = Outstanding(Build(b))
    BY <1>6, <2>2
  <2>4. (b \in archives' <=> b \in archives) /\ buildEntries'[b] = buildEntries[b]
    BY <1>2, <2>1
  <2> QED
    BY <1>1, <2>1, <2>3, <2>4 DEF BuildsInv
<1> QED
  BY <1>4, <1>7, <1>8, <1>9 DEF OperationsInv

\* flushReadyCallbacks() with an error: what waited is reported as failed.
LEMMA QueueFailsKeeps ==
    ASSUME OperationsInv, NEW denied, QueueFails(denied)
    PROVE  OperationsInv'
<1> DEFINE released == {j.target : j \in Waiting}
<1>1. CountsOK /\ TargetsInv /\ PullsAreShown /\ BuildsInv
  BY DEF OperationsInv
<1>2. /\ queued' = [j \in Jobs |-> 0] /\ busy' = busy \ released
      /\ pullEntries' = [i \in Images |-> IF Pull(i) \in Waiting /\ pullEntries[i] # "none"
                                          THEN "failed" ELSE pullEntries[i]]
      /\ refused' = refused \cup {b \in Builds : Build(b) \in Waiting}
      /\ UNCHANGED <<running, pulls, archives, unguarded, buildEntries>>
  BY DEF QueueFails, DropQueue
<1>3. \A j \in Jobs : queued[j] \in Nat /\ running[j] \in Nat /\ (j \in Waiting <=> queued[j] > 0)
  BY <1>1, OutstandingNat DEF Waiting
<1>4. CountsOK'
  BY <1>1, <1>2 DEF CountsOK, Finished
<1>5. TargetsInv'
  <2>1. \A j \in Jobs : Outstanding(j)' \in Nat /\ Outstanding(j)' <= Outstanding(j)
    BY <1>2, <1>3 DEF Outstanding
  <2>2. ASSUME NEW j \in Jobs, j.mutation # "build", j.target \notin released
        PROVE  Outstanding(j)' = Outstanding(j)
    <3>1. queued[j] = 0
      BY <1>3, <2>2
    <3> QED
      BY <1>2, <3>1 DEF Outstanding
  <2>3. ASSUME NEW j \in Jobs, j.mutation # "build", j.target \in released, j.target \notin unguarded'
        PROVE  Outstanding(j)' = 0
    <3>1. PICK k \in Waiting : k.target = j.target
      BY <2>3
    <3>2. k \in Jobs /\ queued[k] > 0 /\ k.mutation # "build"
      BY <2>3, <3>1, BuildShare DEF Waiting
    <3>3. Outstanding(k) > 0 /\ Outstanding(k) \in Nat
      BY <1>3, <3>2 DEF Outstanding
    <3>4. /\ Outstanding(k) = 1
          /\ \A l \in Jobs : l.target = k.target /\ Outstanding(l) > 0 => l = k
      BY <1>1, <1>2, <2>3, <3>1, <3>2, <3>3 DEF TargetsInv
    <3>5. running[k] = 0
      BY <1>3, <3>2, <3>4 DEF Outstanding
    <3>6. CASE j = k
      BY <1>2, <3>5, <3>6 DEF Outstanding
    <3>7. CASE j # k
      <4>1. ~(Outstanding(j) > 0) /\ Outstanding(j) \in Nat
        BY <1>1, <3>1, <3>4, <3>7, OutstandingNat
      <4> QED
        BY <2>1, <4>1
    <3> QED
      BY <3>6, <3>7
  <2> QED
    BY <1>1, <1>2, <2>1, <2>2, <2>3, TargetsAfterEnd
<1>6. PullsAreShown'
  <2> SUFFICES ASSUME NEW i \in Images
               PROVE  /\ Outstanding(Pull(i))' <= 1
                      /\ pullEntries'[i] = "pulling" <=> Outstanding(Pull(i))' = 1
                      /\ i \in pulls' <=> running'[Pull(i)] = 1
    BY DEF PullsAreShown
  <2>1. /\ Outstanding(Pull(i)) <= 1 /\ (pullEntries[i] = "pulling" <=> Outstanding(Pull(i)) = 1)
        /\ i \in pulls <=> running[Pull(i)] = 1
    BY <1>1 DEF PullsAreShown
  <2>2. Pull(i) \in Jobs
    BY PullFacts
  <2>3. CASE Pull(i) \in Waiting
    <3>1. queued[Pull(i)] = 1 /\ running[Pull(i)] = 0 /\ pullEntries[i] = "pulling"
      BY <1>3, <2>1, <2>2, <2>3 DEF Outstanding
    <3> QED
      BY <1>2, <2>1, <2>2, <2>3, <3>1 DEF Outstanding
  <2>4. CASE Pull(i) \notin Waiting
    <3>1. queued[Pull(i)] = 0
      BY <1>3, <2>2, <2>4
    <3> QED
      BY <1>2, <2>1, <2>2, <2>4, <3>1 DEF Outstanding
  <2> QED
    BY <2>3, <2>4
<1>7. BuildsInv'
  <2> SUFFICES ASSUME NEW b \in Builds, b \notin refused'
               PROVE  /\ Outstanding(Build(b))' <= 1
                      /\ buildEntries'[b] = "building" <=> Outstanding(Build(b))' = 1
                      /\ b \in archives' <=> Outstanding(Build(b))' = 1
    BY DEF BuildsInv
  <2>1. b \notin refused /\ Build(b) \in Jobs /\ queued[Build(b)] = 0
    <3>1. Build(b) \in Jobs
      BY BuildFacts
    <3>2. b \notin refused /\ Build(b) \notin Waiting
      BY <1>2
    <3> QED
      BY <1>3, <3>1, <3>2
  <2>2. Outstanding(Build(b))' = Outstanding(Build(b))
    BY <1>2, <2>1 DEF Outstanding
  <2> QED
    BY <1>1, <1>2, <2>1, <2>2 DEF BuildsInv
<1> QED
  BY <1>4, <1>5, <1>6, <1>7 DEF OperationsInv

\* Entries that are no longer running leave the lists.
LEMMA ListsKeep ==
    ASSUME OperationsInv, ClearFinishedBuilds \/ \E is \in SUBSET Images : DismissPulls(is)
    PROVE  OperationsInv'
<1>1. CountsOK /\ TargetsInv /\ PullsAreShown /\ BuildsInv
  BY DEF OperationsInv
<1>2. /\ UNCHANGED <<queued, running, pulls, archives, busy, unguarded, refused>>
      /\ \A j \in Jobs : Outstanding(j)' = Outstanding(j)
  BY DEF ClearFinishedBuilds, DismissPulls, jobVars, Outstanding
<1>3. TargetsInv'
  BY <1>1, <1>2 DEF TargetsInv
<1>4. CASE ClearFinishedBuilds
  <2>1. /\ pullEntries' = pullEntries
        /\ buildEntries' = [b \in Builds |->
                              IF buildEntries[b] \in Finished THEN "cleared" ELSE buildEntries[b]]
    BY <1>4 DEF ClearFinishedBuilds
  <2>2. \A b \in Builds : buildEntries'[b] = "building" <=> buildEntries[b] = "building"
    BY <2>1 DEF Finished
  <2>3. CountsOK'
    BY <1>1, <1>2, <2>1 DEF CountsOK
  <2>4. PullsAreShown'
    BY <1>1, <1>2, <2>1, PullsIdle
  <2>5. BuildsInv'
    BY <1>1, <1>2, <2>2, BuildFacts DEF BuildsInv
  <2> QED
    BY <1>3, <2>3, <2>4, <2>5 DEF OperationsInv
<1>5. ASSUME NEW is \in SUBSET Images, DismissPulls(is) PROVE OperationsInv'
  <2>1. /\ buildEntries' = buildEntries
        /\ \A i \in is : pullEntries[i] \in Finished
        /\ pullEntries' = [i \in Images |-> IF i \in is THEN "none" ELSE pullEntries[i]]
    BY <1>5 DEF DismissPulls
  <2>2. \A i \in Images : pullEntries'[i] = "pulling" <=> pullEntries[i] = "pulling"
    BY <2>1 DEF Finished
  <2>3. CountsOK'
    BY <1>1, <1>2, <2>1 DEF CountsOK
  <2>4. PullsAreShown'
    BY <1>1, <1>2, <2>2, PullFacts DEF PullsAreShown
  <2>5. BuildsInv'
    BY <1>1, <1>2, <2>1, BuildsIdle
  <2> QED
    BY <1>3, <2>3, <2>4, <2>5 DEF OperationsInv
<1> QED
  BY <1>4, <1>5
-----------------------------------------------------------------------------
\* The theorems.

LEMMA OperationsInvInit == Init => OperationsInv
<1> SUFFICES ASSUME Init PROVE OperationsInv
  OBVIOUS
<1>1. \A j \in Jobs : queued[j] = 0 /\ running[j] = 0 /\ Outstanding(j) = 0
  BY DEF Init, JobsInit, Outstanding
<1>2. CountsOK
  BY DEF Init, JobsInit, CountsOK
<1>3. TargetsInv
  BY <1>1 DEF Init, TargetsInv
<1>4. PullsAreShown
  <2> SUFFICES ASSUME NEW i \in Images
               PROVE  /\ Outstanding(Pull(i)) <= 1
                      /\ pullEntries[i] = "pulling" <=> Outstanding(Pull(i)) = 1
                      /\ i \in pulls <=> running[Pull(i)] = 1
    BY DEF PullsAreShown
  <2>1. Outstanding(Pull(i)) = 0 /\ running[Pull(i)] = 0
    BY <1>1, PullFacts
  <2>2. pullEntries[i] = "none" /\ pulls = {}
    BY DEF Init, JobsInit
  <2> QED
    BY <2>1, <2>2
<1>5. BuildsInv
  <2> SUFFICES ASSUME NEW b \in Builds
               PROVE  /\ Outstanding(Build(b)) <= 1
                      /\ buildEntries[b] = "building" <=> Outstanding(Build(b)) = 1
                      /\ b \in archives <=> Outstanding(Build(b)) = 1
    BY DEF BuildsInv
  <2>1. Outstanding(Build(b)) = 0
    BY <1>1, BuildFacts
  <2>2. buildEntries[b] = "none" /\ archives = {}
    BY DEF Init, JobsInit
  <2> QED
    BY <2>1, <2>2
<1> QED
  BY <1>2, <1>3, <1>4, <1>5 DEF OperationsInv

\* Every write that goes through beginOperation(): what it is, and whether it asked.
LEMMA WritesKeep ==
    ASSUME OperationsInv,
           \/ \E c \in Containers : StartContainer(c) \/ ChangeContainer(c) \/ PauseContainer(c)
           \/ PruneBuildCache
           \/ \E t \in Targets : ChangeVolumes(t)
           \/ \E n \in Networks : ChangeNetwork(n)
           \/ \E n \in Networks, c \in Containers : ChangeMembership(n, c)
           \/ \E i \in Images : RemoveImage(i)
           \/ \E c \in Containers, wish \in BOOLEAN : CreateContainer(c, wish)
    PROVE  OperationsInv'
<1>1. ASSUME NEW job \in Jobs, job.mutation \notin {"pull", "build"}, Begin(job),
             (Admit(job.target) /\ UNCHANGED unguarded) \/ unguarded' = unguarded \cup {job.target}
      PROVE  OperationsInv'
  BY <1>1, BeginKeeps DEF Admit
<1>2. ASSUME NEW t, Write("change", t, FALSE) \in Jobs, Change(t) PROVE OperationsInv'
  BY <1>1, <1>2 DEF Change, Write
<1>3. ASSUME NEW t, Write("pause", t, FALSE) \in Jobs, Unguarded(t) PROVE OperationsInv'
  BY <1>1, <1>3 DEF Unguarded, Write
<1>4. ASSUME NEW c \in Containers, StartContainer(c) PROVE OperationsInv'
  BY <1>1, <1>4, ContainerFacts DEF StartContainer, Write
<1>5. ASSUME NEW c \in Containers, ChangeContainer(c) \/ PauseContainer(c) PROVE OperationsInv'
  BY <1>2, <1>3, <1>5, ContainerFacts DEF ChangeContainer, PauseContainer
<1>6. CASE PruneBuildCache
  BY <1>3, <1>6, OtherFacts DEF PruneBuildCache
<1>7. ASSUME NEW t, ChangeVolumes(t) PROVE OperationsInv'
  BY <1>2, <1>7, OtherFacts DEF ChangeVolumes
<1>8. ASSUME NEW n \in Networks, ChangeNetwork(n) PROVE OperationsInv'
  <2>1. ByNetwork(n) \in NetworkTargets
    BY DEF NetworkTargets
  <2> QED
    BY <1>2, <1>8, <2>1, OtherFacts DEF ChangeNetwork
<1>9. ASSUME NEW n \in Networks, NEW c \in Containers, ChangeMembership(n, c) PROVE OperationsInv'
  <2>1. Membership(n, c) \in NetworkTargets
    BY DEF NetworkTargets, Memberships
  <2> QED
    BY <1>2, <1>9, <2>1, OtherFacts DEF ChangeMembership
<1>10. ASSUME NEW i \in Images, RemoveImage(i) PROVE OperationsInv'
  BY <1>2, <1>10, OtherFacts DEF RemoveImage
<1>11. ASSUME NEW c \in Containers, NEW wish \in BOOLEAN, CreateContainer(c, wish) PROVE OperationsInv'
  BY <1>1, <1>11, ContainerFacts DEF CreateContainer, Write
<1> QED
  BY <1>4, <1>5, <1>6, <1>7, <1>8, <1>9, <1>10, <1>11

LEMMA OperationsInvStep ==
    ASSUME OperationsInv, [Next]_vars
    PROVE  OperationsInv'
<1>1. CASE \E i \in Images : PullImage(i) \/ CancelPull(i)
  <2>1. "cancelled" \in Finished
    BY DEF Finished
  <2> QED
    BY <1>1, <2>1, PullImageKeeps, PullFinishedKeeps DEF CancelPull
<1>2. CASE \E i \in Images, o \in {"succeeded", "failed"} : PullFinished(i, o)
  BY <1>2, PullFinishedKeeps DEF Finished
<1>3. CASE \E b \in Builds : BuildImage(b) \/ CancelBuild(b)
  <2>1. "cancelled" \in Finished
    BY DEF Finished
  <2> QED
    BY <1>3, <2>1, BuildImageKeeps, BuildFinishedKeeps DEF CancelBuild
<1>4. CASE \E b \in Builds, o \in {"succeeded", "failed"} : BuildFinished(b, o)
  BY <1>4, BuildFinishedKeeps DEF Finished
<1>5. CASE \/ \E i \in Images : StreamError(Pull(i))
           \/ \E b \in Builds : StreamError(Build(b))
           \/ RefreshInfo \/ PingStep \/ VersionStep \/ UNCHANGED vars
  BY <1>5, IdleKeeps DEF StreamError, ErrorLine, RefreshInfo, PingStep, VersionStep, jobVars,
     controllerVars, entryVars, vars
<1>6. CASE \E j \in Jobs, o \in {"succeeded", "unchanged", "failed"} : OperationEnds(j, o)
  BY <1>6, OperationEndsKeeps
<1>7. CASE \E c \in Containers, wish \in BOOLEAN : ContainerCreated(c, wish)
  BY <1>7, ContainerCreatedKeeps
<1>8. CASE (\E lost \in SUBSET Builds : QueueSent(lost)) \/ CancelAllPulls
  BY <1>8, QueueSentKeeps, CancelAllPullsKeeps
<1>9. CASE Abandon \/ \E s \in {"ping", "version"}, denied \in BOOLEAN : HandshakeFailed(s, denied)
  BY <1>9, QueueFailsKeeps DEF Abandon, HandshakeFailed
<1>10. CASE ClearFinishedBuilds \/ \E is \in SUBSET Images : DismissPulls(is)
  BY <1>10, ListsKeep
<1> QED
  BY <1>1, <1>2, <1>3, <1>4, <1>5, <1>6, <1>7, <1>8, <1>9, <1>10, WritesKeep DEF Next

\* A busy target has an operation that will end it, and admitted writes never overlap on a
\* target, whatever happens to the handshakes and the other operations
\* (OperationController::admit(), beginOperation(), onMutationFinished()).
THEOREM TargetsHaveOneOperation == Spec => []OneOperationPerTarget
<1>1. OperationsInv => OneOperationPerTarget
  <2> SUFFICES ASSUME OperationsInv, NEW t \in Targets
               PROVE  /\ t \in busy => Working(t) # {}
                      /\ t \notin unguarded /\ (\A b \in Builds : t # ByBuild(b)) =>
                            /\ \A j \in Working(t) : Outstanding(j) = 1 /\ Working(t) = {j}
                            /\ Working(t) # {} => t \in busy
    BY DEF OneOperationPerTarget
  <2>1. t \in busy => Working(t) # {}
    BY DEF OperationsInv, TargetsInv, Working
  <2>2. ASSUME t \notin unguarded, \A b \in Builds : t # ByBuild(b), NEW j \in Working(t)
        PROVE  Outstanding(j) = 1 /\ Working(t) = {j} /\ t \in busy
    <3>1. j \in Jobs /\ j.target = t /\ Outstanding(j) > 0
      BY DEF Working
    <3>2. j.mutation # "build"
      BY <2>2, <3>1, BuildTargets, BuildFacts
    <3>3. /\ t \in busy /\ Outstanding(j) = 1
          /\ \A k \in Jobs : k.target = t /\ Outstanding(k) > 0 => k = j
      BY <2>2, <3>1, <3>2 DEF OperationsInv, TargetsInv
    <3> QED
      BY <3>1, <3>3 DEF Working
  <2> QED
    BY <2>1, <2>2
<1> QED
  BY <1>1, OperationsInvInit, OperationsInvStep, PTL DEF Spec

\* The list of pulls and the backend agree on what is being pulled, so every running entry can
\* still be cancelled and no pull runs unseen (OperationController::pullImage(), cancelPull(),
\* DockerBackend::finishPull()).
THEOREM PullsAreListed == Spec => []PullsAreShown
<1>1. OperationsInv => PullsAreShown
  BY DEF OperationsInv
<1> QED
  BY <1>1, OperationsInvInit, OperationsInvStep, PTL DEF Spec

\* A build that was not refused has its temporary archive exactly as long as it waits or runs
\* (DockerBackend::buildImage(), finishBuild()).
THEOREM ArchivesAreRemoved == Spec => []BuildOwnsArchive
<1>1. OperationsInv => BuildOwnsArchive
  BY DEF OperationsInv, BuildsInv, BuildOwnsArchive
<1> QED
  BY <1>1, OperationsInvInit, OperationsInvStep, PTL DEF Spec
-----------------------------------------------------------------------------
\* Create and start.

\* The jobs that the members of create-and-start are about.
Chain == {j \in Jobs : j.mutation = "create" \/ j.wish}

\* As long as creates do not overlap, at most one such job is outstanding.
WishInv ==
    ~creates =>
        /\ \A j \in Chain : Outstanding(j) <= 1
        /\ \A j, k \in Chain : Outstanding(j) > 0 /\ Outstanding(k) > 0 => j = k
        /\ \A c \in Containers :
              /\ Outstanding(Write("start", ById(c), TRUE)) > 0 => created = c
              /\ Outstanding(Write("create", ByName(c), TRUE)) > 0 => wishPending
              /\ Outstanding(Write("create", ByName(c), FALSE)) > 0 => ~wishPending

LEMMA ChainFacts ==
    ASSUME NEW c \in Containers
    PROVE  /\ Write("start", ById(c), TRUE) \in Chain
           /\ Write("create", ByName(c), TRUE) \in Chain
           /\ Write("create", ByName(c), FALSE) \in Chain
           /\ \A d \in Containers : d # c => /\ Write("start", ById(d), TRUE) # Write("start", ById(c), TRUE)
                                             /\ ByName(d) # ByName(c)
  BY ContainerFacts DEF Chain, Write, ById, ByName

\* A step that adds none of these jobs.
LEMMA WishIdle ==
    ASSUME CountsOK, CountsOK', WishInv, UNCHANGED <<creates, created, wishPending>>,
           \A j \in Chain : Outstanding(j)' <= Outstanding(j)
    PROVE  WishInv'
<1> SUFFICES ASSUME ~creates PROVE WishInv'
  BY DEF WishInv
<1>1. \A j \in Chain : /\ Outstanding(j) \in Nat /\ Outstanding(j)' \in Nat
                       /\ Outstanding(j)' > 0 => Outstanding(j) > 0
  BY DEF Chain, CountsOK, Outstanding
<1>2. \A j \in Chain : Outstanding(j)' <= 1
  BY <1>1 DEF WishInv
<1>3. \A j, k \in Chain : Outstanding(j)' > 0 /\ Outstanding(k)' > 0 => j = k
  BY <1>1 DEF WishInv
<1>4. \A c \in Containers :
         /\ Outstanding(Write("start", ById(c), TRUE))' > 0 => created = c
         /\ Outstanding(Write("create", ByName(c), TRUE))' > 0 => wishPending
         /\ Outstanding(Write("create", ByName(c), FALSE))' > 0 => ~wishPending
  BY <1>1, ChainFacts DEF WishInv
<1> QED
  BY <1>2, <1>3, <1>4 DEF WishInv

\* A job that is none of these is added.
LEMMA WishAfterRun ==
    ASSUME CountsOK, CountsOK', WishInv, UNCHANGED <<creates, created, wishPending>>,
           NEW job \in Jobs, job \notin Chain, RunMutationAfter(running, job)
    PROVE  WishInv'
<1>1. running \in [Jobs -> Nat]
  BY DEF CountsOK
<1>2. \A j \in Jobs : j # job => queued'[j] = queued[j] /\ running'[j] = running[j]
  BY <1>1, RunEffect
<1>3. \A j \in Chain : Outstanding(j)' <= Outstanding(j)
  BY <1>2 DEF Chain, Outstanding, CountsOK
<1> QED
  BY <1>3, WishIdle

LEMMA CreateKeepsWish ==
    ASSUME CountsOK, CountsOK', WishInv, NEW c \in Containers, NEW wish \in BOOLEAN,
           CreateContainer(c, wish)
    PROVE  WishInv'
<1> DEFINE job == Write("create", ByName(c), wish)
<1>1. /\ wishPending' = wish
      /\ creates' = (creates \/ \E j \in Jobs : (j.mutation = "create" \/ j.wish) /\ Outstanding(j) > 0)
      /\ RunMutationAfter(running, job)
  BY DEF CreateContainer, Begin, RunMutation
<1> SUFFICES ASSUME ~creates' PROVE WishInv'
  BY DEF WishInv
<1>2. \A j \in Chain : Outstanding(j) = 0
  <2>1. \A j \in Chain : ~(Outstanding(j) > 0)
    BY <1>1 DEF Chain
  <2> QED
    BY <2>1, OutstandingNat DEF Chain
<1>3. job \in Jobs /\ job \in Chain
  BY ContainerFacts DEF Chain, Write
<1>4. running \in [Jobs -> Nat]
  BY DEF CountsOK
<1> HIDE DEF job
<1>5. /\ Outstanding(job)' = queued[job] + running[job] + 1
      /\ \A j \in Jobs : j # job => queued'[j] = queued[j] /\ running'[j] = running[j]
  BY <1>1, <1>3, <1>4, RunEffect
<1>6. /\ Outstanding(job)' = 1
      /\ \A j \in Chain : j # job => Outstanding(j)' = 0
  BY <1>2, <1>3, <1>5 DEF Outstanding, Chain
<1>7. ASSUME NEW d \in Containers
      PROVE  /\ ~(Outstanding(Write("start", ById(d), TRUE))' > 0)
             /\ Outstanding(Write("create", ByName(d), TRUE))' > 0 => wishPending'
             /\ Outstanding(Write("create", ByName(d), FALSE))' > 0 => ~wishPending'
  <2>1. Write("start", ById(d), TRUE) # job
    BY DEF job, Write
  <2>2. /\ Write("create", ByName(d), TRUE) = job => wish = TRUE
        /\ Write("create", ByName(d), FALSE) = job => wish = FALSE
    BY DEF job, Write
  <2>3. /\ Write("start", ById(d), TRUE) \in Chain
        /\ Write("create", ByName(d), TRUE) \in Chain
        /\ Write("create", ByName(d), FALSE) \in Chain
    BY ChainFacts
  <2>4. \A j \in Chain : Outstanding(j)' > 0 => j = job
    BY <1>6
  <2> QED
    BY <1>1, <2>1, <2>2, <2>3, <2>4
<1>8. \A j \in Chain : Outstanding(j)' <= 1
  BY <1>6
<1>9. \A j, k \in Chain : Outstanding(j)' > 0 /\ Outstanding(k)' > 0 => j = k
  BY <1>6
<1> QED
  BY <1>7, <1>8, <1>9 DEF WishInv

LEMMA CreatedKeepsWish ==
    ASSUME CountsOK, CountsOK', WishInv, NEW c \in Containers, NEW wish \in BOOLEAN,
           ContainerCreated(c, wish)
    PROVE  WishInv'
<1> DEFINE job == Write("create", ByName(c), wish)
<1> DEFINE start == Write("start", ById(c), TRUE)
<1>1. /\ running[job] > 0 /\ created' = c /\ UNCHANGED <<wishPending, creates>>
      /\ \/ RunMutationAfter(Ended(job), start)
         \/ running' = Ended(job) /\ queued' = queued
  BY DEF ContainerCreated, RequestEnds
<1> SUFFICES ASSUME ~creates PROVE WishInv'
  BY <1>1 DEF WishInv
<1>2. /\ job \in Jobs /\ job \in Chain /\ start \in Jobs /\ start \in Chain /\ start # job
      /\ \A d \in Containers : /\ Write("create", ByName(d), TRUE) # start
                               /\ Write("create", ByName(d), FALSE) # start
  BY ContainerFacts DEF Chain, Write
<1>3. \A d \in Containers : Write("start", ById(d), TRUE) = start => d = c
  BY ChainFacts
<1> HIDE DEF job, start
<1>4. Outstanding(job) > 0 /\ \A j \in Jobs : Outstanding(j) \in Nat
  BY <1>1, <1>2, OutstandingNat DEF Outstanding
<1>5. Outstanding(job) = 1 /\ \A j \in Chain : j # job => Outstanding(j) = 0
  <2>1. \A j \in Chain : j # job => ~(Outstanding(j) > 0)
    BY <1>2, <1>4 DEF WishInv
  <2>2. Outstanding(job) <= 1
    BY <1>2 DEF WishInv
  <2> QED
    BY <1>2, <1>4, <2>1, <2>2 DEF Chain
<1>6. /\ Ended(job) \in [Jobs -> Nat] /\ Ended(job)[job] = running[job] - 1
      /\ \A j \in Jobs : j # job => Ended(job)[j] = running[j]
  BY <1>1, <1>2 DEF Ended, CountsOK
<1>7. /\ Outstanding(job)' = 0 /\ Outstanding(start)' <= 1
      /\ \A j \in Chain : j # start => Outstanding(j)' = 0
  <2>1. CASE RunMutationAfter(Ended(job), start)
    <3>1. /\ Outstanding(start)' = queued[start] + Ended(job)[start] + 1
          /\ \A j \in Jobs : j # start => queued'[j] = queued[j] /\ running'[j] = Ended(job)[j]
      BY <1>2, <1>6, <2>1, RunEffect
    <3>2. Outstanding(start)' = 1
      BY <1>2, <1>5, <1>6, <3>1 DEF Outstanding
    <3>3. Outstanding(job)' = 0
      BY <1>2, <1>5, <1>6, <3>1 DEF Outstanding, CountsOK
    <3>4. ASSUME NEW j \in Chain, j # start, j # job PROVE Outstanding(j)' = 0
      BY <1>5, <1>6, <3>1, <3>4 DEF Outstanding, Chain
    <3> QED
      BY <3>2, <3>3, <3>4
  <2>2. CASE running' = Ended(job) /\ queued' = queued
    <3>1. Outstanding(job)' = 0
      BY <1>2, <1>5, <1>6, <2>2 DEF Outstanding, CountsOK
    <3>2. ASSUME NEW j \in Chain, j # job PROVE Outstanding(j)' = 0
      BY <1>5, <1>6, <2>2, <3>2 DEF Outstanding, Chain
    <3> QED
      BY <1>2, <3>1, <3>2
  <2> QED
    BY <1>1, <2>1, <2>2
<1>8. /\ \A j \in Chain : Outstanding(j)' <= 1
      /\ \A j, k \in Chain : Outstanding(j)' > 0 /\ Outstanding(k)' > 0 => j = k
  BY <1>7
<1>9. ASSUME NEW d \in Containers
      PROVE  /\ Outstanding(Write("start", ById(d), TRUE))' > 0 => created' = d
             /\ ~(Outstanding(Write("create", ByName(d), TRUE))' > 0)
             /\ ~(Outstanding(Write("create", ByName(d), FALSE))' > 0)
  <2>1. /\ Write("start", ById(d), TRUE) \in Chain
        /\ Write("create", ByName(d), TRUE) \in Chain
        /\ Write("create", ByName(d), FALSE) \in Chain
    BY ChainFacts
  <2>2. \A j \in Chain : Outstanding(j)' > 0 => j = start
    BY <1>7
  <2> QED
    BY <1>1, <1>2, <1>3, <2>1, <2>2
<1> QED
  BY <1>8, <1>9 DEF WishInv

LEMMA WishInvStep ==
    ASSUME OperationsInv, OperationsInv', WishInv, [Next]_vars
    PROVE  WishInv'
<1>1. CountsOK /\ CountsOK' /\ PullsAreShown
  BY DEF OperationsInv
<1>2. ASSUME UNCHANGED <<queued, running, creates, created, wishPending>> PROVE WishInv'
  BY <1>2 DEF WishInv, Outstanding
<1>3. ASSUME NEW job \in Jobs, job \notin Chain, RunMutation(job),
             UNCHANGED <<creates, created, wishPending>>
      PROVE  WishInv'
  BY <1>1, <1>3, WishAfterRun DEF RunMutation
<1>4. ASSUME NEW job \in Jobs, running[job] > 0, running' = Ended(job), queued' = queued,
             UNCHANGED <<creates, created, wishPending>>
      PROVE  WishInv'
  BY <1>1, <1>4, EndEffect, WishIdle DEF Chain
<1>5. ASSUME NEW c \in Containers, StartContainer(c) PROVE WishInv'
  <2>1. Write("start", ById(c), FALSE) \notin Chain
    BY DEF Chain, Write
  <2> QED
    BY <1>3, <1>5, <2>1, ContainerFacts DEF StartContainer, Begin, createVars
<1>6. ASSUME NEW t, Write("change", t, FALSE) \in Jobs, Change(t) PROVE WishInv'
  <2>1. Write("change", t, FALSE) \notin Chain
    BY DEF Chain, Write
  <2> QED
    BY <1>3, <1>6, <2>1 DEF Change, Begin, createVars
<1>7. ASSUME NEW t, Write("pause", t, FALSE) \in Jobs, Unguarded(t) PROVE WishInv'
  <2>1. Write("pause", t, FALSE) \notin Chain
    BY DEF Chain, Write
  <2> QED
    BY <1>3, <1>7, <2>1 DEF Unguarded, Begin, createVars
<1>8. CASE \/ \E c \in Containers : ChangeContainer(c) \/ PauseContainer(c)
           \/ PruneBuildCache \/ (\E t \in Targets : ChangeVolumes(t))
           \/ \E i \in Images : RemoveImage(i)
  BY <1>6, <1>7, <1>8, ContainerFacts, OtherFacts DEF ChangeContainer, PauseContainer,
     PruneBuildCache, ChangeVolumes, RemoveImage
<1>9. CASE (\E n \in Networks : ChangeNetwork(n)) \/ \E n \in Networks, c \in Containers : ChangeMembership(n, c)
  <2>1. \A n \in Networks : ByNetwork(n) \in NetworkTargets
    BY DEF NetworkTargets
  <2>2. \A n \in Networks, c \in Containers : Membership(n, c) \in NetworkTargets
    BY DEF NetworkTargets, Memberships
  <2> QED
    BY <1>6, <1>9, <2>1, <2>2, OtherFacts DEF ChangeNetwork, ChangeMembership
<1>10. ASSUME NEW c \in Containers, NEW wish \in BOOLEAN, CreateContainer(c, wish) \/ ContainerCreated(c, wish)
       PROVE  WishInv'
  BY <1>1, <1>10, CreateKeepsWish, CreatedKeepsWish
<1>11. ASSUME NEW i \in Images, PullImage(i) PROVE WishInv'
  <2>1. Pull(i) \notin Chain /\ Pull(i) \in Jobs
    BY PullFacts DEF Chain
  <2>2. RunMutation(Pull(i)) \/ UNCHANGED <<queued, running>>
    BY <1>11 DEF PullImage, jobVars
  <2> QED
    BY <1>2, <1>3, <1>11, <2>1, <2>2 DEF PullImage, createVars
<1>12. ASSUME NEW b \in Builds, BuildImage(b) PROVE WishInv'
  <2>1. Build(b) \notin Chain /\ Build(b) \in Jobs
    BY BuildFacts DEF Chain
  <2>2. RunMutation(Build(b)) \/ UNCHANGED <<queued, running>>
    BY <1>12 DEF BuildImage, SendBuild
  <2> QED
    BY <1>2, <1>3, <1>12, <2>1, <2>2 DEF BuildImage, createVars
<1>13. ASSUME NEW i \in Images, NEW o, PullFinished(i, o) PROVE WishInv'
  BY <1>4, <1>13, PullFacts DEF PullFinished, PullEnds, createVars
<1>14. ASSUME NEW b \in Builds, NEW o, BuildFinished(b, o) PROVE WishInv'
  BY <1>4, <1>14, BuildFacts DEF BuildFinished, BuildEnds, createVars
<1>15. ASSUME NEW j \in Jobs, NEW o, OperationEnds(j, o) PROVE WishInv'
  <2>1. UNCHANGED <<creates, created, wishPending>>
    BY <1>15 DEF OperationEnds
  <2> QED
    BY <1>4, <1>15, <2>1 DEF OperationEnds, RequestEnds
<1>16. CASE CancelAllPulls
  <2>1. \A j \in Chain : j \in Jobs /\ ~(\E i \in pulls : j = Pull(i))
    BY <1>1, PullFacts DEF Chain, CountsOK
  <2>2. \A j \in Chain : running'[j] = running[j] /\ queued'[j] = queued[j]
    BY <1>16, <2>1 DEF CancelAllPulls
  <2>3. \A j \in Chain : Outstanding(j)' <= Outstanding(j)
    BY <1>1, <2>2 DEF Outstanding, Chain, CountsOK
  <2> QED
    BY <1>1, <1>16, <2>3, WishIdle DEF CancelAllPulls, createVars
<1>17. ASSUME NEW lost \in SUBSET Builds, QueueSent(lost) PROVE WishInv'
  <2>1. \A j \in Jobs : /\ queued'[j] = 0
                        /\ running'[j] = running[j] \/ running'[j] = running[j] + queued[j]
    BY <1>17 DEF QueueSent, SendQueue
  <2>2. \A j \in Jobs : Outstanding(j)' <= Outstanding(j)
    BY <1>1, <2>1 DEF Outstanding, CountsOK
  <2> QED
    BY <1>1, <1>17, <2>2, WishIdle DEF QueueSent, createVars, Chain
<1>18. ASSUME NEW denied, QueueFails(denied) PROVE WishInv'
  <2>1. \A j \in Jobs : Outstanding(j)' <= Outstanding(j)
    BY <1>1, <1>18 DEF QueueFails, DropQueue, Outstanding, CountsOK
  <2> QED
    BY <1>1, <1>18, <2>1, WishIdle DEF QueueFails, Chain
<1>19. CASE \/ \E i \in Images : StreamError(Pull(i))
            \/ \E b \in Builds : StreamError(Build(b))
            \/ RefreshInfo \/ PingStep \/ VersionStep \/ ClearFinishedBuilds
            \/ (\E is \in SUBSET Images : DismissPulls(is)) \/ UNCHANGED vars
  BY <1>2, <1>19 DEF StreamError, ErrorLine, RefreshInfo, PingStep, VersionStep, ClearFinishedBuilds,
     DismissPulls, jobVars, controllerVars, createVars, vars
<1>20. CASE Abandon \/ \E s \in {"ping", "version"}, denied \in BOOLEAN : HandshakeFailed(s, denied)
  BY <1>18, <1>20 DEF Abandon, HandshakeFailed
<1> QED
  BY <1>5, <1>8, <1>9, <1>10, <1>11, <1>12, <1>13, <1>14, <1>15, <1>16, <1>17, <1>19, <1>20
     DEF Next, CancelPull, CancelBuild

\* While creates do not overlap, the start that follows a create is that of the container just
\* created, and the wish is the one of the create under way (OperationController::createContainer(),
\* m_pendingStartAfterCreate, m_createdContainerId).
THEOREM WishBelongsToCreate == Spec => []WishIsKept
<1>1. Init => WishInv
  <2> SUFFICES ASSUME Init PROVE WishInv
    OBVIOUS
  <2>1. \A j \in Chain : Outstanding(j) = 0
    BY DEF Init, JobsInit, Outstanding, Chain
  <2>2. \A j \in Chain : ~(Outstanding(j) > 0) /\ Outstanding(j) <= 1
    BY <2>1
  <2> QED
    BY <2>2, ChainFacts DEF WishInv
<1>2. OperationsInv /\ WishInv /\ [Next]_vars => (OperationsInv /\ WishInv)'
  BY OperationsInvStep, WishInvStep
<1>3. WishInv => WishIsKept
  BY DEF WishInv, WishIsKept
<1> QED
  BY <1>1, <1>2, <1>3, OperationsInvInit, PTL DEF Spec
=============================================================================
