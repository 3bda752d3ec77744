---------------------------- MODULE DockerBackend ----------------------------
(***************************************************************************)
(* The request bookkeeping of DockerBackend (backend/docker_backend.cpp):  *)
(* which requests are in flight, which are coalesced, which wait for the   *)
(* version handshake, and what the watchdog's abandonInFlightRequests()    *)
(* leaves behind.  The log, pull and build streams are not in this module. *)
(*                                                                         *)
(* Requests of four kinds share one queue and one socket client:           *)
(*   Lists    one "in flight" flag each (containers, images, networks,     *)
(*            volumes);                                                    *)
(*   Details  deduplicated by a key in m_inFlightRequests (disk usage,     *)
(*            container and image inspect);                                *)
(*   Stats    the same, and dropped when nobody wants the sample any more; *)
(*   Targets  write operations, not deduplicated here;                     *)
(* and the registry login check.                                           *)
(*                                                                         *)
(* Callbacks of the same request are interchangeable, so the two queues    *)
(* m_readyCallbacks and m_pendingMutations, which are always emptied as a  *)
(* whole, are kept as a number of entries for each request.  The slots of  *)
(* an emitted signal may call back into the backend; such a call is a step *)
(* of its own, taken right after the handler.  A reply on the wire is one  *)
(* whose finished() the backend hears: the outcome that DockerReply can    *)
(* lose inside connectToServer() is a property of that module.             *)
(***************************************************************************)
EXTENDS DockerHandshake

CONSTANTS
    Lists,       \* list sections
    FastLists,   \* those that isLoading() looks at: containers and images
    Details,     \* keys of storage and inspect requests
    Stats,       \* keys of stats requests
    Targets,     \* target keys of write operations
    MaxIssued,   \* bound: write operations for one target
    MaxAuth,     \* bound: registry checks outstanding at the same time
    MaxAbandons  \* bound: times the watchdog gives up

Auth == "auth"
Keys == Details \cup Stats
Requests == Lists \cup Keys \cup Targets \cup {Auth}

ASSUME RequestsAssumption ==
    /\ FastLists \subseteq Lists
    /\ Details \cap Stats = {}
    /\ Lists \cap (Keys \cup Targets) = {}
    /\ Keys \cap Targets = {}
    /\ Auth \notin Lists \cup Keys \cup Targets
ASSUME BackendBounds == MaxIssued \in Nat /\ MaxAuth \in Nat /\ MaxAbandons \in Nat

VARIABLES
    busy,      \* lists whose in-flight flag is set
    keys,      \* m_inFlightRequests
    wanted,    \* m_statsWanted
    loading,   \* m_loading, the value last announced by loadingChanged()
    queued,    \* entries of m_readyCallbacks and m_pendingMutations
    wire,      \* replies that have not finished
    issued,    \* history: write operations asked for
    answered,  \* history: mutationFinished() signals
    abandons   \* times the watchdog gave up (only to bound the model)

requestVars == <<busy, keys, wanted, queued, wire>>
historyVars == <<issued, answered, abandons>>
vars == <<negotiated, handshake, engineBusy, steps, engineAvailable, countsAvailable,
          busy, keys, wanted, loading, queued, wire, issued, answered, abandons>>

\* isLoading()
IsLoading == engineBusy \/ busy \cap FastLists # {} \/ keys # {}

\* updateLoading()
UpdateLoading == loading' = IsLoading'

\* updateLoading() only when the engine flag has just been set.
UpdateLoadingIfStarted == loading' = IF engineBusy' = engineBusy THEN loading ELSE IsLoading'

Outstanding(r) == queued[r] + wire[r]

\* withApiVersion() and runMutation(): send the request, or queue it for the handshake.
Submit(r) ==
    \/ /\ negotiated
       /\ wire' = [wire EXCEPT ![r] = @ + 1]
       /\ UNCHANGED queued
       /\ UNCHANGED handshakeVars
    \/ /\ ~negotiated
       /\ queued' = [queued EXCEPT ![r] = @ + 1]
       /\ UNCHANGED wire
       /\ JoinHandshake

-----------------------------------------------------------------------------
\* What the controllers ask for.

\* refreshEngine()
RefreshEngine ==
    /\ ~engineBusy
    /\ RefreshEngineInfo
    /\ UNCHANGED requestVars
    /\ UNCHANGED historyVars
    /\ UpdateLoading

\* refreshContainers(), refreshImages(), refreshNetworks(), refreshVolumes(): a refresh
\* of a list that is in flight is coalesced with it.
RefreshList(l) ==
    /\ l \notin busy
    /\ busy' = busy \cup {l}
    /\ Submit(l)
    /\ UNCHANGED <<keys, wanted>>
    /\ UNCHANGED historyVars
    /\ UpdateLoading

\* beginRequest(key) succeeds, and the request is submitted.
BeginRequest(k) ==
    /\ k \notin keys
    /\ keys' = keys \cup {k}
    /\ Submit(k)
    /\ UNCHANGED busy
    /\ UpdateLoading

\* refreshStorageUsage(), inspectContainer(), inspectImage()
RequestDetail(k) ==
    /\ BeginRequest(k)
    /\ UNCHANGED wanted
    /\ UNCHANGED historyVars

\* requestContainerStats(): the interest is noted even when the request is coalesced.
RequestStats(k) ==
    /\ wanted' = wanted \cup {k}
    /\ \/ BeginRequest(k)
       \/ k \in keys /\ UNCHANGED <<busy, keys, loading, queued, wire>> /\ UNCHANGED handshakeVars
    /\ UNCHANGED historyVars

\* stopContainerStats(): only the interest is dropped.
StopStats(k) ==
    /\ wanted' = wanted \ {k}
    /\ UNCHANGED <<busy, keys, loading, queued, wire>>
    /\ UNCHANGED handshakeVars
    /\ UNCHANGED historyVars

\* refreshAll(), and the detail requests ds that the calling slot makes right after it.  The
\* engine section comes first, so a handshake is running when the others are queued.
RefreshAll(ds) ==
    LET asked == (FastLists \ busy) \cup (ds \ keys)
        With(bag) == [r \in Requests |-> bag[r] + (IF r \in asked THEN 1 ELSE 0)]
    IN  /\ busy' = busy \cup FastLists
        /\ keys' = keys \cup ds
        /\ IF negotiated THEN wire' = With(wire) /\ UNCHANGED queued
                         ELSE queued' = With(queued) /\ UNCHANGED wire
        /\ IF engineBusy THEN UNCHANGED handshakeVars ELSE RefreshEngineInfo
        /\ UNCHANGED wanted
        /\ UNCHANGED historyVars
        /\ UpdateLoading

\* checkRegistryAuth(), for complete credentials
CheckRegistryAuth ==
    /\ Outstanding(Auth) < MaxAuth
    /\ Submit(Auth)
    /\ UNCHANGED <<busy, keys, wanted>>
    /\ UNCHANGED historyVars
    /\ UpdateLoadingIfStarted

\* startContainer() ... disconnectNetwork(): every write that is a single request
RunMutation(t) ==
    /\ issued[t] < MaxIssued
    /\ issued' = [issued EXCEPT ![t] = @ + 1]
    /\ Submit(t)
    /\ UNCHANGED <<busy, keys, wanted, answered, abandons>>
    /\ UpdateLoadingIfStarted

-----------------------------------------------------------------------------
\* The end of the handshake.

\* flushReadyCallbacks() after a successful handshake: every queued call is sent.
FlushRun ==
    /\ wire' = [r \in Requests |-> wire[r] + queued[r]]
    /\ queued' = [r \in Requests |-> 0]
    /\ UNCHANGED <<busy, answered>>

\* Fault: queued writes are dropped without a word.
FlushFailSilent(flagged) ==
    /\ queued' = [r \in Requests |-> 0]
    /\ busy' = {l \in flagged : queued[l] = 0}
    /\ UNCHANGED <<wire, answered>>

\* Fault: a list section is reported but its flag stays set.
FlushFailKeepsFlags(flagged) ==
    /\ queued' = [r \in Requests |-> 0]
    /\ busy' = flagged
    /\ answered' = [t \in Targets |-> answered[t] + queued[t]]
    /\ UNCHANGED wire

\* Fault: after a failed handshake the queued calls are sent all the same.
FlushFailRuns(flagged) ==
    /\ wire' = [r \in Requests |-> wire[r] + queued[r]]
    /\ queued' = [r \in Requests |-> 0]
    /\ busy' = flagged
    /\ UNCHANGED answered

\* flushReadyCallbacks() with an error: failSection() resets the flag of a list section and
\* reports it; it does nothing about a key in m_inFlightRequests.  A registry check is
\* reported as a failure of the engine section.  Queued writes are answered as failed.
FlushFail(flagged) ==
    /\ queued' = [r \in Requests |-> 0]
    /\ busy' = {l \in flagged : queued[l] = 0}
    /\ answered' = [t \in Targets |-> answered[t] + queued[t]]
    /\ UNCHANGED wire

PingAnswered ==
    /\ PingPasses
    /\ UNCHANGED loading
    /\ UNCHANGED requestVars
    /\ UNCHANGED historyVars

VersionAnswered ==
    /\ VersionPasses
    /\ UNCHANGED loading
    /\ UNCHANGED requestVars
    /\ UNCHANGED historyVars

InfoAnswered ==
    /\ HandshakeSucceeds
    /\ FlushRun
    /\ UNCHANGED <<keys, wanted, issued, abandons>>
    /\ UpdateLoadingIfStarted

HandshakeFailed(s) ==
    /\ HandshakeFails(s)
    /\ FlushFail(busy)
    /\ UNCHANGED <<keys, wanted, issued, abandons>>
    /\ UpdateLoading

-----------------------------------------------------------------------------
\* The finished handlers of the replies.

\* The reply of a request that was sent has finished.
Settled(r) ==
    /\ wire[r] > 0
    /\ wire' = [wire EXCEPT ![r] = @ - 1]
    /\ UNCHANGED queued

\* Fault: the section is reported and its flag reset, but loadingChanged() is forgotten.
ListAnsweredQuietly(l) ==
    /\ Settled(l)
    /\ busy' = busy \ {l}
    /\ UNCHANGED <<keys, wanted, loading>>
    /\ UNCHANGED handshakeVars
    /\ UNCHANGED historyVars

\* The handlers in start{Containers,Images,Networks,Volumes}Request(): success and failure
\* alike reset the flag, whichever request set it.
ListAnswered(l) ==
    /\ Settled(l)
    /\ busy' = busy \ {l}
    /\ UNCHANGED <<keys, wanted>>
    /\ UNCHANGED handshakeVars
    /\ UNCHANGED historyVars
    /\ UpdateLoading

\* The handlers in start{Storage,ContainerInspect,ImageInspect,Stats}Request(): endRequest(),
\* then failSection() after a failure, except for a sample nobody wants any more.
KeyAnswered(k) ==
    /\ Settled(k)
    /\ keys' = keys \ {k}
    /\ UNCHANGED <<busy, wanted>>
    /\ UNCHANGED handshakeVars
    /\ UNCHANGED historyVars
    /\ \E failed \in BOOLEAN :
          loading' = IF k \in keys \/ (failed /\ (k \in Stats => k \in wanted))
                     THEN IsLoading' ELSE loading

\* The handler in checkRegistryAuth()
AuthAnswered ==
    /\ Settled(Auth)
    /\ UNCHANGED <<busy, keys, wanted, loading>>
    /\ UNCHANGED handshakeVars
    /\ UNCHANGED historyVars

\* Fault: the failure branch reports the write and falls through to the success report.
MutationAnsweredTwice(t) ==
    /\ Settled(t)
    /\ answered' = [answered EXCEPT ![t] = @ + 2]
    /\ UNCHANGED <<busy, keys, wanted, loading, issued, abandons>>
    /\ UNCHANGED handshakeVars

\* The finished handler of a write: emitMutationFinished() with outcomeFor(reply)
MutationAnswered(t) ==
    /\ Settled(t)
    /\ answered' = [answered EXCEPT ![t] = @ + 1]
    /\ UNCHANGED <<busy, keys, wanted, loading, issued, abandons>>
    /\ UNCHANGED handshakeVars

\* abandonInFlightRequests(), called by the watchdog while isLoading(): every flag and key
\* is dropped and every queued call fails, but no reply is cancelled.
Abandon ==
    /\ loading
    /\ abandons < MaxAbandons
    /\ abandons' = abandons + 1
    /\ AbandonHandshake
    /\ keys' = {}
    /\ FlushFail({})
    /\ UNCHANGED <<wanted, issued>>
    /\ UpdateLoading

-----------------------------------------------------------------------------

Init ==
    /\ HandshakeInit
    /\ busy = {}
    /\ keys = {}
    /\ wanted = {}
    /\ loading = FALSE
    /\ queued = [r \in Requests |-> 0]
    /\ wire = [r \in Requests |-> 0]
    /\ issued = [t \in Targets |-> 0]
    /\ answered = [t \in Targets |-> 0]
    /\ abandons = 0

Next ==
    \/ RefreshEngine
    \/ \E l \in Lists : RefreshList(l) \/ ListAnswered(l)
    \/ \E k \in Details : RequestDetail(k)
    \/ \E ds \in SUBSET Details : RefreshAll(ds)
    \/ \E k \in Stats : RequestStats(k) \/ StopStats(k)
    \/ CheckRegistryAuth
    \/ \E t \in Targets : RunMutation(t) \/ MutationAnswered(t)
    \/ PingAnswered
    \/ VersionAnswered
    \/ InfoAnswered
    \/ \E s \in {"ping", "version"} : HandshakeFailed(s)
    \/ \E k \in Keys : KeyAnswered(k)
    \/ AuthAnswered
    \/ Abandon

\* Every reply finishes: DockerReply arms a timeout for all of these requests.  Nobody is
\* obliged to ask for anything, and the watchdog need not fire.
Fairness ==
    /\ WF_vars(PingAnswered \/ HandshakeFailed("ping"))
    /\ WF_vars(VersionAnswered \/ HandshakeFailed("version"))
    /\ WF_vars(InfoAnswered)
    /\ \A l \in Lists : WF_vars(ListAnswered(l))
    /\ \A k \in Keys : WF_vars(KeyAnswered(k))
    /\ \A t \in Targets : WF_vars(MutationAnswered(t))
    /\ WF_vars(AuthAnswered)

Spec == Init /\ [][Next]_vars /\ Fairness

-----------------------------------------------------------------------------

\* The types of the variables.
TypeOK ==
    /\ HandshakeTypeOK
    /\ busy \subseteq Lists
    /\ keys \subseteq Keys
    /\ wanted \subseteq Stats
    /\ loading \in BOOLEAN
    /\ queued \in [Requests -> Nat]
    /\ wire \in [Requests -> Nat]
    /\ issued \in [Targets -> Nat]
    /\ answered \in [Targets -> Nat]
    /\ abandons \in Nat

\* A call that waits for the version handshake has one to wait for: while an entry is in
\* m_readyCallbacks or m_pendingMutations a handshake is running, and a running handshake
\* has a reply that will end it.  Otherwise the entry would wait for ever, because a queued
\* call also blocks every later refresh of its section.
QueueHasHandshake ==
    /\ (\E r \in Requests : queued[r] > 0) => handshake
    /\ handshake => HandshakeOnWire

\* A set in-flight flag always has a request behind it that will reset it, also after the
\* watchdog has reset the flags under requests that were still running.
BusyListHasOwner ==
    /\ \A l \in busy : Outstanding(l) > 0
    /\ engineBusy => handshake

\* The value announced by loadingChanged() is never behind the flags: no handler changes
\* one of them and forgets updateLoading().  The refresh cycle ends on that signal alone.
LoadingIsCurrent == loading = IsLoading

\* Every write is queued, running or answered, once: nothing is dropped when the handshake
\* fails or the watchdog gives up, and nothing is both failed and still sent.
EveryWriteAccountedFor ==
    \A t \in Targets : issued[t] = answered[t] + Outstanding(t)

\* Until the watchdog interferes, the engine section and the negotiated API version belong
\* to the same session: the counts of /info never outlive the /version they came with.
EngineMatchesSession ==
    abandons = 0 => /\ countsAvailable => engineAvailable
                    /\ engineAvailable <=> negotiated

\* No request of the queue is sent to an unversioned path, unless the watchdog has cleared
\* the version under a running handshake.
SentWithVersion ==
    [][abandons = 0 => \A r \in Requests : wire'[r] > wire[r] => negotiated']_vars

\* "Requests needing an API version prefix: finish the handshake first when unnegotiated"
\* (docker_backend.h, withApiVersion()): what waits for a handshake is sent with a version.
\* It does not hold: the watchdog clears the version while a handshake is under way, whose
\* success then empties the queue.
OnlyNegotiationIsUnversioned ==
    [][\A r \in Requests : wire'[r] > wire[r] => negotiated']_vars

Contract == INSTANCE MutationContract WITH Targets <- Targets, issued <- issued, answered <- answered

\* The bookkeeping implements what the interface promises about writes: mutationFinished()
\* never comes unasked and never twice.
WritesKeepContract == Contract!ContractSpec

\* Every write is answered, whether it is sent, waits for a handshake that fails, or is
\* given up by the watchdog.
EveryWriteIsAnswered == Contract!AllAnswered

\* A list section does not stay in flight for ever, so it can be refreshed again.
ListsSettle == \A l \in Lists : l \in busy ~> l \notin busy

\* The comment in failSection() says that the keyed sections track their in-flight state in
\* m_inFlightRequests, and beginRequest() that a coalesced request is one already in flight:
\* a key in that set stands for a request that is queued or running.
\* It does not hold: a keyed request dropped with its handshake keeps its key.
KeyHasOwner == \A k \in keys : Outstanding(k) > 0
=============================================================================
