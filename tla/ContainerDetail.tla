---------------------------- MODULE ContainerDetail ----------------------------
(***************************************************************************)
(* The container page: ContainerDetailController and MetricsModel over the *)
(* backend's inspect and stats requests, the stack of pages that share     *)
(* them, and the ports page, which learns declared ports from the same     *)
(* answers (model/container_detail_controller.cpp, model/metrics_model.cpp,*)
(* model/status_controller.cpp, backend/docker_backend.cpp, ui/main.qml).  *)
(*                                                                         *)
(* The log console of the page is LogConsole.  The handshake that requests *)
(* wait for is DockerBackend; here it ends well, badly, or is given up.    *)
(***************************************************************************)
EXTENDS Naturals, SequencesExt

CONSTANTS
    Containers,
    NoContainer,
    History,     \* RefreshPolicy::kMetricsHistorySamples
    MaxFailures, \* RefreshPolicy::kMaxConsecutiveStatsFailures
    MaxPages,    \* bound: container pages on the stack
    MaxOnWire,   \* bound: unanswered requests of a kind for a container
    MaxAbandons  \* bound: times the watchdog gives up

ASSUME DetailAssumption ==
    /\ NoContainer \notin Containers
    /\ History \in Nat \ {0} /\ MaxFailures \in Nat \ {0}
    /\ MaxPages \in Nat \ {0} /\ MaxOnWire \in Nat \ {0} /\ MaxAbandons \in Nat

VARIABLES
    pages,     \* the container pages of the stack: page.containerId of each
    shown,     \* m_containerId of the controller, which all pages share
    detail,    \* m_detail.id
    running,   \* running(): m_detail is of a running or paused container
    loadState, \* m_loadStateKey
    started,   \* m_started; the 30 second timer runs
    sampling,  \* MetricsModel::m_sampling; its timer runs
    metricsId, \* MetricsModel::m_containerId
    points,    \* MetricsModel::m_points, by their number
    previous,  \* m_previous.containerId while m_hasPrevious
    failures,  \* m_consecutiveFailures
    wanted,    \* DockerBackend::m_statsWanted
    keys,      \* DockerBackend::m_inFlightRequests: keys of inspects and samples
    queued,    \* DockerBackend::m_readyCallbacks: requests that wait for the handshake
    wire,      \* requests that have been sent
    failing,   \* flushReadyCallbacks() with an error is running
    requested, \* StatusController::m_declaredRequested
    declared,  \* StatusController::m_declaredPorts: the containers it knows
    failed,    \* history: containers whose last inspect failed
    abandons   \* times the watchdog gave up (only to bound the model)

pageVars == <<shown, detail, running, loadState, started>>
metricsVars == <<sampling, metricsId, points, previous, failures, wanted>>
requestVars == <<keys, queued, wire>>
portVars == <<requested, declared, failed>>
vars == <<pages, pageVars, metricsVars, requestVars, failing, portVars, abandons>>

Requests == [kind : {"inspect", "stats"}, of : Containers]
Inspect(c) == [kind |-> "inspect", of |-> c]
Stats(c) == [kind |-> "stats", of |-> c]

-----------------------------------------------------------------------------
\* DockerBackend.

\* Nothing else happens while a flush runs.
Undisturbed == ~failing /\ failing' = failing

NoneQueued == [r \in Requests |-> 0]
Unanswered(r) == queued[r] + wire[r]

\* endRequest() for the requests that have been answered, then beginRequest() and
\* withApiVersion() for those asked for: one whose key is taken is coalesced, the others are
\* sent, or wait for the handshake while the version is not known.
Exchange(answered, asked) ==
    LET new == asked \ (keys \ answered)
        More(count) == [r \in Requests |-> count[r] + IF r \in new THEN 1 ELSE 0]
        left == [r \in Requests |-> wire[r] - IF r \in answered THEN 1 ELSE 0]
    IN  /\ Undisturbed
        /\ \A r \in answered : wire[r] > 0
        /\ \A r \in new : Unanswered(r) < MaxOnWire
        /\ keys' = (keys \ answered) \cup new
        /\ \/ queued' = More(queued) /\ wire' = left
           \/ queued = NoneQueued /\ queued' = queued /\ wire' = More(left)

Request(rs) == Exchange({}, rs)

-----------------------------------------------------------------------------
\* MetricsModel.

\* Fault: stop() forgets the container before it tells the backend.
StoppedUntold ==
    /\ sampling' = FALSE /\ metricsId' = NoContainer
    /\ points' = 0 /\ previous' = NoContainer
    /\ UNCHANGED wanted

\* stop(), unless nothing is sampled.
Stopped ==
    /\ sampling' = FALSE /\ metricsId' = NoContainer
    /\ points' = 0 /\ previous' = NoContainer
    /\ wanted' = wanted \ {metricsId}

StopSampling ==
    /\ IF sampling THEN Stopped ELSE UNCHANGED <<sampling, metricsId, points, previous, wanted>>
    /\ UNCHANGED failures

\* Fault: start() returns whenever something is sampled.
SamplingAny(c) == sampling

\* start() returns when it samples this container already.
SamplingAlready(c) == sampling /\ metricsId = c

\* start(): stop(), then the first sample is asked for.
Sampled(c) ==
    /\ sampling' = TRUE /\ metricsId' = c
    /\ points' = 0 /\ previous' = NoContainer /\ failures' = 0
    /\ wanted' = (wanted \ {metricsId}) \cup {c}

\* The timer of the model: requestSample().
SampleTick ==
    /\ sampling
    /\ wanted' = wanted \cup {metricsId}
    /\ Request({Stats(metricsId)})
    /\ UNCHANGED <<pages, pageVars, sampling, metricsId, points, previous, failures,
                   portVars, abandons>>

\* addSample()
SampleKept(c) ==
    /\ failures' = 0
    /\ points' = IF points < History THEN points + 1 ELSE points
    /\ previous' = c
    /\ UNCHANGED <<sampling, metricsId, wanted>>

\* noteFailure()
FailureNoted ==
    /\ failures' = failures + 1
    /\ IF failures + 1 < MaxFailures
       THEN UNCHANGED <<sampling, metricsId, points, previous, wanted>>
       ELSE Stopped

\* onSectionFailed() for a sample: sectionFailed() does not tell whose it is.
SampleFails ==
    IF started /\ sampling THEN FailureNoted ELSE UNCHANGED metricsVars

\* The finished handler of a sample: containerStatsUpdated() and onStatsUpdated(), or
\* sectionFailed().  Both are dropped when nobody wants the container any more.
StatsAnswered(c, ok) ==
    LET heard == c \in wanted
        kept == heard /\ ok /\ started /\ sampling /\ shown = c /\ metricsId = c
    IN  /\ Exchange({Stats(c)}, {})
        /\ \/ kept /\ SampleKept(c)
           \/ heard /\ ~ok /\ SampleFails
           \/ ~kept /\ ~(heard /\ ~ok) /\ UNCHANGED metricsVars
        /\ UNCHANGED <<pages, pageVars, portVars, abandons>>

-----------------------------------------------------------------------------
\* ContainerDetailController.

\* setContainerId() and start() of a page that is pushed on the stack.
OpenPage(c) ==
    /\ Len(pages) < MaxPages
    /\ pages' = Append(pages, c)
    /\ shown' = c
    /\ IF shown = c
       THEN UNCHANGED <<detail, running>>
       ELSE detail' = NoContainer /\ running' = FALSE
    /\ loadState' = "loading"
    /\ started' = TRUE
    /\ Request({Inspect(c)})
    /\ UNCHANGED <<metricsVars, portVars, abandons>>

\* The page on top is popped and destroyed: stop().
ClosePage ==
    /\ Undisturbed
    /\ pages # <<>>
    /\ pages' = Front(pages)
    /\ started' = FALSE
    /\ StopSampling
    /\ UNCHANGED <<shown, detail, running, loadState, requestVars, portVars, abandons>>

\* refresh(), from the error message of the page.
RetryPage ==
    /\ pages # <<>> /\ loadState = "error"
    /\ loadState' = "loading"
    /\ Request({Inspect(shown)})
    /\ UNCHANGED <<pages, shown, detail, running, started, metricsVars, portVars, abandons>>

\* The 30 second timer, and reload() when a write changed the container, whether or not a page
\* is open.
InspectAgain ==
    /\ shown # NoContainer
    /\ Request({Inspect(shown)})
    /\ UNCHANGED <<pages, pageVars, metricsVars, portVars, abandons>>

\* onDetailUpdated(), when the container is the one the controller is for: lists, state, and
\* the metrics.
DetailArrives(c, isRunning) ==
    /\ detail' = c /\ running' = isRunning /\ loadState' = "ready"
    /\ \/ isRunning /\ SamplingAlready(c) /\ UNCHANGED metricsVars
       \/ isRunning /\ ~SamplingAlready(c) /\ Sampled(c)
       \/ ~isRunning /\ StopSampling
    /\ UNCHANGED <<shown, started>>

-----------------------------------------------------------------------------
\* StatusController.

\* Fault: what the open page asked for is kept from the ports page.
LearnOthers(c) == IF c = shown THEN declared ELSE declared \cup ({c} \cap requested)

\* The slot of containerDetailUpdated().
Learn(c) == declared \cup ({c} \cap requested)

\* refreshPorts(): every container not asked for yet.
RefreshPorts ==
    /\ requested # Containers
    /\ requested' = Containers
    /\ Request({Inspect(c) : c \in Containers \ requested})
    /\ UNCHANGED <<pages, pageVars, metricsVars, declared, failed, abandons>>

\* The finished handler of an inspect that succeeds.  The first sample is asked for inside it.
InspectAnswered(c, isRunning) ==
    /\ declared' = Learn(c)
    /\ failed' = failed \ {c}
    /\ IF c = shown
       THEN /\ DetailArrives(c, isRunning)
            /\ Exchange({Inspect(c)}, IF isRunning /\ ~SamplingAlready(c) THEN {Stats(c)} ELSE {})
       ELSE UNCHANGED <<pageVars, metricsVars>> /\ Exchange({Inspect(c)}, {})
    /\ UNCHANGED <<pages, requested, abandons>>

\* onSectionFailed() for an inspect, whosever it is.
DetailFails(c) ==
    /\ failed' = failed \cup {c}
    /\ loadState' = IF started THEN "error" ELSE loadState
    /\ UNCHANGED <<pages, shown, detail, running, started, metricsVars, requested, declared, abandons>>

\* The finished handler of an inspect that fails.
InspectFailed(c) ==
    /\ Exchange({Inspect(c)}, {})
    /\ DetailFails(c)

-----------------------------------------------------------------------------
\* The end of the handshake, seen by the requests that wait for it.

HandshakeSucceeds ==
    /\ Undisturbed
    /\ queued # NoneQueued
    /\ wire' = [r \in Requests |-> wire[r] + queued[r]]
    /\ queued' = NoneQueued
    /\ UNCHANGED <<pages, pageVars, metricsVars, keys, portVars, abandons>>

\* handshakeFailed(): flushReadyCallbacks() is about to fail every request that waits.
HandshakeFails ==
    /\ ~failing /\ queued # NoneQueued
    /\ failing' = TRUE
    /\ UNCHANGED <<pages, pageVars, metricsVars, requestVars, portVars, abandons>>

\* abandonInFlightRequests() by the watchdog: the keys are forgotten, what waits fails, and what
\* was sent goes on.
Abandon ==
    /\ ~failing /\ abandons < MaxAbandons
    /\ abandons' = abandons + 1
    /\ keys' = {}
    /\ failing' = (queued # NoneQueued)
    /\ UNCHANGED <<pages, pageVars, metricsVars, queued, wire, portVars>>

\* failSection() for one of them, which asks neither whether its sample is wanted nor ends its
\* request: the key stays taken.
QueuedFails(r) ==
    /\ failing /\ queued[r] > 0
    /\ queued' = [queued EXCEPT ![r] = @ - 1]
    /\ failing' = (queued' # NoneQueued)
    /\ IF r.kind = "inspect"
       THEN DetailFails(r.of)
       ELSE SampleFails /\ UNCHANGED <<pages, pageVars, portVars, abandons>>
    /\ UNCHANGED <<keys, wire>>

-----------------------------------------------------------------------------

Init ==
    /\ pages = <<>>
    /\ shown = NoContainer /\ detail = NoContainer /\ running = FALSE
    /\ loadState = "idle" /\ started = FALSE
    /\ sampling = FALSE /\ metricsId = NoContainer
    /\ points = 0 /\ previous = NoContainer /\ failures = 0
    /\ wanted = {}
    /\ keys = {} /\ queued = NoneQueued /\ wire = NoneQueued
    /\ failing = FALSE
    /\ requested = {} /\ declared = {} /\ failed = {}
    /\ abandons = 0

Next ==
    \/ \E c \in Containers : OpenPage(c) \/ InspectFailed(c)
    \/ \E c \in Containers, b \in BOOLEAN : InspectAnswered(c, b) \/ StatsAnswered(c, b)
    \/ ClosePage
    \/ RetryPage
    \/ InspectAgain
    \/ SampleTick
    \/ RefreshPorts
    \/ HandshakeSucceeds
    \/ HandshakeFails
    \/ Abandon
    \/ \E r \in Requests : QueuedFails(r)

Spec == Init /\ [][Next]_vars

-----------------------------------------------------------------------------

\* The types of the variables.
DetailTypeOK ==
    /\ pages \in Seq(Containers)
    /\ shown \in Containers \cup {NoContainer} /\ detail \in Containers \cup {NoContainer}
    /\ running \in BOOLEAN /\ started \in BOOLEAN /\ sampling \in BOOLEAN
    /\ loadState \in {"idle", "loading", "ready", "error"}
    /\ metricsId \in Containers \cup {NoContainer} /\ previous \in Containers \cup {NoContainer}
    /\ points \in 0 .. History /\ failures \in Nat
    /\ wanted \subseteq Containers
    /\ keys \subseteq Requests /\ failing \in BOOLEAN
    /\ queued \in [Requests -> Nat] /\ wire \in [Requests -> Nat]
    /\ requested \subseteq Containers /\ declared \subseteq Containers /\ failed \subseteq Containers

\* A page that is ready shows the container it was set to, with the metrics of that container
\* and only while it runs, in whatever order pages are pushed and old answers arrive.
ReadyIsOwn ==
    loadState = "ready" => /\ detail = shown
                           /\ sampling => metricsId = shown /\ running

\* The backend's interest and the previous sample belong to the container that is sampled, and
\* it is sampled only until it has failed the limit of times in a row: whatever late samples of
\* one that was left arrive, none is kept, no rate spans two containers, and a page that is left
\* leaves no history and no polling behind.
SamplingIsOne ==
    /\ wanted = IF sampling THEN {metricsId} ELSE {}
    /\ previous # NoContainer => previous = metricsId
    /\ points > 0 => sampling
    /\ sampling => failures < MaxFailures

\* The ports page asks for each container once in its life, so it must learn from every answer,
\* also one that another page asked for: what it has asked for is known or still to be answered,
\* unless the last answer was a failure, whatever handshakes fail and the watchdog gives up.
PortsAreLearned ==
    \A c \in requested : c \in declared \/ Unanswered(Inspect(c)) > 0 \/ c \in failed

\* "Page already left: drop the result and report no error" (docker_backend.cpp): what counts
\* towards the end of the sampling is a failing sample of the container that is sampled.
\* It does not hold: a sample that waited for a handshake that fails is reported and counted,
\* whosever it is and whether or not it is still wanted.
FailuresAreOwn ==
    [][failures' > failures
       => \E c \in Containers : /\ c = metricsId /\ c \in wanted
                                /\ StatsAnswered(c, FALSE) \/ QueuedFails(Stats(c))]_vars

\* "Leaving the page: stop stats sampling and drop history" (container_detail_controller.cpp):
\* nothing is sampled while no page is open.
\* It does not hold: an answer that arrives after stop() starts the metrics again.
NoSamplingAfterLeave == sampling => started

\* The page on top of the stack acts on its own containerId and shows the controller's.
\* It does not hold: a page that comes back to the top shows the container of the one above it.
PageShowsOwn == pages # <<>> /\ loadState = "ready" => Last(pages) = shown
=============================================================================
