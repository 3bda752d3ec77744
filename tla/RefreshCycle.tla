---------------------------- MODULE RefreshCycle -----------------------------
(***************************************************************************)
(* The refresh cycle of the status page: RefreshScheduler, which asks for  *)
(* the fast data (engine, containers, images) and counts failed cycles,    *)
(* and StatusController, which turns the backend's signals into the state  *)
(* shown for each section and guards the backend with a watchdog.          *)
(*                                                                         *)
(* Both react to signals that DockerBackend emits in the middle of its     *)
(* handlers, so each action here is a backend handler conjoined with what  *)
(* the slots do during it.  The order of the signals matters: updateLoading*)
(* comes before sectionFailed() and before the ...Updated() signals, and   *)
(* the scheduler closes a cycle in the slot of loadingChanged().  m_busy   *)
(* of the page follows loadingChanged() and so equals `loading'.  The time *)
(* of the last successful update is not kept.                              *)
(*                                                                         *)
(* Details stands for every keyed request; the disk usage, the only one    *)
(* with a section on this page, is the key "storage".                      *)
(***************************************************************************)
EXTENDS DockerBackend

CONSTANT MaxFailures   \* bound: failed cycles in a row

ASSUME FailuresAssumption == MaxFailures \in Nat \ {0}
ASSUME SectionsAssumption == "engine" \notin Lists \cup Details

VARIABLES
    cycleInProgress,     \* RefreshScheduler::m_cycleInProgress
    cycleHadFailure,     \* m_cycleHadFailure
    consecutiveFailures, \* m_consecutiveFailures
    autoRefresh,         \* m_autoRefreshEnabled: the two timers run
    refreshRequested,    \* StatusController::m_refreshRequested
    ok,                  \* sections whose m_...Ok is set
    failed,              \* sections whose m_...Failed is set
    reported,            \* sections with an error text
    engineShown          \* EngineStatus::available()

schedulerVars == <<cycleInProgress, cycleHadFailure, consecutiveFailures>>
sectionVars == <<ok, failed, reported>>
pageVars == <<cycleInProgress, cycleHadFailure, consecutiveFailures, autoRefresh,
              refreshRequested, ok, failed, reported, engineShown>>
systemVars == <<vars, pageVars>>

PageDetails == Details \cap {"storage"}
Sections == {"engine"} \cup Lists \cup PageDetails

\* isRefreshingFastData()
IsRefreshingFastData == engineBusy \/ busy \cap FastLists # {}

\* computeEngineState()
EngineState ==
    CASE engineShown /\ "engine" \in reported -> "partial"
      [] engineShown /\ "engine" \notin reported /\ loading -> "refreshing"
      [] engineShown /\ "engine" \notin reported /\ ~loading -> "ready"
      [] ~engineShown /\ (loading \/ ~refreshRequested) -> "loading"
      [] OTHER -> "unavailable"

-----------------------------------------------------------------------------
\* What the slots do.

CycleEnds == cycleInProgress /\ loading /\ ~loading'

\* Fault: a failed cycle is not closed.
JudgeOnlyClean(noted) ==
    IF CycleEnds /\ ~noted
    THEN /\ cycleInProgress' = FALSE
         /\ consecutiveFailures' = 0
    ELSE UNCHANGED <<cycleInProgress, consecutiveFailures>>

\* onBackendLoadingChanged(): the cycle ends when nothing is loading any more.  `noted' is
\* m_cycleHadFailure at that moment.
Judge(noted) ==
    IF CycleEnds
    THEN /\ cycleInProgress' = FALSE
         /\ consecutiveFailures' = IF noted THEN consecutiveFailures + 1 ELSE 0
    ELSE UNCHANGED <<cycleInProgress, consecutiveFailures>>

\* Fault: the old error text stays.
SectionsUpdatedKeepError(ss) ==
    /\ ok' = ok \cup ss
    /\ failed' = failed \ ss
    /\ UNCHANGED reported

\* on...Updated(), once for each of the sections
SectionsUpdated(ss) ==
    /\ ok' = ok \cup ss
    /\ failed' = failed \ ss
    /\ reported' = reported \ ss

\* onSectionFailed(), once for each of the sections
SectionsFailed(ss) ==
    /\ ok' = ok \ ss
    /\ failed' = failed \cup ss
    /\ reported' = reported \cup ss

\* The sections of the queued requests, which fail together with the handshake.
QueuedSections == {s \in Lists \cup PageDetails : queued[s] > 0}

-----------------------------------------------------------------------------
\* What the page asks for.

\* requestRefresh()
RequestRefresh(details) ==
    /\ cycleInProgress' = TRUE
    /\ cycleHadFailure' = FALSE
    /\ RefreshAll(details)

\* refresh(): the page opens or the user refreshes.  The networks and volumes it reads the
\* first time are a ListRequested step.
Refresh ==
    /\ RequestRefresh(PageDetails)
    /\ consecutiveFailures' = 0
    /\ refreshRequested' = TRUE
    /\ UNCHANGED <<autoRefresh, engineShown>>
    /\ UNCHANGED sectionVars

\* m_fastTimer
AutomaticRefresh ==
    /\ autoRefresh
    /\ ~IsRefreshingFastData
    /\ consecutiveFailures < MaxFailures
    /\ RequestRefresh({})
    /\ UNCHANGED <<consecutiveFailures, autoRefresh, refreshRequested, engineShown>>
    /\ UNCHANGED sectionVars

\* m_storageTimer: triggerStorageRefresh()
AutomaticStorage ==
    /\ autoRefresh
    /\ ~IsRefreshingFastData
    /\ \E k \in PageDetails : RequestDetail(k)
    /\ UNCHANGED pageVars

\* setAutoRefreshEnabled()
ToggleAutoRefresh ==
    /\ autoRefresh' = ~autoRefresh
    /\ UNCHANGED vars
    /\ UNCHANGED <<refreshRequested, engineShown>>
    /\ UNCHANGED schedulerVars
    /\ UNCHANGED sectionVars

\* Other pages and finished operations ask for single lists and details; retryStorage().
ListRequested(l) == RefreshList(l) /\ UNCHANGED pageVars
DetailRequested(k) == RequestDetail(k) /\ UNCHANGED pageVars

-----------------------------------------------------------------------------
\* The backend's handlers, with the slots they call.

HandshakeGoesOn == (PingAnswered \/ VersionAnswered) /\ UNCHANGED pageVars

\* The end of a successful handshake: engineUpdated() if the section was waiting for it, and
\* only then sectionFailed(Engine) if /info could not be read.
EngineRead ==
    /\ InfoAnswered
    /\ Judge(cycleHadFailure)
    /\ engineShown' = IF engineBusy THEN engineAvailable ELSE engineShown
    /\ \/ /\ ~countsAvailable'
          /\ SectionsFailed({"engine"})
          /\ cycleHadFailure' = TRUE
       \/ /\ countsAvailable' /\ engineBusy /\ engineAvailable
          /\ SectionsUpdated({"engine"})
          /\ UNCHANGED cycleHadFailure
       \/ \* the session was lost to an older handshake in the meantime
          /\ countsAvailable' /\ engineBusy /\ ~engineAvailable
          /\ ok' = ok \ {"engine"}
          /\ failed' = failed \cup {"engine"}
          /\ UNCHANGED <<reported, cycleHadFailure>>
       \/ /\ countsAvailable' /\ ~engineBusy
          /\ UNCHANGED cycleHadFailure
          /\ UNCHANGED sectionVars
    /\ UNCHANGED <<autoRefresh, refreshRequested>>

\* finishHandshakeFailure(): the engine section fails first and the waiting sections after it.
\* The cycle ends before the first of these signals if nothing but the engine was loading.
HandshakeLost(s) ==
    /\ HandshakeFailed(s)
    /\ Judge(cycleHadFailure \/ busy \cap FastLists # {})
    /\ engineShown' = FALSE
    /\ SectionsFailed({"engine"} \cup QueuedSections)
    /\ cycleHadFailure' = TRUE
    /\ UNCHANGED <<autoRefresh, refreshRequested>>

\* refreshNetworkMembership(): the members of the networks follow from the containers, so a new
\* container list may be followed by networksUpdated(), whatever became of the networks' own
\* last request.
MembershipOf(l) == IF l \in FastLists \cap {"containers"} THEN Lists \cap {"networks"} ELSE {}

\* The reply to a list request; a failure is noted only after loadingChanged().
ListRead(l) ==
    /\ ListAnswered(l)
    /\ Judge(cycleHadFailure)
    /\ \/ /\ \E also \in SUBSET MembershipOf(l) : SectionsUpdated({l} \cup also)
          /\ UNCHANGED cycleHadFailure
       \/ /\ SectionsFailed({l})
          /\ cycleHadFailure' = (cycleHadFailure \/ l \in FastLists)
    /\ UNCHANGED <<autoRefresh, refreshRequested, engineShown>>

\* The reply to a keyed request; it may be the last thing the cycle waits for.
DetailRead(k) ==
    /\ KeyAnswered(k)
    /\ Judge(cycleHadFailure)
    /\ \/ k \in PageDetails /\ (SectionsUpdated({k}) \/ SectionsFailed({k}))
       \/ k \notin PageDetails /\ UNCHANGED sectionVars
    /\ UNCHANGED <<cycleHadFailure, autoRefresh, refreshRequested, engineShown>>

\* onBusyWatchdogTimeout(): the requests are given up, and the engine section reports it.
WatchdogFired ==
    /\ Abandon
    /\ Judge(cycleHadFailure)
    /\ SectionsFailed({"engine"} \cup QueuedSections)
    /\ cycleHadFailure' = TRUE
    /\ UNCHANGED <<autoRefresh, refreshRequested, engineShown>>

-----------------------------------------------------------------------------

PageInit ==
    /\ Init
    /\ cycleInProgress = FALSE
    /\ cycleHadFailure = FALSE
    /\ consecutiveFailures = 0
    /\ autoRefresh = TRUE
    /\ refreshRequested = FALSE
    /\ ok = {}
    /\ failed = {}
    /\ reported = {}
    /\ engineShown = FALSE

PageNext ==
    \/ Refresh
    \/ AutomaticRefresh
    \/ AutomaticStorage
    \/ ToggleAutoRefresh
    \/ \E l \in Lists : ListRequested(l) \/ ListRead(l)
    \/ \E k \in Details : DetailRequested(k) \/ DetailRead(k)
    \/ HandshakeGoesOn
    \/ EngineRead
    \/ \E s \in {"ping", "version"} : HandshakeLost(s)
    \/ WatchdogFired

\* The watchdog is a timer armed while anything is loading, so it fires if the loading does
\* not end before; the replies themselves may never come.
PageFairness == WF_systemVars(WatchdogFired)

PageSpec == PageInit /\ [][PageNext]_systemVars /\ PageFairness

-----------------------------------------------------------------------------

\* The types of the variables, and the bound on the counter.
PageTypeOK ==
    /\ cycleInProgress \in BOOLEAN
    /\ cycleHadFailure \in BOOLEAN
    /\ consecutiveFailures \in 0 .. MaxFailures
    /\ autoRefresh \in BOOLEAN
    /\ refreshRequested \in BOOLEAN
    /\ ok \subseteq Sections
    /\ failed \subseteq Sections
    /\ reported \subseteq Sections
    /\ engineShown \in BOOLEAN

\* A cycle in progress is always closed by a later loadingChanged(): there is no order of
\* coalesced requests, failures and late replies that leaves it open with nothing loading.
CycleHasWork == cycleInProgress => loading

\* The verdict shown for a section agrees with the error text beside it: a failed section
\* gives a reason, and a healthy one has none, whatever replies of abandoned requests arrive.
ReasonMatchesVerdict ==
    /\ failed \subseteq reported
    /\ ok \cap (failed \cup reported) = {}

\* As long as the watchdog has not interfered, an engine shown as ready is one the backend
\* holds a negotiated version and the counts of /info for.
ReadyIsNegotiated ==
    abandons = 0 /\ EngineState = "ready" => negotiated /\ countsAvailable

\* No cycle stays open: even if no reply ever comes, the watchdog ends it.
CycleCloses == (cycleInProgress /\ abandons < MaxAbandons) ~> ~cycleInProgress

\* Once a refresh was requested the engine does not stay at "loading": an unreachable or
\* silent daemon is in the end shown as unavailable.
EngineLeavesLoading ==
    (refreshRequested /\ EngineState = "loading" /\ abandons < MaxAbandons)
        ~> EngineState # "loading"

\* RefreshScheduler::onBackendLoadingChanged() is documented to count a cycle as failed if any
\* fast section failed: a cycle that ends with a failure noted adds one to the counter.
\* It does not hold: the last failure of a cycle is noted after the cycle is judged.
FailedCycleIsCounted ==
    [][cycleInProgress /\ ~cycleInProgress' /\ cycleHadFailure'
        => consecutiveFailures' = consecutiveFailures + 1]_systemVars
=============================================================================
