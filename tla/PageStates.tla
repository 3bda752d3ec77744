------------------------------ MODULE PageStates ------------------------------
(***************************************************************************)
(* What the status page shows: StatusController keeps the state of the     *)
(* whole page, of the engine and of each section beside the verdicts they  *)
(* are computed from, and recomputes them in updateStates().  Whether what *)
(* is shown is current depends on every slot calling it after the last     *)
(* change of its handler.                                                  *)
(*                                                                         *)
(* Each action is one of RefreshCycle conjoined with the recomputation its *)
(* slots do.  The services' state, which only calls updateStates() once    *)
(* more, is left out.                                                      *)
(***************************************************************************)
EXTENDS RefreshCycle

VARIABLES
    empty,   \* lists whose model has no rows
    shown    \* m_engineState, m_state and the state of each section

pageStateVars == <<empty, shown>>
allVars == <<systemVars, pageStateVars>>

\* computeListState() and computeStorageState()
ListState(s) ==
    CASE s \in failed -> "error"
      [] s \notin failed /\ s \in ok -> IF s \in empty THEN "empty" ELSE "ready"
      [] s \notin failed /\ s \notin ok -> IF loading THEN "loading" ELSE "idle"

\* Only the engine and the fast lists decide about the whole page.
PageState ==
    LET Deciding == {"engine"} \cup FastLists
    IN CASE loading -> "loading"
         [] ~loading /\ ok \cap Deciding # {} -> "ready"
         [] ~loading /\ ok \cap Deciding = {} /\ failed \cap Deciding # {} -> "error"
         [] OTHER -> "idle"

\* updateStates()
Computed ==
    [engine |-> EngineState, page |-> PageState,
     sections |-> [s \in Lists \cup PageDetails |-> ListState(s)]]

UpdateStates == shown' = Computed'

\* Only the slot of loadingChanged() runs, if it was emitted.
Announced ==
    /\ UNCHANGED empty
    /\ IF loading' # loading THEN UpdateStates ELSE UNCHANGED shown

\* What updateStates() makes of a list that is ok, before its new rows are there.
WithOldRows(l) == [Computed' EXCEPT !.sections[l] = IF l \in empty THEN "empty" ELSE "ready"]

-----------------------------------------------------------------------------

\* Fault: the fast lists return as early as the others.
ListShownIfNew(l) ==
    /\ empty' \in {empty \cup {l}, empty \ {l}}
    /\ IF l \notin ok THEN UpdateStates
       ELSE shown' = IF loading' # loading THEN WithOldRows(l) ELSE shown

\* on...Updated(): the model gets its rows.  Networks and volumes that have been read before
\* call nothing: they show the state of the loadingChanged() that came first, if there was one.
ListShown(l) ==
    /\ empty' \in {empty \cup {l}, empty \ {l}}
    /\ IF l \in FastLists \/ l \notin ok THEN UpdateStates
       ELSE shown' = IF loading' # loading THEN WithOldRows(l) ELSE shown

-----------------------------------------------------------------------------
\* The handlers, with the recomputation.

PageAsks ==
    /\ \/ Refresh \/ AutomaticRefresh \/ AutomaticStorage \/ ToggleAutoRefresh
       \/ \E l \in Lists : ListRequested(l)
       \/ \E k \in Details : DetailRequested(k)
       \/ HandshakeGoesOn
    /\ Announced

\* Every slot of engineUpdated(), storageUpdated() and sectionFailed() ends in updateStates().
SectionReports ==
    /\ \/ EngineRead
       \/ \E s \in {"ping", "version"} : HandshakeLost(s)
       \/ \E k \in Details : DetailRead(k)
       \/ WatchdogFired
    /\ IF UNCHANGED <<ok, failed, reported, engineShown>> THEN Announced
       ELSE UNCHANGED empty /\ UpdateStates

\* Networks have members to compute only once they have been read.
ListReport(l) ==
    /\ ListRead(l)
    /\ \A n \in empty \ {l} : n \in ok' => n \in ok
    /\ IF l \in ok' THEN ListShown(l) ELSE UNCHANGED empty /\ UpdateStates

StatesInit ==
    /\ PageInit
    /\ empty = Lists
    /\ shown = [engine |-> "loading", page |-> "idle",
                sections |-> [s \in Lists \cup PageDetails |-> "idle"]]

StatesNext ==
    \/ PageAsks
    \/ SectionReports
    \/ \E l \in Lists : ListReport(l)

StatesSpec == StatesInit /\ [][StatesNext]_allVars /\ PageFairness

-----------------------------------------------------------------------------

\* What the page shows of itself, the engine, the fast lists and the disk usage is what their
\* verdicts say, at every step: no slot changes a verdict, the loading flag or the request of
\* the user without a recomputation after it.  refresh() itself has none: it relies on the
\* engine section being in flight when it returns.
ShownIsCurrent ==
    /\ shown.engine = EngineState
    /\ shown.page = PageState
    /\ \A s \in FastLists \cup PageDetails : shown.sections[s] = ListState(s)

\* "No data means an empty networks page" (updateStates()).  It does not hold: networks or
\* volumes that are all gone are still shown as ready until something else is recomputed.
EmptyIsShown == \A l \in Lists : shown.sections[l] = ListState(l)
=============================================================================
