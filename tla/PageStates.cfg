SPECIFICATION StatesSpec
CONSTANTS
    Lists = {"containers"}
    FastLists = {"containers"}
    Details = {"storage"}
    Stats = {}
    Targets = {}
    MaxIssued = 0
    MaxAuth = 0
    MaxAbandons = 1
    MaxFailures = 2
INVARIANTS
    CycleHasWork
    ReasonMatchesVerdict
    ShownIsCurrent
PROPERTIES
    CycleCloses
CHECK_DEADLOCK FALSE
