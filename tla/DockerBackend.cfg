SPECIFICATION Spec
CONSTANTS
    Lists = {"containers"}
    FastLists = {"containers"}
    Details = {"storage"}
    Stats = {"stats"}
    Targets = {"m1"}
    MaxIssued = 1
    MaxAuth = 1
    MaxAbandons = 1
INVARIANTS
    QueueHasHandshake
    LoadingIsCurrent
PROPERTIES
    SentWithVersion
    WritesKeepContract
    EveryWriteIsAnswered
    ListsSettle
CHECK_DEADLOCK FALSE
