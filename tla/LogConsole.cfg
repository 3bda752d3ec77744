SPECIFICATION Spec
CONSTANTS
    Containers = {"c1", "c2"}
    NoContainer = "none"
    MaxRows = 2
    MaxBytes = 3
    FlushRows = 2
    MaxLines = 3
    MaxConnects = 3
    MaxAbandons = 1
INVARIANTS
    ConsoleShowsLog
    PendingIsScheduled
    ConsoleIsServed
    NoStrayStream
CHECK_DEADLOCK FALSE
