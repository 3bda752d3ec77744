SPECIFICATION Spec
CONSTANTS
    Values = {"v1"}
    Foreign = {"f1"}
    NoKey = "no_key"
    Missing = Missing
    Broken = Broken
    NoEdit = NoEdit
    NoBackup = NoBackup
    Shared = {"system"}
    Others <- MCOthers
    MaxJobs = 2
    MaxChanges = 1
    MaxSaves = 2
INVARIANT
    WaitingHasJob
PROPERTIES
    ForeignKeysKept
    Revertible
CHECK_DEADLOCK FALSE
