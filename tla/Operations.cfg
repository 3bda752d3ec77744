SPECIFICATION Spec
CONSTANTS
    Containers = {"c1", "c2"}
    Existing = {"c1"}
    NoContainer = "none"
    Images = {"i1", "i2"}
    Builds = {"b1"}
    Volumes = {"v1"}
    Networks = {"n1"}
    MaxIssued = 2
    MaxAbandons = 1
INVARIANTS
    OneOperationPerTarget
    PullsAreShown
    BuildOwnsArchive
    WishIsKept
PROPERTIES
    PullsSettle
CHECK_DEADLOCK FALSE
