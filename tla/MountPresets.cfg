CONSTANTS
    Windows = {w1, w2}
    Places = {p1, p2, t1}
    Tmpfs = {t1}
    Commands = {c1}
    None = None
    MaxRecent = 1
    MaxEntries = 1
    MaxPresets = 2
    MaxNow = 4
    MaxEdits = 4
SPECIFICATION StoresSpec
INVARIANTS OrderListsPresets FileFollowsWriter
PROPERTIES OldestIsTrimmed
SYMMETRY Symmetry
