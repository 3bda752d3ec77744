SPECIFICATION MapSpec
CONSTANTS
    Neighbours = {"c1", "c2"}
    Ports = {1, 4}
    Addresses = {"lo"}
    OneAddress = TRUE
    NeighbourListings <- MCListings
    MaxPort = 7
    Gap = 1
    Margin = 1
    TilesPerRange = 3
    Filters = {"inUse", "reserved"}
INVARIANTS
    RowsShowEntries
    AnswersAgree
    MapIsCurrent
    TitlesCountTiles
