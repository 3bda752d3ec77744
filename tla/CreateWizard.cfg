SPECIFICATION Spec
CONSTANTS
    Images = {"img"}
    Neighbours = {"web"}
    Names = {"web", "web-copy"}
    Ports = {1, 2, 3}
    Addresses = {"lo"}
    OneAddress = TRUE
    NeighbourListings <- MCListings
    Destinations = {"/data"}
    TypedSteps = {"resources"}
    MaxRows = 2
INVARIANTS
    SuggestionIsFree
PROPERTIES
    RequestIsSound
CHECK_DEADLOCK FALSE
