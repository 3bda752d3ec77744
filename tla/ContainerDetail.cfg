SPECIFICATION Spec
CONSTANTS
    Containers = {a, b}
    NoContainer = NoContainer
    History = 2
    MaxFailures = 2
    MaxPages = 2
    MaxOnWire = 1
    MaxAbandons = 1
SYMMETRY Symmetry
INVARIANTS
    ReadyIsOwn
    SamplingIsOne
    PortsAreLearned
CHECK_DEADLOCK FALSE
