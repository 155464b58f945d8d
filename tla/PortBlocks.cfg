SPECIFICATION Spec
CONSTANTS
    M = 16
    MaxPort = 15
    MinPort = {0, 1, 4, 5, 12}
INVARIANTS
    BlocksDisjoint
    IndexRoundTrip
    ContainingIsExact
    AllPortsWritten
PROPERTY
    LoopEnds
CHECK_DEADLOCK FALSE
