SPECIFICATION Spec
CONSTANTS
    M = 16
    MaxPort = 15
    MinPort = {0, 1, 4, 5, 12}
INVARIANTS
    OnlyOwnPorts
CHECK_DEADLOCK FALSE
