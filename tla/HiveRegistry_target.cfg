SPECIFICATION Spec
CONSTANTS
    Node = {a, b}
    NoId = NoId
    MAX_NODES = 3
    HEARTBEAT_TIMEOUT_S = 0
    total_layers = 2
    Loads <- MCLoads
    Caps <- MCCaps
SYMMETRY NodeSymmetry
INVARIANT TargetIsAvailable
CHECK_DEADLOCK FALSE
