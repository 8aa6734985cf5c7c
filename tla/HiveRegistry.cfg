SPECIFICATION Spec
CONSTANTS
    Node = {a, b}
    NoId = NoId
    MAX_NODES = 3
    HEARTBEAT_TIMEOUT_S = 0
    total_layers = 2
    Loads <- MCLoads
    Caps <- MCCaps
SYMMETRY NodeSymmetry
INVARIANTS
    TypeOK
    OneSlotPerNode
    GoneGetNothing
    CountNeverLow
    OneOwner
PROPERTIES
    RebalancePartitions
CHECK_DEADLOCK FALSE
