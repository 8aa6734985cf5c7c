CONSTANTS
  None = None
  Nodes = {n1, n2}
  Endpoints = {e1, e2, e3}
  PoolSize = 3
  RDMA_RETRY_MAX = 2
  MaxSegments = 2
  MaxTokens = 2
  MaxGenerated = 4
SPECIFICATION Spec
SYMMETRY NodeSymmetry
INVARIANTS
  TypeOK
  EndpointsOwned
  StreamsToTarget
PROPERTIES
  ImplementsTokenWindow
