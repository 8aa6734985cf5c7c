CONSTANTS
  NoFd = NoFd
  ZeroCrc = z
  Shards = {s1, s2}
  Fds = {f1, f2, f3}
  MaxSlots = 2
  MaxConcurrent = 2
  MaxTransfers = 2
  Size = 2
  Crcs = {z, a, b}
  Data = {d1, d2}
  IndexSize = 2
  MaxLog = 2
SPECIFICATION Spec
SYMMETRY FdSymmetry
INVARIANTS
  TypeOK
  SocketsOwned
  NeverPastEnd
PROPERTIES
  ImplementsDurableIndex
