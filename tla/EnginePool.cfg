CONSTANTS
  None = None
  Proxy = {p1, p2, p3}
  MaxSize = 4
  Pools <- MCPools
  Quarantine = 6
  Interval = 2
  MaxRequest = 1
  MaxNow = 13
SPECIFICATION Spec
SYMMETRY Symmetry
CHECK_DEADLOCK FALSE
INVARIANTS
  TypeOK
  AvailableIsHonest
  QuarantineHolds
  NobodyStarves
  PoolOutlastsQuarantine
