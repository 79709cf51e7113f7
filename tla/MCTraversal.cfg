SPECIFICATION Spec
CONSTANTS
  None = None
  Kinds <- MCKinds
  Snapshots <- MCSnapshots
  Calls <- MCCalls
  Programs <- MCPrograms
  Generations = 3
  Unbounded = 1000000
INVARIANTS
  TypeOK
  LevelsAreExact
  ReachesWithinDepth
  DiscoveryOrder
  LimitsCutShort
  CanReachAgrees
CHECK_DEADLOCK FALSE
