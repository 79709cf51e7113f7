SPECIFICATION Spec
CONSTANTS
  None = None
  AnyKind = AnyKind
  Kinds <- MCKinds
  Snapshots <- MCSnapshots
  KindSets <- MCKindSets
  Products <- MCProducts
  TraversalSources <- MCTraversals
  MaxCalls = 4
INVARIANTS
  TypeOK
  QueryAsMeant
  FaultsAreFirst
CHECK_DEADLOCK FALSE
