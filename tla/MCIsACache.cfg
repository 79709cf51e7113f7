SPECIFICATION FairSpec
CONSTANTS
  T1 = T1
  T2 = T2
  None = None
  Threads <- MCThreads
  Kinds <- MCKinds
  Snapshots = {1, 2}
  IsA <- MCIsA
  MaxCalls = 3
INVARIANTS
  AnswersFormPreorder
PROPERTIES
  CallsReturn
CHECK_DEADLOCK FALSE
