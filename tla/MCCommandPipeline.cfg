SPECIFICATION FairPipelineSpec
CONSTANTS
  T1 = T1
  NoName = NoName
  NoType = NoType
  Spellings = {"a", "b"}
  Names = {"is_a", "a", "b"}
  Kinds = {1, 2, 3}
  Types = {T1}
  Canon <- MCCanon
  Hash <- MCHash
  ReservedNames = {}
  CoreNames <- MCCore
  SeedEdges = {}
  Namespaces = {"n"}
  NamespaceFault <- MCFault
  Members <- MCMembers
  StaticTypes = {T1}
  StaticName <- MCStaticName
  StaticKind <- MCStaticKind
  ConstGroups <- MCGroups
  EdgeGroups <- MCEdgeGroups
  VersionModulus = 16
  Systems <- MCSystems
  SystemPhase <- MCSystemPhase
  AppSystems = {"post"}
  Stageable <- MCStageable
  BatchGroups <- MCBatches
  EditChains <- MCChains
  MaxCommands = 4
  MaxFrame = 2
INVARIANTS
  PipelineTypeOK
  AppliedOnceOrLost
  InIssueOrder
  StagedMissNoDrain
PROPERTIES
  RepliesAreTrue
  EverythingSettles
