SPECIFICATION SessionSpec
CONSTANTS
  R1 = R1
  R2 = R2
  Readers <- MCReaders
  NoSnapshot = NoSnapshot
  NoBackup = NoBackup
  MaxLineage = 2
  MaxDepth = 2
  NoName = NoName
  NoType = NoType
  Spellings <- MCSpellings
  Names <- MCNames
  Kinds <- MCKinds
  Types <- MCTypes
  Canon <- MCCanon
  Hash <- MCHash
  ReservedNames <- MCReserved
  CoreNames <- MCCore
  SeedEdges <- MCSeed
  Namespaces <- MCNamespaces
  NamespaceFault <- MCFault
  Members <- MCMembers
  StaticTypes <- MCTypes
  StaticName <- MCStaticName
  StaticKind <- MCStaticKind
  ConstGroups <- MCGroups
  EdgeGroups <- MCEdgeGroups
  VersionModulus = 6
SYMMETRY Symmetry
INVARIANTS
  SessionTypeOK
  DeferredToItsEnd
  KeyIdentifiesContent
  SnapshotClosed
PROPERTIES
  ServedIsCurrent
