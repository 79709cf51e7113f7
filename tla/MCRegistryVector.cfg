SPECIFICATION Spec
CONSTANTS
  T1 = T1
  NoName = NoName
  NoType = NoType
  Spellings <- MCSpellings
  Names <- MCNames
  Kinds <- MCKinds
  Types <- MCTypes
  Canon <- MCCanon
  Hash <- MCHash
  ReservedNames <- MCReserved
  CoreNames <- MCCore
  SeedEdges <- MCSeed
  Namespaces <- MCNamespaces
  NamespaceFault <- MCFault
  Members <- MCMembers
  StaticTypes <- MCTypes
  StaticName <- MCStaticName
  StaticKind <- MCStaticKind
  ConstGroups <- MCGroups
  EdgeGroups <- MCEdgeGroups
  VersionModulus = 3
PROPERTIES
  ImplementsOntology
