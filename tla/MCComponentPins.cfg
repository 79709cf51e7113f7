SPECIFICATION BindingSpec
CONSTANTS
  T1 = T1
  T2 = T2
  T3 = T3
  T4 = T4
  NoName = NoName
  NoType = NoType
  NoKind = NoKind
  MaxEvents = 3
  Spellings = {"a", "b"}
  Names = {"is_a", "a", "b"}
  Kinds = {1, 2, 3}
  Types <- MCTypes
  Canon <- MCCanon
  Hash <- MCHash
  ReservedNames = {}
  CoreNames <- MCCore
  SeedEdges = {}
  Namespaces = {"n"}
  NamespaceFault <- MCFault
  Members <- MCMembers
  StaticTypes <- MCTypes
  StaticName <- MCStaticName
  StaticKind <- MCStaticKind
  ConstGroups = {}
  EdgeGroups = {}
  VersionModulus = 3
  ComponentTypes <- MCTypes
  PlainTypes = {T2}
PROPERTIES
  RegistrationPins
