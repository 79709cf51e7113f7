-------------------------- MODULE SemanticRegistry --------------------------
(***************************************************************************)
(* The mutable semantic registry of src/src/registry.rs: the table of      *)
(* kinds (a dense vector with three lookup maps beside it), the static and *)
(* dynamic Rust-type bindings, tombstones, the edge set and the version    *)
(* counter.  One action per public operation.  What the operations do to   *)
(* the snapshot cache and to bulk edits is added by SnapshotCache.tla,     *)
(* which composes with every step of this module.                          *)
(*                                                                         *)
(* A definition <name>_<Fault> is a mutation of <name>, a bug the code might *)
(* have had; no behaviour uses it, PROJECT.json says which property it     *)
(* breaks.                                                                 *)
(*                                                                         *)
(* Names, kinds and types are atoms.  Canon is canonicalize_name (trim,    *)
(* reject the empty name), Hash is hash_canonical_name and need not be     *)
(* injective: two canonical names may collide.                             *)
(***************************************************************************)
EXTENDS Integers, Sequences, FiniteSets, FiniteSetsExt, Functions

CONSTANTS
  Spellings,        \* strings a caller may pass as a kind name
  Names,            \* canonical names
  NoName,           \* what canonicalize_name yields for an empty spelling
  Kinds,            \* Kind values: 64-bit identities
  Types,            \* Rust TypeIds
  NoType,           \* None
  Canon,            \* canonicalize_name
  Hash,             \* hash_canonical_name
  ReservedNames,    \* canonical names whose root namespace is "core"
  CoreNames,        \* the names seed_core registers, in its order
  SeedEdges,        \* the edges seed_core inserts
  Namespaces,       \* strings a caller may pass to unregister_namespace
  NamespaceFault,   \* "Ok", "InvalidName" or "CannotUseReservedNamespace"
  Members,          \* the canonical names that start with "<namespace>::"
  StaticTypes,      \* types that implement SemanticType
  StaticName,       \* T::KIND_NAME
  StaticKind,       \* T::KIND
  ConstGroups,      \* slices a caller may pass to register_consts, elements to register_const
  EdgeGroups,       \* slices a caller may pass to the edge operations
  VersionModulus    \* 2^64 in the code (u64::wrapping_add)

CoreKinds == {Hash[CoreNames[i]] : i \in 1..Len(CoreNames)}
Triples == Kinds \X Kinds \X Kinds
Declarations == [name : Spellings, kind : Kinds]

ASSUME AtomsAssumption ==
  /\ NoName \notin Names
  /\ NoType \notin Types
  /\ Canon \in [Spellings -> Names \cup {NoName}]
  /\ Hash \in [Names -> Kinds]
  /\ ReservedNames \subseteq Names
ASSUME CoreAssumption ==  \* seed_core's expect: the core identities are distinct
  /\ CoreNames \in Seq(Names)
  /\ \A i, j \in 1..Len(CoreNames) :
       Hash[CoreNames[i]] = Hash[CoreNames[j]] => i = j
  /\ SeedEdges \subseteq CoreKinds \X CoreKinds \X CoreKinds
ASSUME NamespaceAssumption ==
  /\ NamespaceFault \in [Namespaces -> {"Ok", "InvalidName", "CannotUseReservedNamespace"}]
  /\ Members \in [Namespaces -> SUBSET Names]
ASSUME StaticAssumption ==
  /\ StaticTypes \subseteq Types
  /\ StaticName \in [StaticTypes -> Spellings]
  /\ StaticKind \in [StaticTypes -> Kinds]
ASSUME InputAssumption ==
  /\ ConstGroups \subseteq Seq(Declarations)
  /\ EdgeGroups \subseteq Seq(Triples)
ASSUME VersionAssumption ==  \* one operation bumps the version at most twice
  VersionModulus \in Nat /\ VersionModulus > 2

VARIABLES
  kinds,            \* Vec<KindMeta>
  kind_to_index,    \* HashMap<Kind, usize> (indices from 1 here)
  name_to_kind,     \* HashMap<Arc<str>, Kind>
  type_to_kind,     \* HashMap<TypeId, Kind>
  kind_to_type,     \* HashMap<Kind, TypeId>
  edges,            \* graph.edges
  tombstoned_count,
  version,
  validated,        \* register_consts: declarations still to be registered
  outcome           \* what the last call returned

maps == <<kind_to_index, name_to_kind, type_to_kind, kind_to_type>>
state == <<kinds, maps, edges, tombstoned_count>>
vars == <<state, version, validated, outcome>>

Flags == {"CORE", "TYPED", "USER_DEFINED", "STATIC_TYPE", "STATIC_COMPONENT", "TOMBSTONED"}
Metas == [kind : Kinds, name : Names, type_id : Types \cup {NoType}, flags : SUBSET Flags]
Errors == {"InvalidName", "CannotUseReservedNamespace", "KindHashCollision",
           "KindTypeConflict", "KindRegistrationMismatch", "StaticKindMismatch",
           "UnknownKind", "TombstonedKind", "CannotUnregisterCoreKind",
           "CannotUnregisterStaticComponentKind", "CannotUnregisterStaticTypeKind",
           "MalformedCommand"}
Outcomes == Errors \cup {"Ok", "Changed", "Unchanged"}

-----------------------------------------------------------------------------
(* Lookups and the pieces every operation is built from.                   *)

Put(f, x, y) == [z \in DOMAIN f \cup {x} |-> IF z = x THEN y ELSE f[z]]
Without(f, S) == Restrict(f, DOMAIN f \ S)

MetaOf(k) == kinds[kind_to_index[k]]
IsTombstoned(meta) == "TOMBSTONED" \in meta.flags
SaturatingDec(n) == IF n = 0 THEN 0 ELSE n - 1
IncidentTo_NotAsSubject(S) == {e \in edges : e[2] \in S \/ e[3] \in S}
IncidentTo(S) == {e \in edges : e[1] \in S \/ e[2] \in S \/ e[3] \in S}

Bump_NoWrap(n) == version' = version + n
Bump(n) == version' = (version + n) % VersionModulus
Idle == validated = <<>>       \* &mut self: no other call is in progress

Fail(error) == outcome' = error /\ UNCHANGED <<state, version>>
Changes(yes) == outcome' = IF yes THEN "Changed" ELSE "Unchanged"

-----------------------------------------------------------------------------
(* register_canonical_kind_with_identity                                   *)

TypeClash(kind, type) ==
  /\ type # NoType
  /\ \/ type \in DOMAIN type_to_kind /\ type_to_kind[type] # kind
     \/ kind \in DOMAIN kind_to_type /\ kind_to_type[kind] # type

RegisterVerdict(name, kind, type, base) ==
  IF "CORE" \notin base /\ name \in ReservedNames THEN "CannotUseReservedNamespace"
  ELSE IF name \in DOMAIN name_to_kind
       THEN IF name_to_kind[name] # kind THEN "KindHashCollision"
            ELSE IF TypeClash(kind, type) THEN "KindTypeConflict" ELSE "Ok"
  ELSE IF kind \in DOMAIN kind_to_index THEN "KindHashCollision" ELSE "Ok"

(* The name is known: bind the type if the kind has none, then merge flags.
   Binding and merging bump the version separately.                        *)
RegisterExisting(kind, type, base, revive) ==
  LET old   == MetaOf(kind)
      binds == type # NoType /\ kind \notin DOMAIN kind_to_type
      bound == IF binds THEN [old EXCEPT !.type_id = type, !.flags = @ \cup {"TYPED"}] ELSE old
      flags == (bound.flags \cup base) \ (IF revive THEN {"TOMBSTONED"} ELSE {})
      merges == flags # bound.flags
  IN /\ kinds' = [kinds EXCEPT ![kind_to_index[kind]] = [bound EXCEPT !.flags = flags]]
     /\ kind_to_type' = IF binds THEN Put(kind_to_type, kind, type) ELSE kind_to_type
     /\ type_to_kind' = IF binds THEN Put(type_to_kind, type, kind) ELSE type_to_kind
     /\ tombstoned_count' = IF merges /\ IsTombstoned(old) /\ revive
                            THEN SaturatingDec(tombstoned_count) ELSE tombstoned_count
     /\ Bump((IF binds THEN 1 ELSE 0) + (IF merges THEN 1 ELSE 0))
     /\ UNCHANGED <<kind_to_index, name_to_kind, edges>>

RegisterNew(name, kind, type, base) ==
  /\ kinds' = Append(kinds, [kind |-> kind, name |-> name, type_id |-> type, flags |-> base])
  /\ kind_to_index' = Put(kind_to_index, kind, Len(kinds) + 1)
  /\ name_to_kind' = Put(name_to_kind, name, kind)
  /\ kind_to_type' = IF type # NoType THEN Put(kind_to_type, kind, type) ELSE kind_to_type
  /\ type_to_kind' = IF type # NoType THEN Put(type_to_kind, type, kind) ELSE type_to_kind
  /\ Bump(1)
  /\ UNCHANGED <<edges, tombstoned_count>>

Register(name, kind, type, base, revive) ==
  LET verdict == RegisterVerdict(name, kind, type, base)
  IN \/ verdict # "Ok" /\ Fail(verdict)
     \/ /\ verdict = "Ok"
        /\ name \in DOMAIN name_to_kind
        /\ RegisterExisting(kind, type, base, revive)
        /\ outcome' = "Ok"
     \/ /\ verdict = "Ok"
        /\ name \notin DOMAIN name_to_kind
        /\ RegisterNew(name, kind, type, base)
        /\ outcome' = "Ok"

-----------------------------------------------------------------------------
(* Dynamic registration                                                    *)

RegisterKind(spelling) ==
  /\ Idle
  /\ \/ Canon[spelling] = NoName /\ Fail("InvalidName")
     \/ /\ Canon[spelling] # NoName
        /\ Register(Canon[spelling], Hash[Canon[spelling]], NoType, {"USER_DEFINED"}, TRUE)
  /\ UNCHANGED validated


(* validate_kind_registration *)
DeclarationVerdict(spelling, declared) ==
  LET name == Canon[spelling]
  IN IF name = NoName THEN "InvalidName"
     ELSE IF Hash[name] # declared THEN "KindRegistrationMismatch"
     ELSE IF name \in ReservedNames THEN "CannotUseReservedNamespace"
     ELSE IF declared \in DOMAIN kind_to_index /\ MetaOf(declared).name # name
          THEN "KindHashCollision" ELSE "Ok"

RegisterConst(spelling, declared) ==
  LET verdict == DeclarationVerdict(spelling, declared)
  IN /\ Idle
     /\ \/ verdict # "Ok" /\ Fail(verdict)
        \/ /\ verdict = "Ok"
           /\ Register(Canon[spelling], declared, NoType, {"USER_DEFINED"}, TRUE)
     /\ UNCHANGED validated

GroupVerdict_EachAlone(group, i) == DeclarationVerdict(group[i].name, group[i].kind)

(* register_consts checks each declaration against the registry and against
   the declarations before it, and touches nothing until all have passed.  *)
GroupVerdict(group, i) ==
  LET name(j) == Canon[group[j].name]
      single == DeclarationVerdict(group[i].name, group[i].kind)
      clash == \E j \in 1..(i-1) : \/ name(j) = name(i) /\ group[j].kind # group[i].kind
                                   \/ group[j].kind = group[i].kind /\ name(j) # name(i)
  IN IF single # "Ok" THEN single ELSE IF clash THEN "KindHashCollision" ELSE "Ok"

FirstFault(verdicts) ==
  LET faults == {i \in DOMAIN verdicts : verdicts[i] # "Ok"}
  IN IF faults = {} THEN "Ok" ELSE verdicts[Min(faults)]

RegisterConsts(group) ==
  LET verdict == FirstFault([i \in 1..Len(group) |-> GroupVerdict(group, i)])
  IN /\ Idle
     /\ \/ verdict # "Ok" /\ Fail(verdict) /\ UNCHANGED validated
        \/ /\ verdict = "Ok"
           /\ validated' = group
           /\ outcome' = "Ok"
           /\ UNCHANGED <<state, version>>

(* ... then registers them one by one; an error would return at once and
   leave the declarations before it registered.                            *)
RegisterValidatedConst ==
  LET name == Canon[Head(validated).name]
      kind == Head(validated).kind
      verdict == RegisterVerdict(name, kind, NoType, {"USER_DEFINED"})
  IN /\ validated # <<>>
     /\ Register(name, kind, NoType, {"USER_DEFINED"}, TRUE)
     /\ validated' = IF verdict = "Ok" THEN Tail(validated) ELSE <<>>

-----------------------------------------------------------------------------
(* Tombstones                                                              *)

Tombstone(kind) ==
  /\ kinds' = [kinds EXCEPT ![kind_to_index[kind]].flags = @ \cup {"TOMBSTONED"}]
  /\ tombstoned_count' = tombstoned_count + 1
  /\ edges' = edges \ IncidentTo({kind})
  /\ Bump(1)
  /\ UNCHANGED maps

TombstoneKind(kind) ==
  /\ Idle
  /\ \/ kind \notin DOMAIN kind_to_index /\ Fail("UnknownKind")
     \/ /\ kind \in DOMAIN kind_to_index
        /\ \/ "CORE" \in MetaOf(kind).flags /\ Fail("CannotUnregisterCoreKind")
           \/ /\ "CORE" \notin MetaOf(kind).flags
              /\ IsTombstoned(MetaOf(kind))
              /\ Changes(FALSE) /\ UNCHANGED <<state, version>>
           \/ /\ "CORE" \notin MetaOf(kind).flags
              /\ ~IsTombstoned(MetaOf(kind))
              /\ Tombstone(kind) /\ Changes(TRUE)
  /\ UNCHANGED validated

Revive_KeepsCount(kind) ==
  /\ kinds' = [kinds EXCEPT ![kind_to_index[kind]].flags = @ \ {"TOMBSTONED"}]
  /\ Bump(IF IsTombstoned(MetaOf(kind)) THEN 1 ELSE 0)
  /\ UNCHANGED <<maps, edges, tombstoned_count>>

Revive_KeepsVersion(kind) ==
  /\ kinds' = [kinds EXCEPT ![kind_to_index[kind]].flags = @ \ {"TOMBSTONED"}]
  /\ tombstoned_count' = IF IsTombstoned(MetaOf(kind)) THEN SaturatingDec(tombstoned_count)
                         ELSE tombstoned_count
  /\ UNCHANGED <<maps, edges, version>>

(* The registered half of revive_kind. *)
Revive(kind) ==
  /\ kinds' = [kinds EXCEPT ![kind_to_index[kind]].flags = @ \ {"TOMBSTONED"}]
  /\ IF IsTombstoned(MetaOf(kind))
     THEN tombstoned_count' = SaturatingDec(tombstoned_count) /\ Bump(1)
     ELSE UNCHANGED <<tombstoned_count, version>>
  /\ UNCHANGED <<maps, edges>>

ReviveKind(kind) ==
  /\ Idle
  /\ \/ kind \notin DOMAIN kind_to_index /\ Fail("UnknownKind")
     \/ /\ kind \in DOMAIN kind_to_index
        /\ Revive(kind)
        /\ Changes(IsTombstoned(MetaOf(kind)))
  /\ UNCHANGED validated

-----------------------------------------------------------------------------
(* Rust-type bindings.  typed_kind, typed_kind_named and the queued         *)
(* RegisterTypedKind command share one body.                               *)

TypedKindNamed(type, spelling) ==
  LET name == Canon[spelling]
      existing == type_to_kind[type]
  IN /\ Idle
     /\ \/ name = NoName /\ Fail("InvalidName")
        \/ name \in ReservedNames /\ Fail("CannotUseReservedNamespace")
        \/ /\ name \in Names \ ReservedNames
           /\ type \in DOMAIN type_to_kind
           /\ \/ MetaOf(existing).name = name /\ Revive(existing) /\ outcome' = "Ok"
              \/ MetaOf(existing).name # name /\ Fail("KindTypeConflict")
        \/ /\ name \in Names \ ReservedNames
           /\ type \notin DOMAIN type_to_kind
           /\ Register(name, Hash[name], type, {"TYPED"}, TRUE)
     /\ UNCHANGED validated

(* The RegisterTypedKind command without its name. *)
UnnamedTypedKind == Idle /\ Fail("MalformedCommand") /\ UNCHANGED validated

StaticVerdict_TypeUnchecked(type) ==
  LET name == Canon[StaticName[type]]
  IN IF name = NoName THEN "InvalidName"
     ELSE IF Hash[name] # StaticKind[type] THEN "StaticKindMismatch"
     ELSE IF name \in ReservedNames THEN "CannotUseReservedNamespace" ELSE "Ok"

StaticVerdict(type) ==
  LET name == Canon[StaticName[type]]
  IN IF name = NoName THEN "InvalidName"
     ELSE IF Hash[name] # StaticKind[type] THEN "StaticKindMismatch"
     ELSE IF name \in ReservedNames THEN "CannotUseReservedNamespace"
     ELSE IF type \in DOMAIN type_to_kind /\ type_to_kind[type] # StaticKind[type]
          THEN "KindTypeConflict" ELSE "Ok"

(* bind_static_type_with_flags: a tombstoned kind stays tombstoned. *)
BindStaticType(type, flags) ==
  /\ Idle
  /\ \/ StaticVerdict(type) # "Ok" /\ Fail(StaticVerdict(type))
     \/ /\ StaticVerdict(type) = "Ok"
        /\ Register(Canon[StaticName[type]], StaticKind[type], type, {"TYPED"} \cup flags, FALSE)
  /\ UNCHANGED validated

RegisterSemanticType(type) == BindStaticType(type, {"STATIC_TYPE"})
BindStaticComponent_Unpinned(type) == BindStaticType(type, {"STATIC_TYPE"})
BindStaticComponent(type) == BindStaticType(type, {"STATIC_TYPE", "STATIC_COMPONENT"})

-----------------------------------------------------------------------------
(* Removal                                                                 *)

PinFault_TypesUnpinned(meta) ==
  IF "CORE" \in meta.flags THEN "CannotUnregisterCoreKind"
  ELSE IF "STATIC_COMPONENT" \in meta.flags THEN "CannotUnregisterStaticComponentKind" ELSE "Ok"

(* Why a kind may not be removed, in the order the code asks. *)
PinFault(meta) ==
  IF "CORE" \in meta.flags THEN "CannotUnregisterCoreKind"
  ELSE IF "STATIC_COMPONENT" \in meta.flags THEN "CannotUnregisterStaticComponentKind"
  ELSE IF "STATIC_TYPE" \in meta.flags THEN "CannotUnregisterStaticTypeKind" ELSE "Ok"

SwapRemove_Shifts(vec, index) ==
  [i \in 1..(Len(vec) - 1) |-> IF i < index THEN vec[i] ELSE vec[i + 1]]

(* Vec::swap_remove: the last element takes the vacated slot. *)
SwapRemove(vec, index) ==
  [i \in 1..(Len(vec) - 1) |-> IF i = index THEN vec[Len(vec)] ELSE vec[i]]

PatchMoved_Not(indices, index) == indices
(* The map entry of the kind that took the slot. *)
PatchMoved(indices, index) ==
  IF index < Len(kinds) THEN Put(indices, kinds[Len(kinds)].kind, index) ELSE indices

Unregister(kind) ==
  LET index == kind_to_index[kind]
      meta == kinds[index]
      known == Without(kind_to_index, {kind})
      typed == meta.type_id # NoType
  IN /\ kinds' = SwapRemove(kinds, index)
     /\ kind_to_index' = PatchMoved(known, index)
     /\ name_to_kind' = Without(name_to_kind, {meta.name})
     /\ kind_to_type' = IF typed THEN Without(kind_to_type, {kind}) ELSE kind_to_type
     /\ type_to_kind' = IF typed THEN Without(type_to_kind, {meta.type_id}) ELSE type_to_kind
     /\ edges' = edges \ IncidentTo({kind})
     /\ tombstoned_count' = IF IsTombstoned(meta) THEN SaturatingDec(tombstoned_count)
                            ELSE tombstoned_count
     /\ Bump(1)

UnregisterKind(kind) ==
  /\ Idle
  /\ \/ kind \notin DOMAIN kind_to_index /\ Fail("UnknownKind")
     \/ /\ kind \in DOMAIN kind_to_index
        /\ LET fault == PinFault(MetaOf(kind))
           IN \/ fault # "Ok" /\ Fail(fault)
              \/ fault = "Ok" /\ Unregister(kind) /\ Changes(TRUE)
  /\ UNCHANGED validated

(* Vec::retain as the code uses it: the places kept, in their old order. *)
Rank(places, i) == Cardinality({j \in places : j <= i})
Retain(vec, places) ==
  [r \in 1..Cardinality(places) |-> vec[CHOOSE i \in places : Rank(places, i) = r]]

(* Removes the kinds at the given places and rebuilds every map from what is left. *)
UnregisterPlaces(places) ==
  LET left == DOMAIN kinds \ places
      removed == {kinds[i].kind : i \in places}
      at(k) == CHOOSE i \in left : kinds[i].kind = k
      named(n) == CHOOSE i \in left : kinds[i].name = n
      bound(t) == CHOOSE i \in left : kinds[i].type_id = t
      typed == {i \in left : kinds[i].type_id # NoType}
  IN /\ kinds' = Retain(kinds, left)
     /\ tombstoned_count' = Cardinality({i \in left : IsTombstoned(kinds[i])})
     /\ kind_to_index' = [k \in {kinds[i].kind : i \in left} |-> Rank(left, at(k))]
     /\ name_to_kind' = [n \in {kinds[i].name : i \in left} |-> kinds[named(n)].kind]
     /\ kind_to_type' = [k \in {kinds[i].kind : i \in typed} |-> kinds[at(k)].type_id]
     /\ type_to_kind' = [t \in {kinds[i].type_id : i \in typed} |-> kinds[bound(t)].kind]
     /\ edges' = edges \ IncidentTo(removed)
     /\ Bump(1)

UnregisterNamespace(namespace) ==
  LET places == {i \in DOMAIN kinds : kinds[i].name \in Members[namespace]}
      pinned == {i \in places : PinFault(kinds[i]) # "Ok"}
  IN /\ Idle
     /\ \/ NamespaceFault[namespace] # "Ok" /\ Fail(NamespaceFault[namespace])
        \/ /\ NamespaceFault[namespace] = "Ok"
           /\ \/ pinned # {} /\ Fail(PinFault(kinds[Min(pinned)]))
              \/ places = {} /\ Changes(FALSE) /\ UNCHANGED <<state, version>>
              \/ /\ places # {} /\ pinned = {}
                 /\ UnregisterPlaces(places) /\ Changes(TRUE)
     /\ UNCHANGED validated

-----------------------------------------------------------------------------
(* Edges.  add_edge and remove_edge are the one-element slices.            *)

KnownFault(kind) == IF kind \in DOMAIN kind_to_index THEN "Ok" ELSE "UnknownKind"
ActiveFault(kind) ==
  IF kind \notin DOMAIN kind_to_index THEN "UnknownKind"
  ELSE IF IsTombstoned(MetaOf(kind)) THEN "TombstonedKind" ELSE "Ok"

(* The kinds of a slice in the order they are validated. *)
Endpoints(group) ==
  [i \in 1..(3 * Len(group)) |-> group[((i - 1) \div 3) + 1][((i - 1) % 3) + 1]]

EditEdges(verdicts, edited) ==
  LET verdict == FirstFault(verdicts)
  IN /\ Idle
     /\ \/ verdict # "Ok" /\ Fail(verdict)
        \/ /\ verdict = "Ok"
           /\ edges' = edited
           /\ Bump(IF edited # edges THEN 1 ELSE 0)
           /\ Changes(edited # edges)
           /\ UNCHANGED <<kinds, maps, tombstoned_count>>
     /\ UNCHANGED validated

AddEdges(group) ==
  LET ends == Endpoints(group)
  IN EditEdges([i \in DOMAIN ends |-> ActiveFault(ends[i])], edges \cup Range(group))
RemoveEdges(group) ==
  LET ends == Endpoints(group)
  IN EditEdges([i \in DOMAIN ends |-> KnownFault(ends[i])], edges \ Range(group))

-----------------------------------------------------------------------------
(* Default::default: the seeded registry. *)
Init ==
  /\ kinds = [i \in 1..Len(CoreNames) |->
                [kind |-> Hash[CoreNames[i]], name |-> CoreNames[i],
                 type_id |-> NoType, flags |-> {"CORE"}]]
  /\ kind_to_index = [k \in CoreKinds |->
                        CHOOSE i \in 1..Len(CoreNames) : Hash[CoreNames[i]] = k]
  /\ name_to_kind = [n \in Range(CoreNames) |-> Hash[n]]
  /\ type_to_kind = [t \in {} |-> NoType]
  /\ kind_to_type = [k \in {} |-> NoType]
  /\ edges = SeedEdges
  /\ tombstoned_count = 0
  /\ version = (Len(CoreNames) + (IF SeedEdges = {} THEN 0 ELSE 1)) % VersionModulus
  /\ validated = <<>>
  /\ outcome = "Ok"

Next ==
  \/ \E s \in Spellings : RegisterKind(s)
  \/ \E g \in ConstGroups : \E i \in DOMAIN g : RegisterConst(g[i].name, g[i].kind)
  \/ \E g \in ConstGroups : RegisterConsts(g)
  \/ RegisterValidatedConst
  \/ \E k \in Kinds : TombstoneKind(k)
  \/ \E k \in Kinds : ReviveKind(k)
  \/ \E t \in Types, s \in Spellings : TypedKindNamed(t, s)
  \/ UnnamedTypedKind
  \/ \E t \in StaticTypes : RegisterSemanticType(t)
  \/ \E t \in StaticTypes : BindStaticComponent(t)
  \/ \E k \in Kinds : UnregisterKind(k)
  \/ \E n \in Namespaces : UnregisterNamespace(n)
  \/ \E g \in EdgeGroups : AddEdges(g)
  \/ \E g \in EdgeGroups : RemoveEdges(g)

Spec == Init /\ [][Next]_vars

-----------------------------------------------------------------------------
(* Properties                                                              *)

(* Every variable has its type; pending declarations are valid inputs. *)
TypeOK ==
  /\ kinds \in Seq(Metas)
  /\ kind_to_index \in [DOMAIN kind_to_index -> Nat \ {0}] /\ DOMAIN kind_to_index \subseteq Kinds
  /\ name_to_kind \in [DOMAIN name_to_kind -> Kinds] /\ DOMAIN name_to_kind \subseteq Names
  /\ type_to_kind \in [DOMAIN type_to_kind -> Kinds] /\ DOMAIN type_to_kind \subseteq Types
  /\ kind_to_type \in [DOMAIN kind_to_type -> Types] /\ DOMAIN kind_to_type \subseteq Kinds
  /\ edges \subseteq Triples
  /\ tombstoned_count \in Nat
  /\ version \in 0..(VersionModulus - 1)
  /\ validated \in Seq(Declarations)
  /\ outcome \in Outcomes

(* After any mix of registrations, swap-removals and rebuilds, the index map
   and the vector describe the same kinds: each kind is found at its place,
   no place is reachable twice and none is orphaned.                       *)
IndexCoherent ==
  /\ DOMAIN kind_to_index = {kinds[i].kind : i \in DOMAIN kinds}
  /\ \A i \in DOMAIN kinds : kind_to_index[kinds[i].kind] = i

(* Names resolve to the kind whose metadata carries them, even when two
   canonical names hash alike: a name never resolves to somebody else's kind. *)
NamesCoherent ==
  /\ DOMAIN name_to_kind = {kinds[i].name : i \in DOMAIN kinds}
  /\ \A i \in DOMAIN kinds : /\ name_to_kind[kinds[i].name] = kinds[i].kind
                             /\ Hash[kinds[i].name] = kinds[i].kind

(* The two type maps are inverse to each other and agree with the type each
   kind's metadata records, so no removal leaves a binding behind.         *)
BindingsCoherent ==
  /\ \A i \in DOMAIN kinds :
       LET k == kinds[i].kind
       IN IF kinds[i].type_id = NoType THEN k \notin DOMAIN kind_to_type
          ELSE k \in DOMAIN kind_to_type /\ kind_to_type[k] = kinds[i].type_id
  /\ \A k \in DOMAIN kind_to_type :
       /\ k \in DOMAIN kind_to_index
       /\ kind_to_type[k] \in DOMAIN type_to_kind
       /\ type_to_kind[kind_to_type[k]] = k
  /\ \A t \in DOMAIN type_to_kind :
       /\ type_to_kind[t] \in DOMAIN kind_to_type
       /\ kind_to_type[type_to_kind[t]] = t

(* tombstoned_count is exact: snapshots skip the tombstone filter when it is
   zero (snapshot.rs), so a count that drifts would leak tombstoned kinds. *)
TombstoneCountExact ==
  tombstoned_count = Cardinality({i \in DOMAIN kinds : IsTombstoned(kinds[i])})

(* No edge ever mentions a kind that is unregistered or tombstoned, whatever
   order edges, tombstones, revivals and removals come in.                 *)
EdgesActive ==
  \A e \in edges : \A j \in 1..3 : ActiveFault(e[j]) = "Ok"

(* Static bindings are typed, component bindings are static bindings, and a
   core kind is never tombstoned.                                          *)
FlagsCoherent ==
  \A i \in DOMAIN kinds :
    LET meta == kinds[i]
    IN /\ "STATIC_COMPONENT" \in meta.flags => "STATIC_TYPE" \in meta.flags
       /\ "STATIC_TYPE" \in meta.flags => meta.type_id # NoType
       /\ meta.type_id # NoType => "TYPED" \in meta.flags
       /\ "CORE" \in meta.flags => ~IsTombstoned(meta)

(* The redundant tables of a registry describe one set of kinds: the vector,
   its index, its names, both type maps and the flags agree, after any mix
   of registrations, bindings, swap-removals and rebuilds.                 *)
RegistryCoherent == IndexCoherent /\ NamesCoherent /\ BindingsCoherent /\ FlagsCoherent

(* register_consts is transactional: once the whole slice has been validated
   no registration of it can fail, so no prefix is left behind.            *)
ConstGroupNeverFails ==
  validated # <<>> =>
    RegisterVerdict(Canon[Head(validated).name], Head(validated).kind,
                    NoType, {"USER_DEFINED"}) = "Ok"

(* "Static type identities are pinned for the registry's lifetime"
   (registry.rs:262): a core or static kind keeps its name, its static flags
   and, when static, its type, through every call there is.                *)
PinnedIdentities ==
  [][\A i \in DOMAIN kinds : kinds[i].flags \cap {"CORE", "STATIC_TYPE", "STATIC_COMPONENT"} # {} =>
       \E j \in DOMAIN kinds' :
         /\ kinds'[j].kind = kinds[i].kind
         /\ kinds'[j].name = kinds[i].name
         /\ kinds[i].type_id # NoType => kinds'[j].type_id = kinds[i].type_id
         /\ kinds[i].flags \ {"TOMBSTONED"} \subseteq kinds'[j].flags]_vars

(* A Rust type is never silently moved: a call that leaves the type bound
   leaves it bound to the same kind, and only removing the kind unbinds it. *)
NoSilentRebind ==
  [][\A t \in DOMAIN type_to_kind :
       IF t \in DOMAIN type_to_kind' THEN type_to_kind'[t] = type_to_kind[t]
       ELSE type_to_kind[t] \notin DOMAIN kind_to_index']_vars

(* Whatever a call changes, the version moves, also when it bumps twice and
   wraps: an unchanged version means an unchanged registry.  And only a
   change moves it: no cached snapshot is given up for nothing.            *)
VersionTracksState == [][state' # state <=> version' # version]_vars

=============================================================================
