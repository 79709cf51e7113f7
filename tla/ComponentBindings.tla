-------------------------- MODULE ComponentBindings --------------------------
(***************************************************************************)
(* Semantic components of one Bevy world (src/src/semantic_component.rs):  *)
(* the world's component table, the SemanticComponents resource that maps  *)
(* kinds to component ids and back, and the registry of the Semantics      *)
(* resource, which is SemanticRegistry.  A call holds &mut World and runs  *)
(* alone; what it may find is what earlier calls and failures, edits of    *)
(* the registry and replaced or removed resources left behind.             *)
(*                                                                         *)
(* World::register_component and the component ids of resources are Bevy's *)
(* and modelled from how the code uses them: ids are handed out in order,  *)
(* to components and resources alike, once per type, and never taken back. *)
(***************************************************************************)
EXTENDS SemanticRegistry, SequencesExt

CONSTANTS
  ComponentTypes,  \* types that implement SemanticComponent
  PlainTypes,      \* types the app also registers as mere components, or dynamically
  NoKind,          \* None
  MaxEvents        \* bound on what else happens to the world

Resources == {"Semantics", "SemanticComponents"}
NoComponent == 0

ASSUME ComponentAssumption ==
  /\ ComponentTypes \subseteq StaticTypes /\ PlainTypes \subseteq Types /\ NoKind \notin Kinds
  /\ Types \cap Resources = {}  \* this crate's resources implement neither trait
  /\ MaxEvents \in Nat

VARIABLES
  registered,    \* what the world gave component ids to, in order
  present,       \* the resources it holds
  by_kind,       \* HashMap<Kind, ComponentId>
  by_component,  \* Vec<Option<Kind>>
  reply,         \* what the last step, if a registration, returned
  orphaned,      \* history: kinds mapped when Semantics was replaced
  events         \* history: how much else has happened

mappings == <<by_kind, by_component>>
worldVars == <<registered, present, mappings>>
bindingVars == <<vars, worldVars, reply, orphaned, events>>

BindingErrors == Errors \cup {"KindComponentConflict", "ComponentKindConflict"}

IdOf(table, x) ==
  IF Contains(table, x) THEN CHOOSE i \in DOMAIN table : table[i] = x ELSE NoComponent
Registering(table, x) == IF Contains(table, x) THEN table ELSE Append(table, x)

WithResources_NoMappings(table) == Registering(table, "Semantics")
(* init_resource: the ids of new resources come before the component's. *)
WithResources(table) == Registering(Registering(table, "Semantics"), "SemanticComponents")

(* SemanticComponents::component_id and ::kind *)
ComponentId(k) == IF k \in DOMAIN by_kind THEN by_kind[k] ELSE NoComponent
MappedKind(c) == IF c \in DOMAIN by_component THEN by_component[c] ELSE NoKind

NoReply == [type |-> NoType, verdict |-> "Ok", component |-> NoComponent]
Reply(t, verdict, c) == reply' = [type |-> t, verdict |-> verdict, component |-> c]

-----------------------------------------------------------------------------
(* SemanticComponents                                                      *)

Validate_ComponentOnly(k, c) ==
  IF MappedKind(c) \notin {NoKind, k} THEN "ComponentKindConflict" ELSE "Ok"
Validate(k, c) ==
  IF ComponentId(k) \notin {NoComponent, c} THEN "KindComponentConflict"
  ELSE IF MappedKind(c) \notin {NoKind, k} THEN "ComponentKindConflict" ELSE "Ok"

Resized_ToCount(n) == [i \in 1..Max({n, Len(by_component)}) |-> NoKind]
(* Vec::resize, when the vector is too short. *)
Resized(n) == [i \in 1..Max({n, Len(by_component)}) |-> MappedKind(i)]

Bind(k, c) ==
  IF ComponentId(k) = c THEN UNCHANGED mappings
  ELSE /\ by_kind' = Put(by_kind, k, c)
       /\ by_component' = [Resized(c) EXCEPT ![c] = k]

-----------------------------------------------------------------------------
(* SemanticWorldExt                                                        *)

TryRegisterSemanticType(t) ==
  /\ registered' = Registering(registered, "Semantics")
  /\ present' = present \cup {"Semantics"}
  /\ RegisterSemanticType(t)
  /\ Reply(t, outcome', NoComponent)
  /\ UNCHANGED <<mappings, orphaned, events>>

AlreadyMapped_ByKind(t) ==
  "SemanticComponents" \in present /\ ComponentId(StaticKind[t]) # NoComponent
(* The first lookup: it asks the mapping and the world, not the registry. *)
AlreadyMapped(t) ==
  LET c == ComponentId(StaticKind[t])
  IN "SemanticComponents" \in present /\ c # NoComponent /\ IdOf(registered, t) = c

Misdeclared(t) ==
  LET name == Canon[StaticName[t]] IN name = NoName \/ Hash[name] # StaticKind[t]

HasStaticComponentBinding(t) ==
  LET k == StaticKind[t]
  IN /\ k \in DOMAIN kind_to_index
     /\ MetaOf(k).name = Canon[StaticName[t]]
     /\ "STATIC_COMPONENT" \in MetaOf(k).flags
     /\ t \in DOMAIN type_to_kind /\ type_to_kind[t] = k
     /\ k \in DOMAIN kind_to_type /\ kind_to_type[k] = t

BindIfAccepted_Always(t, c) == Bind(StaticKind[t], c)
(* `?` after bind_static_component *)
BindIfAccepted(t, c) ==
  IF outcome' \in Errors THEN UNCHANGED mappings ELSE Bind(StaticKind[t], c)

(* The slow path: the component is registered before anything can refuse it. *)
RegisterAndBind(t) ==
  LET table == Registering(WithResources(registered), t)
      c == IdOf(table, t)
      conflict == Validate(StaticKind[t], c)
      bound == ComponentId(StaticKind[t]) = c /\ HasStaticComponentBinding(t)
  IN /\ registered' = table
     /\ present' = Resources
     /\ IF conflict # "Ok" \/ bound
        THEN /\ UNCHANGED <<vars, mappings>>
             /\ Reply(t, conflict, IF bound THEN c ELSE NoComponent)
        ELSE /\ BindStaticComponent(t)
             /\ BindIfAccepted(t, c)
             /\ Reply(t, outcome', IF outcome' \in Errors THEN NoComponent ELSE c)

TryRegisterSemanticComponent(t) ==
  /\ \/ /\ AlreadyMapped(t)
        /\ Reply(t, "Ok", ComponentId(StaticKind[t]))
        /\ UNCHANGED <<vars, worldVars>>
     \/ /\ ~AlreadyMapped(t)
        /\ Misdeclared(t)
        /\ Reply(t, "StaticKindMismatch", NoComponent)
        /\ UNCHANGED <<vars, worldVars>>
     \/ /\ ~AlreadyMapped(t)
        /\ ~Misdeclared(t)
        /\ RegisterAndBind(t)
  /\ UNCHANGED <<orphaned, events>>

-----------------------------------------------------------------------------
(* What else happens to the world                                          *)

Event ==
  /\ events' = events + 1
  /\ reply' = NoReply

RegisterComponent(t) ==
  /\ registered' = Registering(registered, t)
  /\ Event
  /\ UNCHANGED <<vars, present, mappings, orphaned>>

(* Semantics::default(): the registry SemanticRegistry starts from. *)
SeedRegistry ==
  /\ kinds' = [i \in DOMAIN CoreNames |->
                 [kind |-> Hash[CoreNames[i]], name |-> CoreNames[i],
                  type_id |-> NoType, flags |-> {"CORE"}]]
  /\ kind_to_index' = [k \in CoreKinds |->
                         CHOOSE i \in DOMAIN CoreNames : Hash[CoreNames[i]] = k]
  /\ name_to_kind' = [n \in Range(CoreNames) |-> Hash[n]]
  /\ type_to_kind' = <<>> /\ kind_to_type' = <<>>
  /\ edges' = SeedEdges
  /\ tombstoned_count' = 0
  /\ version' = (Len(CoreNames) + (IF SeedEdges = {} THEN 0 ELSE 1)) % VersionModulus
  /\ validated' = <<>> /\ outcome' = "Ok"

(* insert_resource(Semantics::default()), or remove_resource and the next
   init_resource: the world has a freshly seeded registry.                 *)
ReplaceSemantics ==
  /\ "Semantics" \in present
  /\ SeedRegistry
  /\ orphaned' = DOMAIN by_kind
  /\ Event
  /\ UNCHANGED worldVars

(* remove_resource::<SemanticComponents>() *)
RemoveMappings ==
  /\ "SemanticComponents" \in present
  /\ present' = present \ {"SemanticComponents"}
  /\ by_kind' = <<>> /\ by_component' = <<>>
  /\ orphaned' = {}
  /\ Event
  /\ UNCHANGED <<vars, registered>>

(* Edits of the registry by the rest of the app. *)
EditSemantics ==
  /\ "Semantics" \in present
  /\ \/ \E s \in Spellings : RegisterKind(s)
     \/ \E t \in PlainTypes, s \in Spellings : TypedKindNamed(t, s)
     \/ \E k \in Kinds : TombstoneKind(k) \/ ReviveKind(k) \/ UnregisterKind(k)
     \/ \E n \in Namespaces : UnregisterNamespace(n)
  /\ Event
  /\ UNCHANGED <<worldVars, orphaned>>

(* An empty world, or one the plugin was added to. *)
BindingInit ==
  /\ Init
  /\ \/ registered = <<>> /\ present = {}
     \/ registered = <<"Semantics", "SemanticComponents">> /\ present = Resources
  /\ by_kind = <<>> /\ by_component = <<>>
  /\ reply = NoReply
  /\ orphaned = {} /\ events = 0

BindingNext ==
  \/ \E t \in StaticTypes : TryRegisterSemanticType(t)
  \/ \E t \in ComponentTypes : TryRegisterSemanticComponent(t)
  \/ /\ events < MaxEvents
     /\ \/ \E t \in PlainTypes : RegisterComponent(t)
        \/ ReplaceSemantics
        \/ RemoveMappings
        \/ EditSemantics

BindingSpec == BindingInit /\ [][BindingNext]_bindingVars

-----------------------------------------------------------------------------
(* Properties                                                              *)

(* Ids are unique, both maps stay within the component table, and a mapping
   exists only in a world that has the resource.                           *)
BindingTypeOK ==
  /\ IsInjective(registered) /\ Range(registered) \subseteq Types \cup Resources
  /\ present \subseteq Resources /\ present \subseteq Range(registered)
  /\ by_kind \in [DOMAIN by_kind -> DOMAIN registered] /\ DOMAIN by_kind \subseteq Kinds
  /\ by_component \in Seq(Kinds \cup {NoKind}) /\ Len(by_component) <= Len(registered)
  /\ by_kind = <<>> \/ "SemanticComponents" \in present
  /\ reply.verdict \in BindingErrors \cup {"Ok"}
  /\ orphaned \subseteq DOMAIN by_kind

(* Kind -> ComponentId and ComponentId -> Kind stay inverse to each other,
   also when the registry that would have refused a second type is gone.   *)
MappingsInverse ==
  /\ \A k \in DOMAIN by_kind : MappedKind(by_kind[k]) = k
  /\ \A c \in DOMAIN by_component : by_component[c] # NoKind => ComponentId(by_component[c]) = c

(* A kind is mapped to the id of a type that declares it, whatever ids
   resources and plain components took before, and a successful registration
   returns the component of its own type, not of another with the same kind. *)
MappedToDeclarer ==
  /\ \A k \in DOMAIN by_kind :
       LET t == registered[by_kind[k]] IN t \in ComponentTypes /\ StaticKind[t] = k
  /\ reply.component # NoComponent => registered[reply.component] = reply.type

(* Both directions of the mapping lead to the component that declared it. *)
MappingsSound == MappingsInverse /\ MappedToDeclarer

(* The two resources agree: as long as Semantics is not replaced, the registry
   knows every mapped kind by name, bound to the type of the mapped
   component, and pinned as a static component.                            *)
MappedKindsPinned ==
  \A k \in DOMAIN by_kind \ orphaned : HasStaticComponentBinding(registered[by_kind[k]])

(* "strict, idempotent, and remain for the lifetime of the world"
   (spec.md:178): a mapping goes only with the whole resource, and no call
   moves it.                                                               *)
BoundForLife ==
  [][\A k \in DOMAIN by_kind :
       \/ k \in DOMAIN by_kind' /\ by_kind'[k] = by_kind[k]
       \/ "SemanticComponents" \notin present']_bindingVars

(* A registration that fails changes neither the mapping nor the registry,
   and one whose declaration is wrong does not even register the component. *)
FailureBindsNothing ==
  [][reply' # reply /\ reply'.verdict # "Ok" =>
       /\ UNCHANGED <<mappings, state>>
       /\ reply'.verdict = "StaticKindMismatch" =>
            Contains(registered', reply'.type) = Contains(registered, reply'.type)]_bindingVars

(* No call takes back what an earlier one bound, nor binds what it refused. *)
BindingsOnlyGrow == BoundForLife /\ FailureBindsNothing

(* "Registration validates the declared name and Kind, establishes a
   one-to-one TypeId/Kind binding, and pins the identity against
   unregistration" (spec.md:161): once a component's registration succeeds,
   the registry of the world has that binding.                             *)
RegistrationPins ==
  [][reply' # reply /\ reply'.component # NoComponent =>
       \A t \in ComponentTypes : t = reply'.type => HasStaticComponentBinding(t)']_bindingVars

=============================================================================
