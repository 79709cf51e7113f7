------------------------ MODULE ComponentBindingsProofs ------------------------
(***************************************************************************)
(* What registering semantic components promises, for any types, kinds,    *)
(* declarations and events.  BindingInv joins the invariant of the         *)
(* registry to the one of the mappings: they are inverse, lead to the type *)
(* that declares the kind, and name only kinds the registry has pinned.    *)
(***************************************************************************)
EXTENDS ComponentBindings, SemanticRegistryProofs

Entries == Types \cup Resources

BindingInv ==
  /\ Safe
  /\ registered \in Seq(Entries)
  /\ BindingTypeOK
  /\ MappingsSound
  /\ MappedKindsPinned

-----------------------------------------------------------------------------
(* The registry                                                            *)

(* A replaced registry starts where every registry starts. *)
LEMMA SeedsAnew ==
  ASSUME SeedRegistry
  PROVE  Init'
<1>1. CoreNames \in Seq(Names)
  BY CoreAssumption
<1>2. DOMAIN CoreNames = 1..Len(CoreNames)
  BY <1>1
<1>3. <<>> = [t \in {} |-> NoType]
  OBVIOUS
<1> QED BY <1>2, <1>3 DEF SeedRegistry, Init

LEMMA SafeAnew == Init' => Safe'
<1>1. Init => Safe
  BY InitSafe
<1> QED BY <1>1, PTL

LEMMA SeedsSafely ==
  ASSUME SeedRegistry
  PROVE  Safe'
BY SeedsAnew, SafeAnew

(* A step takes the registry no further than one of its own operations, or
   replaces it.                                                            *)
LEMMA RegistryPart ==
  ASSUME [BindingNext]_bindingVars
  PROVE  [Next]_vars \/ ReplaceSemantics
<1>1. PlainTypes \subseteq Types /\ ComponentTypes \subseteq StaticTypes
  BY ComponentAssumption
<1>2. ASSUME NEW t \in StaticTypes, TryRegisterSemanticType(t) PROVE Next
  BY <1>2 DEF TryRegisterSemanticType, Next
<1>3. ASSUME NEW t \in ComponentTypes, TryRegisterSemanticComponent(t) PROVE [Next]_vars
  <2>1. BindStaticComponent(t) \/ UNCHANGED vars
    BY <1>3 DEF TryRegisterSemanticComponent, RegisterAndBind
  <2> QED BY <1>1, <2>1 DEF Next
<1>4. CASE (\E t \in PlainTypes : RegisterComponent(t)) \/ RemoveMappings
  BY <1>4 DEF RegisterComponent, RemoveMappings
<1>5. CASE EditSemantics
  BY <1>1, <1>5 DEF EditSemantics, Next
<1>6. CASE UNCHANGED bindingVars
  BY <1>6 DEF bindingVars
<1> QED BY <1>2, <1>3, <1>4, <1>5, <1>6 DEF BindingNext

LEMMA RegistrySafe ==
  ASSUME Safe, [BindingNext]_bindingVars
  PROVE  Safe'
BY RegistryPart, NextSafe, SeedsSafely DEF ReplaceSemantics

(* Where a kind's metadata says what its declaration says, the registry has
   the binding.                                                            *)
LEMMA FoundBinding ==
  ASSUME Safe', NEW t \in StaticTypes, NEW j \in DOMAIN kinds',
         kinds'[j].kind = StaticKind[t], kinds'[j].name = Canon[StaticName[t]],
         kinds'[j].type_id = t, "STATIC_COMPONENT" \in kinds'[j].flags
  PROVE  HasStaticComponentBinding(t)'
<1>1. IndexCoherent' /\ BindingsCoherent'
  BY DEF Safe, IInv, Coherent
<1>2. t # NoType
  BY AtomsAssumption, StaticAssumption
<1>3. StaticKind[t] \in DOMAIN kind_to_index' /\ kind_to_index'[StaticKind[t]] = j
  BY <1>1 DEF IndexCoherent
<1>4. StaticKind[t] \in DOMAIN kind_to_type' /\ kind_to_type'[StaticKind[t]] = t
  BY <1>1, <1>2 DEF BindingsCoherent
<1>5. t \in DOMAIN type_to_kind' /\ type_to_kind'[t] = StaticKind[t]
  BY <1>1, <1>4 DEF BindingsCoherent
<1> QED BY <1>3, <1>4, <1>5 DEF HasStaticComponentBinding, MetaOf

(* No operation of the registry takes a component's binding back. *)
LEMMA BindingKept ==
  ASSUME Safe, [Next]_vars, NEW t \in StaticTypes, HasStaticComponentBinding(t)
  PROVE  HasStaticComponentBinding(t)'
<1> DEFINE k == StaticKind[t]
           i == kind_to_index[k]
<1>1. Coherent /\ BindingsCoherent /\ Safe'
  BY NextSafe DEF Safe, IInv
<1>2. /\ k \in DOMAIN kind_to_index /\ MetaOf(k).name = Canon[StaticName[t]]
      /\ "STATIC_COMPONENT" \in MetaOf(k).flags
      /\ k \in DOMAIN kind_to_type /\ kind_to_type[k] = t
  BY DEF HasStaticComponentBinding
<1>3. i \in DOMAIN kinds /\ kinds[i] = MetaOf(k) /\ kinds[i].kind = k
  BY <1>1, <1>2, FoundAt DEF Coherent, TableOK, MetaOf
<1>4. kinds[i].type_id = t /\ t # NoType
  BY <1>1, <1>2, <1>3, AtomsAssumption, StaticAssumption DEF BindingsCoherent
<1> HIDE DEF i, k
<1>5. PICK j \in DOMAIN kinds' : Keeps(kinds[i], kinds'[j])
  BY <1>2, <1>3, PinnedStep
<1>6. /\ kinds'[j].kind = k /\ kinds'[j].name = Canon[StaticName[t]]
      /\ kinds'[j].type_id = t /\ "STATIC_COMPONENT" \in kinds'[j].flags
  BY <1>2, <1>3, <1>4, <1>5 DEF Keeps
<1> QED BY <1>1, <1>6, FoundBinding DEF k

(* What binding a static type returns: nothing changes where it fails. *)
LEMMA BindingOutcome ==
  ASSUME NEW t, NEW f, BindStaticType(t, f)
  PROVE  /\ outcome' \in Errors \cup {"Ok"}
         /\ outcome' # "Ok" => UNCHANGED <<state, version>>
         /\ outcome' = "StaticKindMismatch" => Misdeclared(t)
<1>1. StaticVerdict(t) \in Errors \cup {"Ok"}
      /\ (StaticVerdict(t) = "StaticKindMismatch" => Misdeclared(t))
  BY DEF StaticVerdict, Misdeclared, Errors
<1>2. CASE StaticVerdict(t) # "Ok" /\ Fail(StaticVerdict(t))
  BY <1>1, <1>2 DEF Fail
<1>3. CASE Register(Canon[StaticName[t]], StaticKind[t], t, {"TYPED"} \cup f, FALSE)
  <2> DEFINE verdict == RegisterVerdict(Canon[StaticName[t]], StaticKind[t], t, {"TYPED"} \cup f)
  <2>1. verdict \in Errors \cup {"Ok"} /\ verdict # "StaticKindMismatch"
    BY DEF RegisterVerdict, Errors
  <2>2. (verdict # "Ok" /\ Fail(verdict)) \/ outcome' = "Ok"
    BY <1>3 DEF Register
  <2> QED BY <2>1, <2>2 DEF Fail
<1> QED BY <1>2, <1>3 DEF BindStaticType

(* A component the registry accepts has its binding there. *)
LEMMA AcceptedBinding ==
  ASSUME Safe, NEW t \in StaticTypes, BindStaticComponent(t), outcome' \notin Errors
  PROVE  HasStaticComponentBinding(t)'
<1> DEFINE n == Canon[StaticName[t]]
           k == StaticKind[t]
           b == {"TYPED"} \cup {"STATIC_TYPE", "STATIC_COMPONENT"}
<1>0. Coherent /\ BindingsCoherent /\ t \in Types /\ t # NoType
  BY StaticAssumption, AtomsAssumption DEF Safe, IInv
<1>1. Safe'
  <2>1. Next
    BY DEF Next
  <2> QED BY <2>1, NextSafe
<1>2. /\ StaticVerdict(t) = "Ok" /\ RegisterVerdict(n, k, t, b) = "Ok"
      /\ \/ n \in DOMAIN name_to_kind /\ RegisterExisting(k, t, b, FALSE)
         \/ n \notin DOMAIN name_to_kind /\ RegisterNew(n, k, t, b)
  <2>1. outcome' = "Ok" /\ "Ok" \notin Errors
    BY BindingOutcome DEF BindStaticComponent, Errors
  <2>2. Register(n, k, t, b, FALSE) /\ StaticVerdict(t) = "Ok"
    BY <2>1 DEF BindStaticComponent, BindStaticType, Fail
  <2> QED BY <2>1, <2>2 DEF Register, Fail
<1>3. CASE n \in DOMAIN name_to_kind /\ RegisterExisting(k, t, b, FALSE)
  <2>1. PICK i \in DOMAIN kinds : kinds[i].name = n /\ kinds[i].kind = name_to_kind[n]
    BY <1>0, <1>3 DEF Coherent, NamesCoherent
  <2>2. name_to_kind[n] = k /\ ~TypeClash(k, t)
    BY <1>2, <1>3 DEF RegisterVerdict
  <2>3. k \in DOMAIN kind_to_index /\ kind_to_index[k] = i /\ MetaOf(k) = kinds[i] /\ kinds[i] \in Metas
    BY <1>0, <2>1, <2>2, FoundAt DEF Coherent, IndexCoherent, MetaOf
  <2>4. k \in DOMAIN kind_to_type => kind_to_type[k] = t /\ kinds[i].type_id = t
    BY <1>0, <2>1, <2>2 DEF TypeClash, BindingsCoherent
  <2> DEFINE bound == IF k \notin DOMAIN kind_to_type
                      THEN [kinds[i] EXCEPT !.type_id = t, !.flags = @ \cup {"TYPED"}] ELSE kinds[i]
             m == [bound EXCEPT !.flags = (bound.flags \cup b) \ {}]
  <2>5. kinds' = [kinds EXCEPT ![i] = m]
    BY <1>0, <1>3, <2>3 DEF RegisterExisting
  <2>6. m.kind = k /\ m.name = n /\ m.type_id = t /\ "STATIC_COMPONENT" \in m.flags
    BY <2>1, <2>2, <2>3, <2>4 DEF Metas
  <2> HIDE DEF m
  <2>7. i \in DOMAIN kinds' /\ kinds'[i] = m
    BY <2>1, <2>5
  <2> QED BY <1>1, <2>6, <2>7, FoundBinding
<1>4. CASE n \notin DOMAIN name_to_kind /\ RegisterNew(n, k, t, b)
  <2> DEFINE m == [kind |-> k, name |-> n, type_id |-> t, flags |-> b]
  <2>1. kinds' = Append(kinds, m) /\ kinds \in Seq(Metas)
    BY <1>0, <1>4 DEF RegisterNew, Coherent, TableOK
  <2>2. m.kind = k /\ m.name = n /\ m.type_id = t /\ "STATIC_COMPONENT" \in m.flags
    OBVIOUS
  <2> HIDE DEF m
  <2>3. Len(kinds) + 1 \in DOMAIN kinds' /\ kinds'[Len(kinds) + 1] = m
    BY <2>1
  <2> QED BY <1>1, <2>2, <2>3, FoundBinding
<1> QED BY <1>2, <1>3, <1>4

-----------------------------------------------------------------------------
(* The component table                                                     *)

(* Registering keeps every id that was given out and finds the new one. *)
LEMMA Registers ==
  ASSUME NEW table \in Seq(Entries), IsInjective(table), NEW x \in Entries
  PROVE  LET new == Registering(table, x)
         IN /\ new \in Seq(Entries) /\ IsInjective(new)
            /\ DOMAIN table \subseteq DOMAIN new /\ Len(table) <= Len(new)
            /\ \A i \in DOMAIN table : new[i] = table[i]
            /\ Range(new) = Range(table) \cup {x}
            /\ IdOf(new, x) \in DOMAIN new /\ new[IdOf(new, x)] = x
<1> DEFINE new == Registering(table, x)
<1>0. DOMAIN table = 1..Len(table) /\ Len(table) \in Nat
  OBVIOUS
<1>1. CASE Contains(table, x)
  <2>1. new = table
    BY <1>1 DEF Registering
  <2>2. \E i \in DOMAIN table : table[i] = x
    BY <1>0, <1>1 DEF Contains
  <2>3. IdOf(new, x) \in DOMAIN new /\ new[IdOf(new, x)] = x
    BY <1>1, <2>1, <2>2 DEF IdOf
  <2>4. Range(new) = Range(table) \cup {x}
    BY <2>1, <2>2 DEF Range
  <2> QED BY <1>0, <2>1, <2>3, <2>4
<1>2. CASE ~Contains(table, x)
  <2>1. new = Append(table, x)
    BY <1>2 DEF Registering
  <2>2. \A i \in DOMAIN table : table[i] # x
    BY <1>0, <1>2 DEF Contains
  <2>3. /\ new \in Seq(Entries) /\ DOMAIN new = 1..(Len(table) + 1) /\ Len(new) = Len(table) + 1
        /\ new[Len(table) + 1] = x /\ \A i \in DOMAIN table : new[i] = table[i]
    BY <1>0, <2>1
  <2> HIDE DEF new
  <2>4. DOMAIN new = DOMAIN table \cup {Len(table) + 1}
    BY <1>0, <2>3
  <2>5. IsInjective(new)
    BY <2>2, <2>3, <2>4 DEF IsInjective
  <2>6. Contains(new, x)
    BY <1>0, <2>3 DEF Contains
  <2>7. IdOf(new, x) \in DOMAIN new /\ new[IdOf(new, x)] = x
    BY <2>3, <2>4, <2>6 DEF IdOf
  <2>8. Range(new) = Range(table) \cup {x}
    BY <2>3, <2>4 DEF Range
  <2> QED BY <1>0, <2>3, <2>4, <2>5, <2>7, <2>8 DEF new
<1> QED BY <1>1, <1>2

(* An id found in the table is the id of what was looked for. *)
LEMMA IdFound ==
  ASSUME NEW table \in Seq(Entries), NEW x, IdOf(table, x) # NoComponent
  PROVE  IdOf(table, x) \in DOMAIN table /\ table[IdOf(table, x)] = x
<1>1. DOMAIN table = 1..Len(table) /\ Contains(table, x)
  BY DEF IdOf
<1>2. \E i \in DOMAIN table : table[i] = x
  BY <1>1 DEF Contains
<1> QED BY <1>1, <1>2 DEF IdOf

(* The slow path of a registration registers both resources and the type. *)
LEMMA RegistersAll ==
  ASSUME registered \in Seq(Entries), IsInjective(registered), NEW t \in Types
  PROVE  LET table == Registering(WithResources(registered), t)
         IN /\ table \in Seq(Entries) /\ IsInjective(table)
            /\ DOMAIN registered \subseteq DOMAIN table /\ Len(registered) <= Len(table)
            /\ \A i \in DOMAIN registered : table[i] = registered[i]
            /\ Range(table) = Range(registered) \cup Resources \cup {t}
            /\ IdOf(table, t) \in DOMAIN table /\ table[IdOf(table, t)] = t
<1> DEFINE one == Registering(registered, "Semantics")
           two == Registering(one, "SemanticComponents")
           table == Registering(two, t)
<1>0. "Semantics" \in Entries /\ "SemanticComponents" \in Entries /\ t \in Entries
  BY DEF Entries, Resources
<1>1. /\ one \in Seq(Entries) /\ IsInjective(one)
      /\ DOMAIN registered \subseteq DOMAIN one /\ Len(registered) <= Len(one)
      /\ \A i \in DOMAIN registered : one[i] = registered[i]
      /\ Range(one) = Range(registered) \cup {"Semantics"}
  BY <1>0, Registers
<1> HIDE DEF one
<1>2. /\ two \in Seq(Entries) /\ IsInjective(two)
      /\ DOMAIN one \subseteq DOMAIN two /\ Len(one) <= Len(two)
      /\ \A i \in DOMAIN one : two[i] = one[i]
      /\ Range(two) = Range(one) \cup {"SemanticComponents"}
  BY <1>0, <1>1, Registers
<1> HIDE DEF two
<1>3. /\ table \in Seq(Entries) /\ IsInjective(table)
      /\ DOMAIN two \subseteq DOMAIN table /\ Len(two) <= Len(table)
      /\ \A i \in DOMAIN two : table[i] = two[i]
      /\ Range(table) = Range(two) \cup {t}
      /\ IdOf(table, t) \in DOMAIN table /\ table[IdOf(table, t)] = t
  BY <1>0, <1>2, Registers
<1>4. table = Registering(WithResources(registered), t)
  BY DEF WithResources, one, two
<1> HIDE DEF table
<1>5. Len(registered) \in Nat /\ Len(one) \in Nat /\ Len(two) \in Nat /\ Len(table) \in Nat
  BY <1>1, <1>2, <1>3
<1>6. Len(registered) <= Len(table)
  BY <1>1, <1>2, <1>3, <1>5
<1>7. Range(table) = Range(registered) \cup Resources \cup {t}
  BY <1>1, <1>2, <1>3 DEF Resources
<1>8. /\ DOMAIN registered \subseteq DOMAIN table
      /\ \A i \in DOMAIN registered : table[i] = registered[i]
  BY <1>1, <1>2, <1>3
<1> QED BY <1>3, <1>4, <1>6, <1>7, <1>8

-----------------------------------------------------------------------------
(* The mappings                                                            *)

LEMMA GreaterOfTwo ==
  ASSUME NEW m \in Nat, NEW n \in Nat
  PROVE  Max({m, n}) = IF m >= n THEN m ELSE n
BY DEF Max

(* Binding a kind the mappings know nothing against keeps them inverse. *)
LEMMA Binds ==
  ASSUME by_kind \in [DOMAIN by_kind -> Nat \ {0}], DOMAIN by_kind \subseteq Kinds,
         by_component \in Seq(Kinds \cup {NoKind}), MappingsInverse,
         NEW k \in Kinds, NEW c \in Nat \ {0},
         Validate(k, c) = "Ok", ComponentId(k) # c, Bind(k, c)
  PROVE  /\ k \notin DOMAIN by_kind /\ by_kind' = Put(by_kind, k, c)
         /\ by_component' \in Seq(Kinds \cup {NoKind})
         /\ Len(by_component') \in {c, Len(by_component)}
         /\ MappingsInverse'
<1> DEFINE n == Len(by_component)
           top == IF c >= n THEN c ELSE n
<1>0. NoKind \notin Kinds
  BY ComponentAssumption
<1>1. by_kind' = Put(by_kind, k, c) /\ by_component' = [Resized(c) EXCEPT ![c] = k]
  BY DEF Bind
<1>2. ComponentId(k) = NoComponent /\ MappedKind(c) \in {NoKind, k}
  BY DEF Validate
<1>3. k \notin DOMAIN by_kind
  BY <1>2 DEF ComponentId, NoComponent
<1>4. n \in Nat /\ DOMAIN by_component = 1..n /\ top \in Nat /\ c <= top /\ n <= top /\ c \in 1..top
  OBVIOUS
<1>5. \A i : MappedKind(i) \in Kinds \cup {NoKind}
  BY DEF MappedKind
<1>6. Resized(c) = [i \in 1..top |-> MappedKind(i)]
  BY <1>4, GreaterOfTwo DEF Resized
<1> HIDE DEF top
<1>7. /\ DOMAIN by_component' = 1..top
      /\ \A i \in 1..top : by_component'[i] = IF i = c THEN k ELSE MappedKind(i)
  BY <1>1, <1>4, <1>6
<1>8. by_component' \in Seq(Kinds \cup {NoKind}) /\ Len(by_component') = top
  <2>1. by_component' \in [1..top -> Kinds \cup {NoKind}]
    BY <1>1, <1>4, <1>5, <1>6
  <2> QED BY <1>4, <2>1
<1>9. /\ DOMAIN by_kind' = DOMAIN by_kind \cup {k}
      /\ \A x \in DOMAIN by_kind' : by_kind'[x] = IF x = k THEN c ELSE by_kind[x]
  BY <1>1 DEF Put
<1>10. \A x \in DOMAIN by_kind' : MappedKind(by_kind[x])' = x
  <2>1. SUFFICES ASSUME NEW x \in DOMAIN by_kind' PROVE by_kind'[x] \in 1..top /\ by_component'[by_kind'[x]] = x
    BY <1>7 DEF MappedKind
  <2>2. CASE x = k
    BY <1>4, <1>7, <1>9, <2>2
  <2>3. CASE x # k
    <3>1. x \in DOMAIN by_kind /\ by_kind'[x] = by_kind[x] /\ MappedKind(by_kind[x]) = x /\ x # NoKind
      BY <1>0, <1>9, <2>3 DEF MappingsInverse
    <3>2. by_kind[x] \in 1..n /\ by_kind[x] # c
      BY <1>2, <1>4, <2>3, <3>1 DEF MappedKind
    <3> QED BY <1>4, <1>7, <3>1, <3>2
  <2> QED BY <2>2, <2>3
<1>11. \A i \in DOMAIN by_component' : by_component'[i] # NoKind => ComponentId(by_component[i])' = i
  <2>1. SUFFICES ASSUME NEW i \in 1..top, by_component'[i] # NoKind
                 PROVE  by_component'[i] \in DOMAIN by_kind' /\ by_kind'[by_component'[i]] = i
    BY <1>7 DEF ComponentId
  <2>2. CASE i = c
    BY <1>7, <1>9, <2>2
  <2>3. CASE i # c
    <3>1. by_component'[i] = MappedKind(i) /\ MappedKind(i) # NoKind
      BY <1>7, <2>1, <2>3
    <3>2. i \in DOMAIN by_component /\ MappedKind(i) = by_component[i]
      BY <3>1 DEF MappedKind
    <3>3. ComponentId(by_component[i]) = i /\ i # 0
      BY <1>4, <3>1, <3>2 DEF MappingsInverse
    <3>4. by_component[i] \in DOMAIN by_kind /\ by_kind[by_component[i]] = i
      BY <3>3 DEF ComponentId, NoComponent
    <3> QED BY <1>3, <1>9, <3>1, <3>2, <3>4
  <2> QED BY <2>2, <2>3
<1>12. Len(by_component') \in {c, n}
  BY <1>8 DEF top
<1> QED BY <1>1, <1>3, <1>8, <1>10, <1>11, <1>12 DEF MappingsInverse

-----------------------------------------------------------------------------
(* The steps                                                               *)

(* The component table of the next state keeps what this one has. *)
TableGrows ==
  /\ registered' \in Seq(Entries) /\ IsInjective(registered')
  /\ DOMAIN registered \subseteq DOMAIN registered' /\ Len(registered) <= Len(registered')
  /\ \A i \in DOMAIN registered : registered'[i] = registered[i]
  /\ Range(registered) \subseteq Range(registered')

(* What a step replies is a verdict, and an id of the type it was asked for. *)
ReplyFits ==
  /\ reply'.verdict \in BindingErrors \cup {"Ok"}
  /\ reply'.component # NoComponent => registered'[reply'.component] = reply'.type

LEMMA EntriesUnder == registered \in Seq(Entries) => Range(registered) \subseteq Types \cup Resources
BY DEF Entries, Range

LEMMA EntriesUnderNext == registered' \in Seq(Entries) => Range(registered') \subseteq Types \cup Resources
BY DEF Entries, Range

(* What the invariant says of the mappings, put in one place. *)
LEMMA MappingsTyped ==
  ASSUME BindingInv
  PROVE  /\ by_kind \in [DOMAIN by_kind -> Nat \ {0}] /\ by_kind \in [DOMAIN by_kind -> DOMAIN registered]
         /\ DOMAIN by_kind \subseteq Kinds
         /\ by_component \in Seq(Kinds \cup {NoKind}) /\ Len(by_component) <= Len(registered)
         /\ DOMAIN registered = 1..Len(registered) /\ Len(registered) \in Nat
         /\ \A k \in DOMAIN by_kind :
              /\ registered[by_kind[k]] \in ComponentTypes \cap StaticTypes
              /\ StaticKind[registered[by_kind[k]]] = k
<1>1. registered \in Seq(Entries) /\ BindingTypeOK /\ MappedToDeclarer
  BY DEF BindingInv, MappingsSound
<1>2. DOMAIN registered = 1..Len(registered) /\ Len(registered) \in Nat
  BY <1>1
<1>3. by_kind \in [DOMAIN by_kind -> Nat \ {0}]
  BY <1>1, <1>2 DEF BindingTypeOK
<1> QED BY <1>1, <1>2, <1>3, ComponentAssumption DEF BindingTypeOK, MappedToDeclarer

(* Steps that bind nothing: the mappings stand, the table may grow, and the
   registry keeps its bindings unless it is replaced.                      *)
LEMMA MappingsStand ==
  ASSUME BindingInv, Safe', UNCHANGED mappings, TableGrows, ReplyFits,
         present' \subseteq Resources, present' \subseteq Range(registered'),
         by_kind = <<>> \/ "SemanticComponents" \in present',
         orphaned \subseteq orphaned', orphaned' \subseteq DOMAIN by_kind,
         [Next]_vars \/ orphaned' = DOMAIN by_kind
  PROVE  BindingInv'
<1>0. Safe /\ BindingTypeOK /\ MappingsSound /\ MappedKindsPinned
  BY DEF BindingInv
<1>1. UNCHANGED <<by_kind, by_component>>
  BY DEF mappings
<1>2. BindingTypeOK'
  <2>1. IsInjective(registered)' /\ Range(registered)' \subseteq Types \cup Resources
    BY EntriesUnderNext DEF TableGrows
  <2>2. by_kind' \in [DOMAIN by_kind' -> DOMAIN registered'] /\ DOMAIN by_kind' \subseteq Kinds
    BY <1>1, MappingsTyped DEF TableGrows
  <2>3. by_component' \in Seq(Kinds \cup {NoKind}) /\ Len(by_component') <= Len(registered')
    <3>1. Len(registered') \in Nat
      BY DEF TableGrows
    <3>2. Len(by_component) \in Nat /\ Len(by_component) <= Len(registered) /\ Len(registered) \in Nat
      BY MappingsTyped
    <3>3. Len(registered) <= Len(registered')
      BY DEF TableGrows
    <3> QED BY <1>1, <3>1, <3>2, <3>3, MappingsTyped
  <2> QED BY <1>1, <2>1, <2>2, <2>3 DEF BindingTypeOK, ReplyFits
<1>3. MappingsSound'
  <2>1. MappingsInverse'
    BY <1>0, <1>1 DEF MappingsSound, MappingsInverse, MappedKind, ComponentId
  <2>2. \A k \in DOMAIN by_kind' : registered'[by_kind'[k]] = registered[by_kind[k]]
    BY <1>1, MappingsTyped DEF TableGrows
  <2>3. MappedToDeclarer'
    BY <1>1, <2>2, MappingsTyped DEF MappedToDeclarer, ReplyFits
  <2> QED BY <2>1, <2>3 DEF MappingsSound
<1>4. MappedKindsPinned'
  <2>1. SUFFICES ASSUME NEW k \in DOMAIN by_kind' \ orphaned'
                 PROVE  HasStaticComponentBinding(registered[by_kind[k]])'
    BY DEF MappedKindsPinned
  <2>2. k \in DOMAIN by_kind \ orphaned /\ [Next]_vars
    BY <1>1, <2>1
  <2>3. PICK t \in StaticTypes : t = registered[by_kind[k]] /\ registered'[by_kind'[k]] = t
    BY <1>1, <2>2, MappingsTyped DEF TableGrows
  <2>4. HasStaticComponentBinding(t)
    BY <1>0, <2>2, <2>3 DEF MappedKindsPinned
  <2>5. HasStaticComponentBinding(t)'
    BY <1>0, <2>2, <2>4, BindingKept
  <2> QED BY <2>3, <2>5 DEF HasStaticComponentBinding, MetaOf
<1> QED BY <1>2, <1>3, <1>4 DEF BindingInv, TableGrows

(* The step that binds: the registry has accepted the type, and neither side
   of the mapping knows otherwise.                                         *)
LEMMA MappingsGain ==
  ASSUME BindingInv, Safe', TableGrows, ReplyFits, [Next]_vars,
         present' = Resources, Resources \subseteq Range(registered'), UNCHANGED orphaned,
         NEW t \in ComponentTypes, NEW c \in DOMAIN registered', registered'[c] = t,
         HasStaticComponentBinding(t)',
         Validate(StaticKind[t], c) = "Ok", ComponentId(StaticKind[t]) # c, Bind(StaticKind[t], c)
  PROVE  BindingInv'
<1> DEFINE k == StaticKind[t]
<1>0. Safe /\ BindingTypeOK /\ MappingsSound /\ MappedKindsPinned
  BY DEF BindingInv
<1>1. t \in StaticTypes /\ k \in Kinds /\ Len(registered') \in Nat /\ DOMAIN registered' = 1..Len(registered')
  BY ComponentAssumption, StaticAssumption DEF TableGrows
<1>2. c \in Nat \ {0} /\ c <= Len(registered')
  BY <1>1
<1>3. /\ k \notin DOMAIN by_kind /\ by_kind' = Put(by_kind, k, c)
      /\ by_component' \in Seq(Kinds \cup {NoKind})
      /\ Len(by_component') \in {c, Len(by_component)}
      /\ MappingsInverse'
  BY <1>0, <1>1, <1>2, MappingsTyped, Binds DEF MappingsSound
<1> HIDE DEF k
<1>4. /\ DOMAIN by_kind' = DOMAIN by_kind \cup {k}
      /\ \A x \in DOMAIN by_kind' : by_kind'[x] = IF x = k THEN c ELSE by_kind[x]
      /\ by_kind' \in [DOMAIN by_kind' -> DOMAIN registered']
  BY <1>3, MappingsTyped DEF Put, TableGrows
<1>5. \A x \in DOMAIN by_kind' :
        registered'[by_kind'[x]] = IF x = k THEN t ELSE registered[by_kind[x]]
  BY <1>3, <1>4, MappingsTyped DEF TableGrows
<1>6. BindingTypeOK'
  <2>1. IsInjective(registered)' /\ Range(registered)' \subseteq Types \cup Resources
    BY EntriesUnderNext DEF TableGrows
  <2>2. Len(by_component') <= Len(registered')
    <3>1. Len(by_component) \in Nat /\ Len(by_component) <= Len(registered) /\ Len(registered) \in Nat
      BY MappingsTyped
    <3>2. Len(registered) <= Len(registered')
      BY DEF TableGrows
    <3> QED BY <1>1, <1>2, <1>3, <3>1, <3>2
  <2>3. DOMAIN by_kind' \subseteq Kinds /\ orphaned' \subseteq DOMAIN by_kind'
    BY <1>0, <1>1, <1>4 DEF BindingTypeOK, k
  <2> QED BY <1>3, <1>4, <2>1, <2>2, <2>3 DEF BindingTypeOK, ReplyFits, Resources
<1>7. MappedToDeclarer'
  <2>1. ASSUME NEW x \in DOMAIN by_kind'
        PROVE  registered'[by_kind'[x]] \in ComponentTypes /\ StaticKind[registered'[by_kind'[x]]] = x
    BY <1>4, <1>5, MappingsTyped DEF k
  <2> QED BY <2>1 DEF MappedToDeclarer, ReplyFits
<1>8. MappedKindsPinned'
  <2>1. SUFFICES ASSUME NEW x \in DOMAIN by_kind' \ orphaned'
                 PROVE  HasStaticComponentBinding(registered[by_kind[x]])'
    BY DEF MappedKindsPinned
  <2>2. CASE x = k
    <3>1. registered'[by_kind'[x]] = t
      BY <1>5, <2>1, <2>2
    <3> QED BY <3>1 DEF HasStaticComponentBinding, MetaOf
  <2>3. CASE x # k
    <3>1. x \in DOMAIN by_kind \ orphaned
      BY <1>4, <2>1, <2>3
    <3>2. PICK u \in StaticTypes : u = registered[by_kind[x]] /\ registered'[by_kind'[x]] = u
      BY <1>5, <2>1, <2>3, <3>1, MappingsTyped
    <3>3. HasStaticComponentBinding(u)
      BY <1>0, <3>1, <3>2 DEF MappedKindsPinned
    <3>4. HasStaticComponentBinding(u)'
      BY <1>0, <3>3, BindingKept
    <3> QED BY <3>2, <3>4 DEF HasStaticComponentBinding, MetaOf
  <2> QED BY <2>2, <2>3
<1> QED BY <1>3, <1>6, <1>7, <1>8 DEF BindingInv, MappingsSound, TableGrows

(* The table keeps itself, and grows by what is registered. *)
LEMMA TableKept ==
  ASSUME BindingInv, UNCHANGED registered
  PROVE  TableGrows
<1>1. IsInjective(registered) /\ registered \in Seq(Entries) /\ Len(registered) \in Nat
  BY DEF BindingInv, BindingTypeOK
<1> QED BY <1>1 DEF TableGrows

LEMMA TableGains ==
  ASSUME BindingInv, NEW x \in Entries, registered' = Registering(registered, x)
  PROVE  TableGrows /\ Range(registered') = Range(registered) \cup {x}
<1>1. IsInjective(registered) /\ registered \in Seq(Entries)
  BY DEF BindingInv, BindingTypeOK
<1> QED BY <1>1, Registers DEF TableGrows

LEMMA NoReplyFits ==
  ASSUME reply' = NoReply
  PROVE  ReplyFits
BY DEF ReplyFits, NoReply, NoComponent

(* A component's registration keeps the invariant. *)
LEMMA ComponentStep ==
  ASSUME BindingInv, Safe', [Next]_vars, NEW t \in ComponentTypes, TryRegisterSemanticComponent(t)
  PROVE  BindingInv'
<1>0. /\ Safe /\ BindingTypeOK /\ registered \in Seq(Entries) /\ IsInjective(registered)
      /\ t \in StaticTypes /\ t \in Types /\ UNCHANGED orphaned
  BY ComponentAssumption, StaticAssumption DEF BindingInv, BindingTypeOK, TryRegisterSemanticComponent
<1>1. ASSUME UNCHANGED worldVars, ReplyFits PROVE BindingInv'
  <2>1. UNCHANGED <<registered, present, mappings>>
    BY <1>1 DEF worldVars
  <2>2. TableGrows
    BY <2>1, TableKept
  <2> QED BY <1>0, <1>1, <2>1, <2>2, MappingsStand DEF BindingTypeOK
<1>2. CASE AlreadyMapped(t) /\ Reply(t, "Ok", ComponentId(StaticKind[t])) /\ UNCHANGED worldVars
  <2> DEFINE c == ComponentId(StaticKind[t])
  <2>1. c # NoComponent /\ IdOf(registered, t) = c
    BY <1>2 DEF AlreadyMapped
  <2>2. registered[c] = t
    BY <1>0, <2>1, IdFound
  <2>3. registered' = registered
    BY <1>2 DEF worldVars
  <2>4. ReplyFits
    BY <1>2, <2>2, <2>3 DEF Reply, ReplyFits
  <2> QED BY <1>1, <1>2, <2>4
<1>3. CASE Reply(t, "StaticKindMismatch", NoComponent) /\ UNCHANGED worldVars
  <2>1. ReplyFits
    BY <1>3 DEF Reply, ReplyFits, BindingErrors, Errors
  <2> QED BY <1>1, <1>3, <2>1
<1>4. CASE RegisterAndBind(t)
  <2> DEFINE table == Registering(WithResources(registered), t)
             c == IdOf(table, t)
             conflict == Validate(StaticKind[t], c)
             bound == ComponentId(StaticKind[t]) = c /\ HasStaticComponentBinding(t)
  <2>1. registered' = table /\ present' = Resources
    BY <1>4 DEF RegisterAndBind
  <2>2. /\ TableGrows /\ Resources \subseteq Range(registered')
        /\ c \in DOMAIN registered' /\ registered'[c] = t
    <3>1. /\ table \in Seq(Entries) /\ IsInjective(table)
          /\ DOMAIN registered \subseteq DOMAIN table /\ Len(registered) <= Len(table)
          /\ \A i \in DOMAIN registered : table[i] = registered[i]
          /\ Range(table) = Range(registered) \cup Resources \cup {t}
          /\ c \in DOMAIN table /\ table[c] = t
      BY <1>0, RegistersAll
    <3> HIDE DEF c, table
    <3> QED BY <2>1, <3>1 DEF TableGrows
  <2>3. /\ present' \subseteq Resources /\ present' \subseteq Range(registered')
        /\ "SemanticComponents" \in present' /\ orphaned \subseteq orphaned' /\ orphaned' \subseteq DOMAIN by_kind
    BY <1>0, <2>1, <2>2 DEF Resources, BindingTypeOK
  <2>4. conflict \in BindingErrors \cup {"Ok"}
    BY DEF Validate, BindingErrors
  <2> HIDE DEF c
  <2>5. CASE conflict # "Ok" \/ bound
    <3>1. UNCHANGED mappings /\ Reply(t, conflict, IF bound THEN c ELSE NoComponent)
      BY <1>4, <2>5 DEF RegisterAndBind, c
    <3>2. ReplyFits
      BY <2>2, <2>4, <3>1 DEF Reply, ReplyFits
    <3> QED BY <2>2, <2>3, <3>1, <3>2, MappingsStand
  <2>6. CASE ~(conflict # "Ok" \/ bound)
    <3>1. /\ BindStaticComponent(t) /\ BindIfAccepted(t, c)
          /\ Reply(t, outcome', IF outcome' \in Errors THEN NoComponent ELSE c)
      BY <1>4, <2>6 DEF RegisterAndBind, c
    <3>2. outcome' \in Errors \cup {"Ok"}
      BY <3>1, BindingOutcome DEF BindStaticComponent
    <3>3. ReplyFits
      BY <2>2, <3>1, <3>2 DEF Reply, ReplyFits, BindingErrors
    <3>4. CASE UNCHANGED mappings
      BY <2>2, <2>3, <3>3, <3>4, MappingsStand
    <3>5. CASE outcome' \notin Errors /\ ComponentId(StaticKind[t]) # c /\ Bind(StaticKind[t], c)
      <4>1. HasStaticComponentBinding(t)'
        BY <1>0, <3>1, <3>5, AcceptedBinding
      <4>2. Validate(StaticKind[t], c) = "Ok"
        BY <2>6
      <4> QED BY <1>0, <2>1, <2>2, <3>3, <3>5, <4>1, <4>2, MappingsGain
    <3> QED BY <3>1, <3>4, <3>5 DEF BindIfAccepted, Bind
  <2> QED BY <2>5, <2>6
<1> QED BY <1>2, <1>3, <1>4 DEF TryRegisterSemanticComponent

LEMMA BindingInvStep ==
  ASSUME BindingInv, [BindingNext]_bindingVars
  PROVE  BindingInv'
<1>0. /\ Safe /\ BindingTypeOK /\ Safe' /\ ([Next]_vars \/ ReplaceSemantics)
      /\ present \subseteq Resources /\ present \subseteq Range(registered)
      /\ (by_kind = <<>> \/ "SemanticComponents" \in present) /\ orphaned \subseteq DOMAIN by_kind
  BY RegistrySafe, RegistryPart DEF BindingInv, BindingTypeOK
<1>1. ASSUME NEW t \in StaticTypes, TryRegisterSemanticType(t) PROVE BindingInv'
  <2>1. /\ registered' = Registering(registered, "Semantics") /\ present' = present \cup {"Semantics"}
        /\ RegisterSemanticType(t) /\ Reply(t, outcome', NoComponent) /\ UNCHANGED <<mappings, orphaned>>
    BY <1>1 DEF TryRegisterSemanticType
  <2>2. TableGrows /\ Range(registered') = Range(registered) \cup {"Semantics"}
    BY <2>1, TableGains DEF Entries, Resources
  <2>3. ReplyFits
    BY <2>1, BindingOutcome DEF RegisterSemanticType, Reply, ReplyFits, BindingErrors
  <2>4. /\ present' \subseteq Resources /\ present' \subseteq Range(registered')
        /\ (by_kind = <<>> \/ "SemanticComponents" \in present')
    BY <1>0, <2>1, <2>2 DEF Resources
  <2>5. Next
    BY <2>1 DEF Next
  <2> QED BY <1>0, <2>1, <2>2, <2>3, <2>4, <2>5, MappingsStand
<1>2. ASSUME NEW t \in ComponentTypes, TryRegisterSemanticComponent(t) PROVE BindingInv'
  <2>1. BindStaticComponent(t) \/ UNCHANGED vars
    BY <1>2 DEF TryRegisterSemanticComponent, RegisterAndBind
  <2>2. [Next]_vars
    BY <2>1, ComponentAssumption DEF Next
  <2> QED BY <1>0, <1>2, <2>2, ComponentStep
<1>3. ASSUME NEW t \in PlainTypes, RegisterComponent(t) PROVE BindingInv'
  <2>1. /\ registered' = Registering(registered, t) /\ reply' = NoReply
        /\ UNCHANGED <<vars, present, mappings, orphaned>>
    BY <1>3 DEF RegisterComponent, Event
  <2>2. t \in Entries
    BY ComponentAssumption DEF Entries
  <2>3. TableGrows /\ Range(registered') = Range(registered) \cup {t}
    BY <2>1, <2>2, TableGains
  <2> QED BY <1>0, <2>1, <2>3, NoReplyFits, MappingsStand
<1>4. CASE ReplaceSemantics
  <2>1. /\ orphaned' = DOMAIN by_kind /\ reply' = NoReply /\ UNCHANGED <<registered, present, mappings>>
    BY <1>4 DEF ReplaceSemantics, Event, worldVars
  <2> QED BY <1>0, <2>1, TableKept, NoReplyFits, MappingsStand
<1>5. CASE RemoveMappings
  <2>1. /\ present' = present \ {"SemanticComponents"} /\ by_kind' = <<>> /\ by_component' = <<>>
        /\ orphaned' = {} /\ reply' = NoReply /\ UNCHANGED registered
    BY <1>5 DEF RemoveMappings, Event
  <2>2. DOMAIN by_kind' = {} /\ DOMAIN by_component' = {} /\ Len(by_component') = 0
    BY <2>1
  <2>3. ReplyFits
    BY <2>1, NoReplyFits
  <2>4. BindingTypeOK'
    <3>1. Len(registered) \in Nat
      BY DEF BindingInv
    <3>2. by_component' \in Seq(Kinds \cup {NoKind}) /\ by_kind' \in [DOMAIN by_kind' -> DOMAIN registered']
      BY <2>1, <2>2
    <3> QED BY <1>0, <2>1, <2>2, <2>3, <3>1, <3>2 DEF BindingTypeOK, ReplyFits
  <2>5. MappingsSound' /\ MappedKindsPinned'
    BY <2>2, <2>3 DEF MappingsSound, MappingsInverse, MappedToDeclarer, MappedKindsPinned, ReplyFits
  <2> QED BY <1>0, <2>1, <2>4, <2>5 DEF BindingInv
<1>6. CASE EditSemantics
  <2>1. reply' = NoReply /\ UNCHANGED <<registered, present, mappings, orphaned>>
    BY <1>6 DEF EditSemantics, Event, worldVars
  <2>2. [Next]_vars
    BY <1>6, ComponentAssumption DEF EditSemantics, Next
  <2> QED BY <1>0, <2>1, <2>2, TableKept, NoReplyFits, MappingsStand
<1>7. CASE UNCHANGED bindingVars
  <2>1. UNCHANGED <<vars, registered, present, mappings, reply, orphaned>>
    BY <1>7 DEF bindingVars, worldVars
  <2>2. ReplyFits
    BY <2>1 DEF BindingInv, BindingTypeOK, MappingsSound, MappedToDeclarer, ReplyFits
  <2> QED BY <1>0, <2>1, <2>2, TableKept, MappingsStand
<1> QED BY <1>1, <1>2, <1>3, <1>4, <1>5, <1>6, <1>7 DEF BindingNext

LEMMA BindingInvInit ==
  ASSUME BindingInit
  PROVE  BindingInv
<1>1. Safe
  BY InitSafe DEF BindingInit
<1>2. by_kind = <<>> /\ by_component = <<>> /\ reply = NoReply /\ orphaned = {}
  BY DEF BindingInit
<1>3. DOMAIN by_kind = {} /\ DOMAIN by_component = {} /\ Len(by_component) = 0
  BY <1>2
<1>4. /\ registered \in Seq(Entries) /\ IsInjective(registered) /\ Len(registered) \in Nat
      /\ present \subseteq Resources /\ present \subseteq Range(registered)
  <2>1. CASE registered = <<>> /\ present = {}
    BY <2>1 DEF IsInjective
  <2>2. CASE registered = <<"Semantics", "SemanticComponents">> /\ present = Resources
    <3>1. registered \in Seq(Entries) /\ Len(registered) = 2 /\ DOMAIN registered = 1..2
      BY <2>2 DEF Entries, Resources
    <3>2. registered[1] = "Semantics" /\ registered[2] = "SemanticComponents"
      BY <2>2
    <3> QED BY <2>2, <3>1, <3>2 DEF IsInjective, Range, Resources
  <2> QED BY <2>1, <2>2 DEF BindingInit
<1>5. BindingTypeOK
  <2>1. by_component \in Seq(Kinds \cup {NoKind}) /\ by_kind \in [DOMAIN by_kind -> DOMAIN registered]
    BY <1>2, <1>3
  <2>2. Range(registered) \subseteq Types \cup Resources
    BY <1>4, EntriesUnder
  <2> QED BY <1>2, <1>3, <1>4, <2>1, <2>2 DEF BindingTypeOK, NoReply
<1>6. MappingsSound /\ MappedKindsPinned
  BY <1>2, <1>3 DEF MappingsSound, MappingsInverse, MappedToDeclarer, MappedKindsPinned, NoReply
<1> QED BY <1>1, <1>4, <1>5, <1>6 DEF BindingInv

(* The inductive invariant of registry and mappings together. *)
THEOREM BindingInvariance == BindingSpec => []BindingInv
<1>1. BindingInit => BindingInv
  BY BindingInvInit
<1>2. BindingInv /\ [BindingNext]_bindingVars => BindingInv'
  BY BindingInvStep
<1> QED BY <1>1, <1>2, PTL DEF BindingSpec

(* The component table, both maps and every reply have their types. *)
THEOREM BindingTypeCorrect == BindingSpec => []BindingTypeOK
<1>1. BindingInv => BindingTypeOK
  BY DEF BindingInv
<1> QED BY <1>1, BindingInvariance, PTL

(* Kind -> ComponentId and ComponentId -> Kind stay inverse to each other and
   lead to the component that declares the kind, whatever resources, plain
   components and replaced registries came between
   (SemanticComponents::bind, src/src/semantic_component.rs).              *)
THEOREM MappingsAlwaysSound == BindingSpec => []MappingsSound
<1>1. BindingInv => MappingsSound
  BY DEF BindingInv
<1> QED BY <1>1, BindingInvariance, PTL

(* The two resources never disagree: until Semantics is replaced, its registry
   has every mapped kind bound to the mapped component's type and pinned.  *)
THEOREM MappedKindsStayPinned == BindingSpec => []MappedKindsPinned
<1>1. BindingInv => MappedKindsPinned
  BY DEF BindingInv
<1> QED BY <1>1, BindingInvariance, PTL

-----------------------------------------------------------------------------
(* What a step may never do                                                *)

(* No mapping moves, and all go only together with their resource. *)
LEMMA BoundStep ==
  ASSUME BindingInv, [BindingNext]_bindingVars
  PROVE  \A k \in DOMAIN by_kind :
           \/ k \in DOMAIN by_kind' /\ by_kind'[k] = by_kind[k]
           \/ "SemanticComponents" \notin present'
<1>1. CASE UNCHANGED by_kind
  BY <1>1
<1>2. CASE RemoveMappings
  BY <1>2 DEF RemoveMappings
<1>3. ASSUME NEW t \in ComponentTypes, NEW c, Bind(StaticKind[t], c), Validate(StaticKind[t], c) = "Ok"
      PROVE  \A k \in DOMAIN by_kind : k \in DOMAIN by_kind' /\ by_kind'[k] = by_kind[k]
  <2>1. CASE ComponentId(StaticKind[t]) = c
    BY <1>3, <2>1 DEF Bind, mappings
  <2>2. CASE ComponentId(StaticKind[t]) # c
    <3>1. ComponentId(StaticKind[t]) = NoComponent /\ by_kind' = Put(by_kind, StaticKind[t], c)
      BY <1>3, <2>2 DEF Bind, Validate
    <3>2. StaticKind[t] \notin DOMAIN by_kind
      BY <3>1, MappingsTyped DEF ComponentId, NoComponent
    <3> QED BY <3>1, <3>2 DEF Put
  <2> QED BY <2>1, <2>2
<1>4. ASSUME NEW t \in ComponentTypes, TryRegisterSemanticComponent(t)
      PROVE  \/ UNCHANGED by_kind
             \/ \E c : Bind(StaticKind[t], c) /\ Validate(StaticKind[t], c) = "Ok"
  BY <1>4 DEF TryRegisterSemanticComponent, RegisterAndBind, BindIfAccepted, worldVars, mappings
<1>5. CASE \/ \E t \in StaticTypes : TryRegisterSemanticType(t)
           \/ \E t \in PlainTypes : RegisterComponent(t)
           \/ ReplaceSemantics \/ EditSemantics \/ UNCHANGED bindingVars
  BY <1>1, <1>5 DEF TryRegisterSemanticType, RegisterComponent, ReplaceSemantics, EditSemantics,
                    bindingVars, worldVars, mappings
<1> QED BY <1>1, <1>2, <1>3, <1>4, <1>5 DEF BindingNext

(* A registration that fails leaves registry and mappings alone, and a wrong
   declaration does not even register the component.                       *)
LEMMA FailureStep ==
  ASSUME BindingInv, [BindingNext]_bindingVars, reply' # reply, reply'.verdict # "Ok"
  PROVE  /\ UNCHANGED <<mappings, state>>
         /\ reply'.verdict = "StaticKindMismatch" =>
              Contains(registered', reply'.type) = Contains(registered, reply'.type)
<1>1. ASSUME NEW t \in StaticTypes, TryRegisterSemanticType(t)
      PROVE  /\ UNCHANGED <<mappings, state>>
             /\ Contains(registered', reply'.type) = Contains(registered, reply'.type)
  <2>1. /\ BindStaticType(t, {"STATIC_TYPE"}) /\ reply'.verdict = outcome' /\ reply'.type = t
        /\ registered' = Registering(registered, "Semantics") /\ UNCHANGED mappings
    BY <1>1 DEF TryRegisterSemanticType, RegisterSemanticType, Reply
  <2>2. UNCHANGED state
    BY <2>1, BindingOutcome
  <2>3. t # "Semantics"
    BY StaticAssumption, ComponentAssumption DEF Resources
  <2>4. registered \in Seq(Entries) /\ IsInjective(registered) /\ "Semantics" \in Entries
    BY DEF BindingInv, BindingTypeOK, Entries, Resources
  <2>5. /\ registered' \in Seq(Entries) /\ DOMAIN registered \subseteq DOMAIN registered'
        /\ \A i \in DOMAIN registered : registered'[i] = registered[i]
        /\ Range(registered') = Range(registered) \cup {"Semantics"}
    BY <2>1, <2>4, Registers
  <2>6. /\ Contains(registered, t) <=> t \in Range(registered)
        /\ Contains(registered', t) <=> t \in Range(registered')
    BY <2>4, <2>5 DEF Contains, Range
  <2>7. Contains(registered', t) = Contains(registered, t)
    <3>1. Contains(registered', t) <=> Contains(registered, t)
      BY <2>3, <2>5, <2>6
    <3> QED BY <3>1 DEF Contains
  <2> QED BY <2>1, <2>2, <2>7
<1>2. ASSUME NEW t \in ComponentTypes, TryRegisterSemanticComponent(t)
      PROVE  /\ UNCHANGED <<mappings, state>>
             /\ reply'.verdict = "StaticKindMismatch" =>
                  Contains(registered', reply'.type) = Contains(registered, reply'.type)
  <2>1. CASE UNCHANGED <<vars, worldVars>>
    BY <2>1 DEF vars, worldVars
  <2>2. CASE ~Misdeclared(t) /\ RegisterAndBind(t)
    <3>1. PICK c : \/ /\ UNCHANGED <<vars, mappings>>
                      /\ reply'.verdict = Validate(StaticKind[t], c)
                   \/ /\ BindStaticComponent(t) /\ BindIfAccepted(t, c) /\ reply'.verdict = outcome'
      BY <2>2 DEF RegisterAndBind, Reply
    <3>2. CASE UNCHANGED <<vars, mappings>> /\ reply'.verdict = Validate(StaticKind[t], c)
      <4>1. reply'.verdict # "StaticKindMismatch"
        BY <3>2 DEF Validate
      <4> QED BY <3>2, <4>1 DEF vars
    <3>3. CASE BindStaticComponent(t) /\ BindIfAccepted(t, c) /\ reply'.verdict = outcome'
      <4>1. /\ outcome' \in Errors \cup {"Ok"} /\ outcome' # "Ok"
            /\ UNCHANGED <<state, version>>
            /\ outcome' = "StaticKindMismatch" => Misdeclared(t)
        BY <3>3, BindingOutcome DEF BindStaticComponent
      <4>2. UNCHANGED mappings
        BY <3>3, <4>1 DEF BindIfAccepted
      <4> QED BY <2>2, <3>3, <4>1, <4>2
    <3> QED BY <3>1, <3>2, <3>3
  <2> QED BY <1>2, <2>1, <2>2 DEF TryRegisterSemanticComponent
<1>3. CASE \/ \E t \in PlainTypes : RegisterComponent(t)
           \/ ReplaceSemantics \/ RemoveMappings \/ EditSemantics
  <2>1. reply' = NoReply
    BY <1>3 DEF RegisterComponent, ReplaceSemantics, RemoveMappings, EditSemantics, Event
  <2> QED BY <2>1 DEF NoReply
<1>4. CASE UNCHANGED bindingVars
  BY <1>4 DEF bindingVars
<1> QED BY <1>1, <1>2, <1>3, <1>4 DEF BindingNext

(* "strict, idempotent, and remain for the lifetime of the world"
   (spec.md:178): no call takes back what an earlier one bound, moves it, or
   binds anything where it reports a failure.                              *)
THEOREM BindingsNeverShrink == BindingSpec => BindingsOnlyGrow
<1>1. ASSUME BindingInv, [BindingNext]_bindingVars
      PROVE  [\A k \in DOMAIN by_kind :
                \/ k \in DOMAIN by_kind' /\ by_kind'[k] = by_kind[k]
                \/ "SemanticComponents" \notin present']_bindingVars
  BY <1>1, BoundStep
<1>2. ASSUME BindingInv, [BindingNext]_bindingVars
      PROVE  [reply' # reply /\ reply'.verdict # "Ok" =>
                /\ UNCHANGED <<mappings, state>>
                /\ reply'.verdict = "StaticKindMismatch" =>
                     Contains(registered', reply'.type) = Contains(registered, reply'.type)]_bindingVars
  BY <1>2, FailureStep
<1>3. BindingSpec => BoundForLife
  BY <1>1, BindingInvariance, PTL DEF BindingSpec, BoundForLife
<1>4. BindingSpec => FailureBindsNothing
  BY <1>2, BindingInvariance, PTL DEF BindingSpec, FailureBindsNothing
<1> QED BY <1>3, <1>4 DEF BindingsOnlyGrow
=============================================================================
