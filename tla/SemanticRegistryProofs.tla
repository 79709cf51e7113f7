------------------------ MODULE SemanticRegistryProofs ------------------------
(***************************************************************************)
(* The inductive invariant of SemanticRegistry.  A step of the registry has *)
(* one of eight effects (Effect), whichever of the fourteen operations it   *)
(* belongs to; NextIsEffect shows that once, and the invariant is carried   *)
(* over the effects, not over the operations.  The invariant is Coherent    *)
(* and BindingsCoherent, which say that vector and maps agree, and          *)
(* PendingConsistent, which says what validation has left to register.      *)
(* What the runs check of the registry follows from it, each property       *)
(* carried over the eight effects (from RemovalShape on), and so does that   *)
(* the registry implements Ontology.                                       *)
(***************************************************************************)
EXTENDS RegistryRefinement, FiniteSetTheorems, TLAPS

(* The tables of the registry are typed. *)
TableOK ==
  /\ kinds \in Seq(Metas)
  /\ kind_to_index \in [DOMAIN kind_to_index -> Nat \ {0}] /\ DOMAIN kind_to_index \subseteq Kinds
  /\ name_to_kind \in [DOMAIN name_to_kind -> Kinds] /\ DOMAIN name_to_kind \subseteq Names
  /\ type_to_kind \in [DOMAIN type_to_kind -> Kinds] /\ DOMAIN type_to_kind \subseteq Types
  /\ kind_to_type \in [DOMAIN kind_to_type -> Types] /\ DOMAIN kind_to_type \subseteq Kinds
  /\ edges \subseteq Triples
  /\ tombstoned_count \in Nat
  /\ version \in 0..(VersionModulus - 1)

(* The vector, the index map and the name map agree. *)
Coherent == TableOK /\ IndexCoherent /\ NamesCoherent

(* bump_version wraps, so the version keeps its width. *)
LEMMA BumpTyped ==
  ASSUME NEW n \in Nat, version \in 0..(VersionModulus - 1), Bump(n)
  PROVE  version' \in 0..(VersionModulus - 1)
BY VersionAssumption DEF Bump

(* A registered kind is found at its own place of the vector. *)
LEMMA FoundAt ==
  ASSUME Coherent, NEW k \in DOMAIN kind_to_index
  PROVE  /\ kind_to_index[k] \in 1..Len(kinds)
         /\ MetaOf(k) \in Metas
         /\ MetaOf(k).kind = k
         /\ MetaOf(k).name \in DOMAIN name_to_kind
         /\ Hash[MetaOf(k).name] = k
BY DEF Coherent, TableOK, IndexCoherent, NamesCoherent, MetaOf

(* Overwriting the metadata of a place without touching what it is found by. *)
LEMMA OverwriteCoherent ==
  ASSUME Coherent, NEW k \in DOMAIN kind_to_index, NEW m \in Metas,
         m.kind = k, m.name = MetaOf(k).name,
         kinds' = [kinds EXCEPT ![kind_to_index[k]] = m],
         UNCHANGED <<kind_to_index, name_to_kind>>
  PROVE  kinds' \in Seq(Metas) /\ IndexCoherent' /\ NamesCoherent'
<1>1. kind_to_index[k] \in 1..Len(kinds) /\ MetaOf(k) = kinds[kind_to_index[k]]
  BY FoundAt DEF MetaOf
<1>2. kinds' \in Seq(Metas) /\ DOMAIN kinds' = DOMAIN kinds
  BY <1>1 DEF Coherent, TableOK
<1>3. \A i \in DOMAIN kinds : kinds'[i].kind = kinds[i].kind /\ kinds'[i].name = kinds[i].name
  BY <1>1, <1>2, FoundAt DEF Coherent, TableOK
<1> QED BY <1>2, <1>3 DEF Coherent, IndexCoherent, NamesCoherent

(* Pushing a kind nobody has, under a name nobody has, keeps the maps in
   step with the vector. *)
LEMMA AppendCoherent ==
  ASSUME Coherent, NEW m \in Metas,
         m.kind \notin DOMAIN kind_to_index, m.name \notin DOMAIN name_to_kind,
         Hash[m.name] = m.kind,
         kinds' = Append(kinds, m),
         kind_to_index' = Put(kind_to_index, m.kind, Len(kinds) + 1),
         name_to_kind' = Put(name_to_kind, m.name, m.kind)
  PROVE  kinds' \in Seq(Metas) /\ IndexCoherent' /\ NamesCoherent'
<1>1. /\ kinds' \in Seq(Metas) /\ DOMAIN kinds' = 1..(Len(kinds) + 1)
      /\ \A i \in 1..Len(kinds) : kinds'[i] = kinds[i]
      /\ kinds'[Len(kinds) + 1] = m
  BY DEF Coherent, TableOK
<1>2. DOMAIN kinds = 1..Len(kinds) BY DEF Coherent, TableOK
<1>3. Len(kinds) \in Nat BY DEF Coherent, TableOK
<1>4. IndexCoherent'
  BY <1>1, <1>2, <1>3 DEF Coherent, IndexCoherent, Put
<1>5. NamesCoherent'
  BY <1>1, <1>2, <1>3 DEF Coherent, NamesCoherent, Put
<1> QED BY <1>1, <1>4, <1>5

(* swap_remove and the one index it patches keep the maps in step with
   the vector (unregister_kind). *)
LEMMA SwapRemoveCoherent ==
  ASSUME Coherent, NEW k \in DOMAIN kind_to_index,
         Unregister(k)
  PROVE  kinds' \in Seq(Metas) /\ IndexCoherent' /\ NamesCoherent'
<1> DEFINE idx == kind_to_index[k]
           n == Len(kinds)
           last == kinds[n]
<1>1. /\ n \in Nat /\ idx \in 1..n /\ DOMAIN kinds = 1..n /\ kinds \in Seq(Metas)
      /\ kinds[idx].kind = k
  BY FoundAt DEF Coherent, TableOK, MetaOf
<1>2. kinds' = [i \in 1..(n - 1) |-> IF i = idx THEN last ELSE kinds[i]]
  BY DEF Unregister, SwapRemove
<1>3. \A i \in 1..n : kinds[i] \in Metas
  BY <1>1
<1>4. kinds' \in Seq(Metas) /\ DOMAIN kinds' = 1..(n - 1)
  BY <1>1, <1>2, <1>3
<1>5. /\ idx = n \/ (idx < n /\ idx \in 1..(n - 1))
      /\ \A i \in 1..(n - 1) : i # idx => kinds'[i] = kinds[i]
      /\ idx < n => kinds'[idx] = last
  BY <1>1, <1>2
<1>6. \A i, j \in 1..n : kinds[i].kind = kinds[j].kind => i = j
  BY <1>1 DEF Coherent, IndexCoherent
<1>7. \A i \in DOMAIN kinds' : \E j \in 1..n : j # idx /\ kinds'[i] = kinds[j]
  BY <1>1, <1>4, <1>5
<1>8. \A j \in 1..n : j # idx => \E i \in DOMAIN kinds' : kinds'[i] = kinds[j]
  BY <1>1, <1>4, <1>5
<1>9. IndexCoherent'
  <2>1. kind_to_index' = IF idx < n THEN Put(Without(kind_to_index, {k}), last.kind, idx)
                         ELSE Without(kind_to_index, {k})
    BY DEF Unregister, PatchMoved
  <2>2. DOMAIN kind_to_index' = {kinds'[i].kind : i \in DOMAIN kinds'}
    <3>1. DOMAIN kind_to_index' = DOMAIN kind_to_index \ {k}
      BY <1>1, <1>5, <1>6, <2>1 DEF Coherent, IndexCoherent, Put, Without, Restrict
    <3>2. DOMAIN kind_to_index \ {k} = {kinds[j].kind : j \in (1..n) \ {idx}}
      BY <1>1, <1>6 DEF Coherent, IndexCoherent
    <3> QED BY <1>7, <1>8, <3>1, <3>2
  <2>3. ASSUME NEW i \in DOMAIN kinds'
        PROVE  kind_to_index'[kinds'[i].kind] = i
    BY <1>1, <1>4, <1>5, <1>6, <2>1 DEF Coherent, IndexCoherent, Put, Without, Restrict
  <2> QED BY <2>2, <2>3 DEF IndexCoherent
<1>10. NamesCoherent'
  <2>1. name_to_kind' = Without(name_to_kind, {kinds[idx].name})
    BY DEF Unregister
  <2>2. \A i \in 1..n : i # idx => kinds[i].name # kinds[idx].name
    BY <1>1, <1>6 DEF Coherent, NamesCoherent
  <2>3. DOMAIN name_to_kind' = {kinds'[i].name : i \in DOMAIN kinds'}
    <3>1. DOMAIN name_to_kind' = {kinds[j].name : j \in (1..n) \ {idx}}
      BY <1>1, <2>1, <2>2 DEF Coherent, NamesCoherent, Without, Restrict
    <3> QED BY <1>7, <1>8, <3>1
  <2>4. ASSUME NEW i \in DOMAIN kinds'
        PROVE  name_to_kind'[kinds'[i].name] = kinds'[i].kind /\ Hash[kinds'[i].name] = kinds'[i].kind
    <3>1. PICK j \in 1..n : j # idx /\ kinds'[i] = kinds[j]
      BY <1>7
    <3> QED BY <1>1, <2>1, <2>2, <3>1 DEF Coherent, NamesCoherent, Without, Restrict
  <2> QED BY <2>3, <2>4 DEF NamesCoherent
<1> QED BY <1>4, <1>9, <1>10

(* Ranks number the places that are kept, in order and without gaps. *)
LEMMA RankBijection ==
  ASSUME NEW n \in Nat, NEW P \in SUBSET (1..n)
  PROVE  /\ Cardinality(P) \in Nat
         /\ \A i \in P : Rank(P, i) \in 1..Cardinality(P)
         /\ \A i, j \in P : i < j => Rank(P, i) < Rank(P, j)
         /\ \A i, j \in P : Rank(P, i) = Rank(P, j) => i = j
         /\ \A r \in 1..Cardinality(P) : \E i \in P : Rank(P, i) = r
<1> DEFINE below(i) == {j \in P : j <= i}
<1>0. \A i \in P : i \in Int
  OBVIOUS
<1>1. IsFiniteSet(P) /\ Cardinality(P) \in Nat
  <2>1. IsFiniteSet(1..n) BY FS_Interval
  <2> QED BY <2>1, FS_Subset, FS_CardinalityType
<1>2. ASSUME NEW i \in P
      PROVE  IsFiniteSet(below(i)) /\ Rank(P, i) \in 1..Cardinality(P)
  <2>1. below(i) \subseteq P /\ below(i) # {}
    BY DEF Rank
  <2>2. IsFiniteSet(below(i)) /\ Cardinality(below(i)) <= Cardinality(P)
    BY <1>1, <2>1, FS_Subset
  <2>3. Cardinality(below(i)) \in Nat /\ Cardinality(below(i)) # 0
    BY <2>1, <2>2, FS_CardinalityType, FS_EmptySet
  <2> QED BY <1>1, <2>2, <2>3 DEF Rank
<1>3. ASSUME NEW i \in P, NEW j \in P, i < j
      PROVE  Rank(P, i) < Rank(P, j)
  <2>1. below(i) \subseteq below(j) /\ j \in below(j) /\ j \notin below(i)
    <3>1. ASSUME NEW x \in P, x <= i PROVE x <= j
      BY <1>0, <1>3, <3>1
    <3>2. j <= j /\ ~(j <= i)
      BY <1>0, <1>3
    <3> QED BY <3>1, <3>2
  <2>2. IsFiniteSet(below(j)) BY <1>2
  <2>3. Cardinality(below(i)) <= Cardinality(below(j)) /\ Cardinality(below(i)) # Cardinality(below(j))
    BY <2>1, <2>2, FS_Subset
  <2>4. Cardinality(below(i)) \in Nat /\ Cardinality(below(j)) \in Nat
    BY <1>2, FS_CardinalityType
  <2> QED BY <2>3, <2>4 DEF Rank
<1>4. \A i, j \in P : Rank(P, i) = Rank(P, j) => i = j
  <2>1. ASSUME NEW i \in P PROVE Rank(P, i) \in Int
    <3>1. Rank(P, i) \in 1..Cardinality(P) BY <1>2
    <3> QED BY <1>1, <3>1
  <2> QED BY <1>0, <1>3, <2>1
<1>5. \A r \in 1..Cardinality(P) : \E i \in P : Rank(P, i) = r
  <2> DEFINE f == [i \in P |-> Rank(P, i)]
             S == 1..Cardinality(P)
  <2>1. f \in Injection(P, S)
    BY <1>2, <1>4 DEF Injection, IsInjective
  <2>2. IsFiniteSet(S) /\ Cardinality(S) = Cardinality(P)
    BY <1>1, FS_Interval
  <2>3. f \in Surjection(P, S)
    BY <1>1, <2>1, <2>2, FS_Injection
  <2> QED BY <2>3 DEF Surjection
<1> QED BY <1>1, <1>2, <1>3, <1>4, <1>5

(* Vec::retain: the kept places, and only they, survive at their rank. *)
LEMMA RetainPlaces ==
  ASSUME NEW vec \in Seq(Metas), NEW P \in SUBSET (1..Len(vec))
  PROVE  /\ Retain(vec, P) \in Seq(Metas)
         /\ DOMAIN Retain(vec, P) = 1..Cardinality(P)
         /\ \A i \in P : Rank(P, i) \in 1..Cardinality(P) /\ Retain(vec, P)[Rank(P, i)] = vec[i]
         /\ \A r \in 1..Cardinality(P) : \E i \in P : r = Rank(P, i) /\ Retain(vec, P)[r] = vec[i]
<1> DEFINE at(r) == CHOOSE i \in P : Rank(P, i) = r
           kept == [r \in 1..Cardinality(P) |-> vec[at(r)]]
<1>0. Len(vec) \in Nat OBVIOUS
<1>1. /\ Cardinality(P) \in Nat
      /\ \A i \in P : Rank(P, i) \in 1..Cardinality(P)
      /\ \A i, j \in P : Rank(P, i) = Rank(P, j) => i = j
      /\ \A r \in 1..Cardinality(P) : \E i \in P : Rank(P, i) = r
  BY <1>0, RankBijection
<1>2. \A r \in 1..Cardinality(P) : at(r) \in P /\ Rank(P, at(r)) = r
  BY <1>1
<1>3. \A i \in P : at(Rank(P, i)) = i
  BY <1>1, <1>2
<1>4. \A i \in P : vec[i] \in Metas
  OBVIOUS
<1>5. kept \in Seq(Metas) /\ DOMAIN kept = 1..Cardinality(P)
  BY <1>1, <1>2, <1>4
<1>6. \A i \in P : kept[Rank(P, i)] = vec[i]
  BY <1>1, <1>3
<1>7. \A r \in 1..Cardinality(P) : \E i \in P : r = Rank(P, i) /\ kept[r] = vec[i]
  BY <1>2
<1> QED BY <1>1, <1>5, <1>6, <1>7 DEF Retain

(* retain and the maps rebuilt from what is left agree
   (unregister_namespace). *)
LEMMA UnregisterPlacesCoherent ==
  ASSUME Coherent, NEW places \in SUBSET DOMAIN kinds, UnregisterPlaces(places)
  PROVE  kinds' \in Seq(Metas) /\ IndexCoherent' /\ NamesCoherent'
<1> DEFINE left == DOMAIN kinds \ places
           at(k) == CHOOSE i \in left : kinds[i].kind = k
           named(n) == CHOOSE i \in left : kinds[i].name = n
<1>1. kinds \in Seq(Metas) /\ DOMAIN kinds = 1..Len(kinds) /\ left \in SUBSET (1..Len(kinds))
  BY DEF Coherent, TableOK
<1>2. kinds' = Retain(kinds, left)
  BY DEF UnregisterPlaces
<1>3. /\ kinds' \in Seq(Metas)
      /\ DOMAIN kinds' = 1..Cardinality(left)
      /\ \A i \in left : Rank(left, i) \in 1..Cardinality(left) /\ kinds'[Rank(left, i)] = kinds[i]
      /\ \A r \in 1..Cardinality(left) : \E i \in left : r = Rank(left, i) /\ kinds'[r] = kinds[i]
  BY <1>1, <1>2, RetainPlaces
<1>4. \A i, j \in left : /\ kinds[i].kind = kinds[j].kind => i = j
                         /\ kinds[i].name = kinds[j].name => i = j
  BY <1>1 DEF Coherent, IndexCoherent, NamesCoherent
<1>5. \A i \in left : at(kinds[i].kind) = i /\ named(kinds[i].name) = i
  BY <1>4
<1>6. IndexCoherent'
  <2>1. kind_to_index' = [k \in {kinds[i].kind : i \in left} |-> Rank(left, at(k))]
    BY DEF UnregisterPlaces
  <2>2. DOMAIN kind_to_index' = {kinds'[r].kind : r \in DOMAIN kinds'}
    <3>1. DOMAIN kind_to_index' = {kinds[i].kind : i \in left}
      BY <2>1
    <3> HIDE DEF left
    <3> QED BY <1>3, <3>1
  <2>3. ASSUME NEW r \in DOMAIN kinds' PROVE kind_to_index'[kinds'[r].kind] = r
    <3>1. PICK i \in left : r = Rank(left, i) /\ kinds'[r] = kinds[i]
      BY <1>3
    <3>2. kind_to_index'[kinds[i].kind] = Rank(left, at(kinds[i].kind))
      BY <2>1
    <3>3. at(kinds[i].kind) = i
      BY <1>5
    <3> HIDE DEF at
    <3> QED BY <3>1, <3>2, <3>3
  <2> QED BY <2>2, <2>3 DEF IndexCoherent
<1>7. NamesCoherent'
  <2>1. name_to_kind' = [n \in {kinds[i].name : i \in left} |-> kinds[named(n)].kind]
    BY DEF UnregisterPlaces
  <2>2. DOMAIN name_to_kind' = {kinds'[r].name : r \in DOMAIN kinds'}
    <3>1. DOMAIN name_to_kind' = {kinds[i].name : i \in left}
      BY <2>1
    <3> HIDE DEF left
    <3> QED BY <1>3, <3>1
  <2>3. ASSUME NEW r \in DOMAIN kinds'
        PROVE  name_to_kind'[kinds'[r].name] = kinds'[r].kind /\ Hash[kinds'[r].name] = kinds'[r].kind
    <3>1. PICK i \in left : r = Rank(left, i) /\ kinds'[r] = kinds[i]
      BY <1>3
    <3> QED BY <1>1, <1>5, <2>1, <3>1 DEF Coherent, NamesCoherent
  <2> QED BY <2>2, <2>3 DEF NamesCoherent
<1> QED BY <1>3, <1>6, <1>7

-----------------------------------------------------------------------------
(* What any step does to the registry, whichever operation it belongs to.  *)

(* The effects: what a step of the registry can do to its state,
   whichever operation it belongs to and whatever the operation returns. *)
BaseFlags == {{"USER_DEFINED"}, {"TYPED"}, {"TYPED", "STATIC_TYPE"},
              {"TYPED", "STATIC_TYPE", "STATIC_COMPONENT"}}

ExistingEffect ==
  \E k \in DOMAIN kind_to_index, t \in Types \cup {NoType}, b \in BaseFlags, rv \in BOOLEAN :
    /\ (t = NoType) = (b = {"USER_DEFINED"})
    /\ ~TypeClash(k, t)
    /\ RegisterExisting(k, t, b, rv)

NewEffect ==
  \E n \in Names \ DOMAIN name_to_kind, t \in Types \cup {NoType}, b \in BaseFlags :
    /\ (t = NoType) = (b = {"USER_DEFINED"})
    /\ Hash[n] \notin DOMAIN kind_to_index
    /\ t \notin DOMAIN type_to_kind
    /\ RegisterNew(n, Hash[n], t, b)

TombstoneEffect ==
  \E k \in DOMAIN kind_to_index :
    "CORE" \notin MetaOf(k).flags /\ ~IsTombstoned(MetaOf(k)) /\ Tombstone(k)

ReviveEffect == \E k \in DOMAIN kind_to_index : Revive(k)

UnregisterEffect ==
  \E k \in DOMAIN kind_to_index : PinFault(MetaOf(k)) = "Ok" /\ Unregister(k)

NamespaceEffect ==
  \E places \in SUBSET DOMAIN kinds :
    places # {} /\ (\A i \in places : PinFault(kinds[i]) = "Ok") /\ UnregisterPlaces(places)

EdgeEffect ==
  /\ \A e \in edges' \ edges : e \in Triples /\ \A j \in 1..3 : ActiveFault(e[j]) = "Ok"
  /\ edges \subseteq edges' \/ edges' \subseteq edges
  /\ Bump(IF edges' # edges THEN 1 ELSE 0)
  /\ UNCHANGED <<kinds, maps, tombstoned_count>>

Effect ==
  \/ UNCHANGED <<state, version>>
  \/ ExistingEffect \/ NewEffect \/ TombstoneEffect \/ ReviveEffect
  \/ UnregisterEffect \/ NamespaceEffect \/ EdgeEffect

(* What validation leaves to be registered cannot collide any more. *)
PendingConsistent ==
  LET name(i) == Canon[validated[i].name]
      kind(i) == validated[i].kind
  IN \A i \in DOMAIN validated :
       /\ name(i) \in Names \ ReservedNames
       /\ Hash[name(i)] = kind(i)
       /\ kind(i) \in DOMAIN kind_to_index => name(i) \in DOMAIN name_to_kind
       /\ \A j \in DOMAIN validated : kind(j) = kind(i) => name(j) = name(i)

(* The inductive invariant. *)
IInv ==
  /\ Coherent
  /\ BindingsCoherent
  /\ validated \in Seq(Declarations)
  /\ outcome \in Outcomes
  /\ PendingConsistent

-----------------------------------------------------------------------------

(* A nonempty set of places has a least one. *)
LEMMA MinInSet ==
  ASSUME NEW n \in Nat, NEW S \in SUBSET (1..n), S # {}
  PROVE  Min(S) \in S /\ \A y \in S : Min(S) <= y
<1>1. IsFiniteSet(S) /\ Cardinality(S) \in Nat \ {0}
  <2>1. IsFiniteSet(1..n) BY FS_Interval
  <2>2. IsFiniteSet(S) BY <2>1, FS_Subset
  <2> QED BY <2>2, FS_CardinalityType, FS_EmptySet
<1>2. PICK x \in S : Rank(S, x) = 1
  BY <1>1, RankBijection
<1>3. \A y \in S : y \in Int /\ Rank(S, y) \in 1..Cardinality(S)
  BY RankBijection
<1>4. \A y \in S : x <= y
  <2>1. ASSUME NEW y \in S, y < x PROVE FALSE
    <3>1. Rank(S, y) < 1 BY <1>2, <2>1, RankBijection
    <3> QED BY <1>1, <1>3, <3>1
  <2> QED BY <1>3, <2>1
<1> QED BY <1>4 DEF Min

(* A loop of checks that reports no fault has checked everything. *)
LEMMA FirstFaultOk ==
  ASSUME NEW n \in Nat, NEW v, DOMAIN v = 1..n, FirstFault(v) = "Ok"
  PROVE  \A i \in 1..n : v[i] = "Ok"
<1> DEFINE faults == {i \in DOMAIN v : v[i] # "Ok"}
<1>1. SUFFICES ASSUME faults # {} PROVE FALSE
  OBVIOUS
<1>2. faults \in SUBSET (1..n)
  OBVIOUS
<1>3. Min(faults) \in faults
  BY <1>1, <1>2, MinInSet
<1>4. FirstFault(v) = v[Min(faults)]
  BY <1>1 DEF FirstFault
<1> QED BY <1>3, <1>4

(* Validating a slice visits every end of each of its edges. *)
LEMMA EndpointsCover ==
  ASSUME NEW g \in Seq(Triples), NEW e \in Range(g), NEW j \in 1..3
  PROVE  \E i \in 1..(3 * Len(g)) : Endpoints(g)[i] = e[j]
<1>1. Len(g) \in Nat OBVIOUS
<1>2. PICK m \in 1..Len(g) : g[m] = e
  BY DEF Range
<1> DEFINE i == 3 * (m - 1) + j
<1>3. /\ i \in 1..(3 * Len(g))
      /\ ((i - 1) \div 3) + 1 = m
      /\ ((i - 1) % 3) + 1 = j
  BY <1>1, <1>2
<1>4. Endpoints(g)[i] = g[((i - 1) \div 3) + 1][((i - 1) % 3) + 1]
  BY <1>3 DEF Endpoints
<1> QED BY <1>2, <1>3, <1>4

(* Edges that add_edges lets through only join live kinds. *)
LEMMA AddedEdgesActive ==
  ASSUME NEW g \in EdgeGroups,
         FirstFault([i \in DOMAIN Endpoints(g) |-> ActiveFault(Endpoints(g)[i])]) = "Ok"
  PROVE  \A e \in Range(g) : e \in Triples /\ \A j \in 1..3 : ActiveFault(e[j]) = "Ok"
<1>1. g \in Seq(Triples) /\ Len(g) \in Nat
  BY InputAssumption
<1>2. DOMAIN Endpoints(g) = 1..(3 * Len(g)) /\ 3 * Len(g) \in Nat
  BY <1>1 DEF Endpoints
<1>3. \A i \in 1..(3 * Len(g)) : ActiveFault(Endpoints(g)[i]) = "Ok"
  BY <1>2, FirstFaultOk
<1>4. \A e \in Range(g) : e \in Triples
  BY <1>1 DEF Range
<1> QED BY <1>1, <1>3, <1>4, EndpointsCover

-----------------------------------------------------------------------------
(* Every step has one of the effects above.                                *)

(* Registering changes nothing, rewrites a known kind, or pushes a new
   one. *)
LEMMA RegisterEffect ==
  ASSUME Coherent, BindingsCoherent,
         NEW n \in Names, NEW t \in Types \cup {NoType}, NEW b \in BaseFlags, NEW rv \in BOOLEAN,
         (t = NoType) = (b = {"USER_DEFINED"}),
         t \in DOMAIN type_to_kind => type_to_kind[t] = Hash[n],
         Register(n, Hash[n], t, b, rv)
  PROVE  Effect
<1> DEFINE verdict == RegisterVerdict(n, Hash[n], t, b)
<1>1. CASE verdict # "Ok" /\ Fail(verdict)
  BY <1>1 DEF Fail, Effect
<1>2. CASE /\ verdict = "Ok"
           /\ n \in DOMAIN name_to_kind
           /\ RegisterExisting(Hash[n], t, b, rv)
  <2>1. name_to_kind[n] = Hash[n] /\ ~TypeClash(Hash[n], t)
    BY <1>2 DEF RegisterVerdict
  <2>2. Hash[n] \in DOMAIN kind_to_index
    BY <1>2, <2>1 DEF Coherent, IndexCoherent, NamesCoherent
  <2> QED BY <1>2, <2>1, <2>2 DEF ExistingEffect, Effect
<1>3. CASE /\ verdict = "Ok"
           /\ n \notin DOMAIN name_to_kind
           /\ RegisterNew(n, Hash[n], t, b)
  <2>1. Hash[n] \notin DOMAIN kind_to_index
    BY <1>3 DEF RegisterVerdict
  <2>2. t \notin DOMAIN type_to_kind
    BY <2>1 DEF BindingsCoherent
  <2> QED BY <1>3, <2>1, <2>2 DEF NewEffect, Effect
<1> QED BY <1>1, <1>2, <1>3 DEF Register

(* Binding a static type registers it; the checks before it leave no
   clash. *)
LEMMA BindStaticEffect ==
  ASSUME Coherent, BindingsCoherent, NEW t \in StaticTypes,
         NEW f \in {{"STATIC_TYPE"}, {"STATIC_TYPE", "STATIC_COMPONENT"}},
         BindStaticType(t, f)
  PROVE  Effect
<1> DEFINE name == Canon[StaticName[t]]
<1>1. name \in Names \cup {NoName} /\ t \in Types /\ t # NoType
  BY AtomsAssumption, StaticAssumption
<1>2. CASE \E error : Fail(error)
  BY <1>2 DEF Fail, Effect
<1>3. CASE /\ name # NoName
           /\ Hash[name] = StaticKind[t]
           /\ t \in DOMAIN type_to_kind => type_to_kind[t] = StaticKind[t]
           /\ Register(name, StaticKind[t], t, {"TYPED"} \cup f, FALSE)
  <2> DEFINE b == {"TYPED"} \cup f
  <2>1. b \in BaseFlags /\ (t = NoType) = (b = {"USER_DEFINED"})
    <3>1. b = {"TYPED", "STATIC_TYPE"} \/ b = {"TYPED", "STATIC_TYPE", "STATIC_COMPONENT"}
      OBVIOUS
    <3>2. "TYPED" \in b /\ "TYPED" \notin {"USER_DEFINED"}
      OBVIOUS
    <3> HIDE DEF b
    <3> QED BY <1>1, <3>1, <3>2 DEF BaseFlags
  <2>2. name \in Names /\ Register(name, Hash[name], t, b, FALSE)
    BY <1>1, <1>3
  <2>3. t \in DOMAIN type_to_kind => type_to_kind[t] = Hash[name]
    BY <1>3
  <2> HIDE DEF b, name
  <2> QED BY <1>1, <2>1, <2>2, <2>3, RegisterEffect
<1> QED BY <1>2, <1>3 DEF BindStaticType, StaticVerdict

(* typed_kind_named revives the kind of a known type or registers a new
   type. *)
LEMMA TypedKindEffect ==
  ASSUME Coherent, BindingsCoherent, NEW t \in Types, NEW s \in Spellings, TypedKindNamed(t, s)
  PROVE  Effect
<1> DEFINE name == Canon[s]
<1>1. CASE \E error : Fail(error)
  BY <1>1 DEF Fail, Effect
<1>2. CASE t \in DOMAIN type_to_kind /\ Revive(type_to_kind[t])
  <2>1. type_to_kind[t] \in DOMAIN kind_to_index
    BY <1>2 DEF BindingsCoherent
  <2> QED BY <1>2, <2>1 DEF ReviveEffect, Effect
<1>3. CASE /\ name \in Names
           /\ t \notin DOMAIN type_to_kind
           /\ Register(name, Hash[name], t, {"TYPED"}, TRUE)
  <2>1. {"TYPED"} \in BaseFlags /\ {"TYPED"} # {"USER_DEFINED"} /\ t # NoType
    BY AtomsAssumption DEF BaseFlags
  <2> QED BY <1>3, <2>1, RegisterEffect
<1> QED BY <1>1, <1>2, <1>3 DEF TypedKindNamed

(* Dynamic registration brings no type, so it cannot clash with one. *)
LEMMA UserEffect ==
  ASSUME Coherent, BindingsCoherent, NEW n \in Names,
         Register(n, Hash[n], NoType, {"USER_DEFINED"}, TRUE)
  PROVE  Effect
<1>1. NoType \notin DOMAIN type_to_kind
  BY AtomsAssumption DEF Coherent, TableOK
<1>2. {"USER_DEFINED"} \in BaseFlags
  BY DEF BaseFlags
<1> QED BY <1>1, <1>2, RegisterEffect

(* Every step of the registry has one of the effects. *)
LEMMA NextIsEffect ==
  ASSUME IInv, [Next]_vars
  PROVE  Effect
<1> USE DEF IInv
<1>1. ASSUME NEW s \in Spellings, RegisterKind(s) PROVE Effect
  <2>1. Canon[s] # NoName => Canon[s] \in Names
    BY AtomsAssumption
  <2>2. CASE Fail("InvalidName") BY <2>2 DEF Fail, Effect
  <2> QED BY <1>1, <2>1, <2>2, UserEffect DEF RegisterKind
<1>2. ASSUME NEW g \in ConstGroups, NEW i \in DOMAIN g, RegisterConst(g[i].name, g[i].kind)
      PROVE  Effect
  <2> DEFINE verdict == DeclarationVerdict(g[i].name, g[i].kind)
             name == Canon[g[i].name]
  <2>1. g[i] \in Declarations /\ name \in Names \cup {NoName}
    <3>1. g \in Seq(Declarations) BY InputAssumption
    <3>2. g[i] \in Declarations BY <3>1
    <3> QED BY <3>2, AtomsAssumption DEF Declarations
  <2>2. CASE Fail(verdict) BY <2>2 DEF Fail, Effect
  <2>3. CASE verdict = "Ok" /\ Register(name, g[i].kind, NoType, {"USER_DEFINED"}, TRUE)
    <3>1. name \in Names /\ Hash[name] = g[i].kind
      BY <2>1, <2>3 DEF DeclarationVerdict
    <3> QED BY <2>3, <3>1, UserEffect
  <2> QED BY <1>2, <2>2, <2>3 DEF RegisterConst
<1>3. ASSUME NEW g \in ConstGroups, RegisterConsts(g) PROVE Effect
  BY <1>3 DEF RegisterConsts, Fail, Effect
<1>4. CASE RegisterValidatedConst
  <2>1. validated \in Seq(Declarations) /\ validated # <<>>
    BY <1>4 DEF RegisterValidatedConst
  <2>2. 1 \in DOMAIN validated /\ Head(validated) = validated[1]
    BY <2>1
  <2>3. /\ Canon[Head(validated).name] \in Names
        /\ Hash[Canon[Head(validated).name]] = Head(validated).kind
    BY <2>2 DEF PendingConsistent
  <2> QED BY <1>4, <2>3, UserEffect DEF RegisterValidatedConst
<1>5. ASSUME NEW k \in Kinds, TombstoneKind(k) PROVE Effect
  BY <1>5 DEF TombstoneKind, Fail, TombstoneEffect, Effect
<1>6. ASSUME NEW k \in Kinds, ReviveKind(k) PROVE Effect
  BY <1>6 DEF ReviveKind, Fail, ReviveEffect, Effect
<1>7. ASSUME NEW t \in Types, NEW s \in Spellings, TypedKindNamed(t, s) PROVE Effect
  BY <1>7, TypedKindEffect
<1>8. ASSUME NEW t \in StaticTypes, RegisterSemanticType(t) \/ BindStaticComponent(t) PROVE Effect
  BY <1>8, BindStaticEffect DEF RegisterSemanticType, BindStaticComponent
<1>9. ASSUME NEW k \in Kinds, UnregisterKind(k) PROVE Effect
  BY <1>9 DEF UnregisterKind, Fail, UnregisterEffect, Effect
<1>10. ASSUME NEW n \in Namespaces, UnregisterNamespace(n) PROVE Effect
  <2> DEFINE places == {i \in DOMAIN kinds : kinds[i].name \in Members[n]}
             pinned == {i \in places : PinFault(kinds[i]) # "Ok"}
  <2>1. CASE \E error : Fail(error) BY <2>1 DEF Fail, Effect
  <2>2. CASE places # {} /\ pinned = {} /\ UnregisterPlaces(places)
    <3>1. places \in SUBSET DOMAIN kinds /\ \A i \in places : PinFault(kinds[i]) = "Ok"
      BY <2>2
    <3> QED BY <2>2, <3>1 DEF NamespaceEffect, Effect
  <2>3. CASE UNCHANGED <<state, version>> BY <2>3 DEF Effect
  <2> QED BY <1>10, <2>1, <2>2, <2>3 DEF UnregisterNamespace
<1>11. ASSUME NEW g \in EdgeGroups, AddEdges(g) PROVE Effect
  <2> DEFINE verdicts == [i \in DOMAIN Endpoints(g) |-> ActiveFault(Endpoints(g)[i])]
  <2>1. CASE \E error : Fail(error) BY <2>1 DEF Fail, Effect
  <2>2. CASE /\ FirstFault(verdicts) = "Ok"
             /\ edges' = edges \cup Range(g)
             /\ Bump(IF edges' # edges THEN 1 ELSE 0)
             /\ UNCHANGED <<kinds, maps, tombstoned_count>>
    <3>1. \A e \in Range(g) : e \in Triples /\ \A j \in 1..3 : ActiveFault(e[j]) = "Ok"
      BY <2>2, AddedEdgesActive
    <3> QED BY <2>2, <3>1 DEF EdgeEffect, Effect
  <2> QED BY <1>11, <2>1, <2>2 DEF AddEdges, EditEdges
<1>12. ASSUME NEW g \in EdgeGroups, RemoveEdges(g) PROVE Effect
  BY <1>12 DEF RemoveEdges, EditEdges, Fail, EdgeEffect, Effect
<1>13. CASE UnnamedTypedKind
  BY <1>13 DEF UnnamedTypedKind, Fail, Effect
<1>14. CASE UNCHANGED vars
  BY <1>14 DEF vars, Effect
<1> QED
  BY <1>1, <1>2, <1>3, <1>4, <1>5, <1>6, <1>7, <1>8, <1>9, <1>10, <1>11, <1>12, <1>13, <1>14 DEF Next

-----------------------------------------------------------------------------
(* Each effect keeps the tables typed and coherent.                        *)

(* Overwriting a kind's metadata reaches its own place and no other. *)
LEMMA OverwritePlaces ==
  ASSUME Coherent, NEW k \in DOMAIN kind_to_index, NEW m \in Metas,
         kinds' = [kinds EXCEPT ![kind_to_index[k]] = m]
  PROVE  LET idx == kind_to_index[k]
         IN /\ DOMAIN kinds' = DOMAIN kinds
            /\ idx \in DOMAIN kinds /\ kinds[idx] = MetaOf(k) /\ kinds'[idx] = m
            /\ \A i \in DOMAIN kinds : i # idx => kinds'[i] = kinds[i] /\ kinds[i].kind # k
<1>1. kind_to_index[k] \in 1..Len(kinds) /\ DOMAIN kinds = 1..Len(kinds)
  BY FoundAt DEF Coherent, TableOK
<1>2. \A i \in DOMAIN kinds : i # kind_to_index[k] => kinds[i].kind # k
  BY DEF Coherent, IndexCoherent
<1> QED BY <1>1, <1>2 DEF MetaOf

(* Overwriting metadata without touching identity or type leaves the type
   maps coherent.                                                          *)
LEMMA OverwriteBindings ==
  ASSUME Coherent, BindingsCoherent, NEW k \in DOMAIN kind_to_index, NEW m \in Metas,
         m.kind = k, m.type_id = MetaOf(k).type_id,
         kinds' = [kinds EXCEPT ![kind_to_index[k]] = m], UNCHANGED maps
  PROVE  BindingsCoherent'
<1>1. \A i \in DOMAIN kinds' : /\ i \in DOMAIN kinds
                               /\ kinds'[i].kind = kinds[i].kind
                               /\ kinds'[i].type_id = kinds[i].type_id
  <2>1. MetaOf(k).kind = k /\ kinds[kind_to_index[k]] = MetaOf(k) /\ kinds'[kind_to_index[k]] = m
    BY OverwritePlaces, FoundAt
  <2>2. /\ DOMAIN kinds' = DOMAIN kinds
        /\ \A i \in DOMAIN kinds : i # kind_to_index[k] => kinds'[i] = kinds[i]
    BY OverwritePlaces
  <2> QED BY <2>1, <2>2
<1> QED BY <1>1 DEF BindingsCoherent, maps

(* Binding a type or setting flags yields metadata. *)
LEMMA ExistingMeta ==
  ASSUME NEW old \in Metas, NEW t \in Types, NEW f \in SUBSET Flags
  PROVE  /\ [old EXCEPT !.type_id = t, !.flags = @ \cup {"TYPED"}] \in Metas
         /\ [old EXCEPT !.flags = f] \in Metas
BY DEF Metas, Flags

(* What FlagsCoherent asks of one kind. *)
FlagsOK(meta) ==
  /\ "STATIC_COMPONENT" \in meta.flags => "STATIC_TYPE" \in meta.flags
  /\ "STATIC_TYPE" \in meta.flags => meta.type_id # NoType
  /\ meta.type_id # NoType => "TYPED" \in meta.flags
  /\ "CORE" \in meta.flags => ~IsTombstoned(meta)

(* Registering a known name rewrites one place: the identity stays, a type is
   only ever added, no flag but the tombstone is lost, and the version stands
   still only if the metadata does.                                        *)
LEMMA ExistingShape ==
  ASSUME Coherent, BindingsCoherent, ExistingEffect
  PROVE  \E k \in DOMAIN kind_to_index, t \in Types \cup {NoType}, m \in Metas, binds \in BOOLEAN :
           LET old == MetaOf(k)
           IN /\ binds = (t # NoType /\ k \notin DOMAIN kind_to_type)
              /\ ~TypeClash(k, t)
              /\ m.kind = k /\ m.name = old.name
              /\ m.type_id = IF binds THEN t ELSE old.type_id
              /\ old.flags \ {"TOMBSTONED"} \subseteq m.flags
              /\ FlagsOK(old) => FlagsOK(m)
              /\ IsTombstoned(m) => IsTombstoned(old)
              /\ kinds' = [kinds EXCEPT ![kind_to_index[k]] = m]
              /\ kind_to_type' = IF binds THEN Put(kind_to_type, k, t) ELSE kind_to_type
              /\ type_to_kind' = IF binds THEN Put(type_to_kind, t, k) ELSE type_to_kind
              /\ tombstoned_count' = IF IsTombstoned(old) /\ ~IsTombstoned(m)
                                     THEN SaturatingDec(tombstoned_count) ELSE tombstoned_count
              /\ \E n \in 0..2 : Bump(n) /\ (n = 0 => m = old /\ ~binds)
              /\ UNCHANGED <<kind_to_index, name_to_kind, edges>>
<1>1. PICK k \in DOMAIN kind_to_index, t \in Types \cup {NoType}, b \in BaseFlags, rv \in BOOLEAN :
        (t = NoType) = (b = {"USER_DEFINED"}) /\ ~TypeClash(k, t) /\ RegisterExisting(k, t, b, rv)
  BY DEF ExistingEffect
<1> DEFINE old   == MetaOf(k)
           binds == t # NoType /\ k \notin DOMAIN kind_to_type
           bound == IF binds THEN [old EXCEPT !.type_id = t, !.flags = @ \cup {"TYPED"}] ELSE old
           flags == (bound.flags \cup b) \ (IF rv THEN {"TOMBSTONED"} ELSE {})
           m     == [bound EXCEPT !.flags = flags]
           merges == flags # bound.flags
           n == (IF binds THEN 1 ELSE 0) + (IF merges THEN 1 ELSE 0)
<1>2. old \in Metas /\ old.kind = k
  BY FoundAt
<1>3. /\ bound \in Metas /\ bound.kind = k /\ bound.name = old.name
      /\ bound.type_id = IF binds THEN t ELSE old.type_id
      /\ bound.flags = old.flags \cup (IF binds THEN {"TYPED"} ELSE {})
      /\ ~binds => bound = old
  BY <1>2, ExistingMeta DEF Metas
<1>4. flags \in SUBSET Flags
  BY <1>3 DEF Metas, BaseFlags, Flags
<1>5. /\ m \in Metas /\ m.kind = k /\ m.name = old.name
      /\ m.type_id = IF binds THEN t ELSE old.type_id
      /\ m.flags = flags
  BY <1>3, <1>4, ExistingMeta DEF Metas
<1>6. /\ kinds' = [kinds EXCEPT ![kind_to_index[k]] = m]
      /\ kind_to_type' = IF binds THEN Put(kind_to_type, k, t) ELSE kind_to_type
      /\ type_to_kind' = IF binds THEN Put(type_to_kind, t, k) ELSE type_to_kind
      /\ tombstoned_count' = IF merges /\ IsTombstoned(old) /\ rv
                             THEN SaturatingDec(tombstoned_count) ELSE tombstoned_count
      /\ Bump(n)
      /\ UNCHANGED <<kind_to_index, name_to_kind, edges>>
  BY <1>1 DEF RegisterExisting
<1>7. m.flags = (old.flags \cup (IF binds THEN {"TYPED"} ELSE {}) \cup b) \ (IF rv THEN {"TOMBSTONED"} ELSE {})
  BY <1>3, <1>5
<1>8. "TOMBSTONED" \notin b /\ "CORE" \notin b
  BY DEF BaseFlags
<1>9. /\ IsTombstoned(m) => IsTombstoned(old)
      /\ IsTombstoned(old) /\ ~IsTombstoned(m) <=> merges /\ IsTombstoned(old) /\ rv
  <2>1. IsTombstoned(m) <=> IsTombstoned(old) /\ ~rv
    BY <1>7, <1>8 DEF IsTombstoned
  <2>2. IsTombstoned(old) /\ rv => merges
    BY <1>3, <1>5, <2>1 DEF IsTombstoned
  <2> QED BY <2>1, <2>2
<1>10. ASSUME FlagsOK(old) PROVE FlagsOK(m)
  <2>1. \A f \in b : f \in {"USER_DEFINED", "TYPED", "STATIC_TYPE", "STATIC_COMPONENT"}
    BY DEF BaseFlags
  <2>2. /\ "STATIC_COMPONENT" \in b => "STATIC_TYPE" \in b
        /\ "STATIC_TYPE" \in b => b # {"USER_DEFINED"}
    BY DEF BaseFlags
  <2>3. t # NoType => m.type_id # NoType
    <3>1. CASE k \in DOMAIN kind_to_type
      <4>1. old.type_id # NoType
        BY <1>2, <3>1, OverwritePlaces, FoundAt DEF BindingsCoherent, Coherent, TableOK, MetaOf
      <4> QED BY <1>5, <3>1, <4>1
    <3>2. CASE k \notin DOMAIN kind_to_type
      BY <1>5, <3>2
    <3> QED BY <3>1, <3>2
  <2>4. old.type_id # NoType => m.type_id # NoType
    BY <1>5
  <2>5. m.type_id # NoType => "TYPED" \in m.flags
    BY <1>5, <1>7, <1>10 DEF FlagsOK
  <2>6. "STATIC_TYPE" \in m.flags => m.type_id # NoType
    <3>1. "STATIC_TYPE" \in m.flags => "STATIC_TYPE" \in old.flags \/ "STATIC_TYPE" \in b
      BY <1>7
    <3> QED BY <1>1, <1>10, <2>2, <2>3, <2>4, <3>1 DEF FlagsOK
  <2>7. "STATIC_COMPONENT" \in m.flags => "STATIC_TYPE" \in m.flags
    BY <1>7, <1>10, <2>2 DEF FlagsOK
  <2>8. "CORE" \in m.flags => ~IsTombstoned(m)
    BY <1>7, <1>8, <1>9, <1>10 DEF FlagsOK
  <2> HIDE DEF m
  <2> QED BY <2>5, <2>6, <2>7, <2>8 DEF FlagsOK
<1>11. /\ n \in 0..2
       /\ n = 0 => m = old /\ ~binds
  <2>1. n \in 0..2 /\ (n = 0 => ~binds /\ ~merges) OBVIOUS
  <2>2. ~binds /\ ~merges => m = old
    BY <1>2, <1>3 DEF Metas
  <2> QED BY <2>1, <2>2
<1>12. old.flags \ {"TOMBSTONED"} \subseteq m.flags
  BY <1>7
<1>13. binds \in BOOLEAN
  OBVIOUS
<1> HIDE DEF m, binds, n, flags, bound
<1> QED BY <1>1, <1>5, <1>6, <1>9, <1>10, <1>11, <1>12, <1>13 DEF binds

(* Registering a known name again keeps vector and maps coherent. *)
LEMMA ExistingPreserves ==
  ASSUME Coherent, BindingsCoherent, ExistingEffect
  PROVE  Coherent' /\ BindingsCoherent'
<1>1. PICK k \in DOMAIN kind_to_index, t \in Types \cup {NoType}, m \in Metas, binds \in BOOLEAN :
        /\ binds = (t # NoType /\ k \notin DOMAIN kind_to_type)
        /\ ~TypeClash(k, t)
        /\ m.kind = k /\ m.name = MetaOf(k).name
        /\ m.type_id = IF binds THEN t ELSE MetaOf(k).type_id
        /\ kinds' = [kinds EXCEPT ![kind_to_index[k]] = m]
        /\ kind_to_type' = IF binds THEN Put(kind_to_type, k, t) ELSE kind_to_type
        /\ type_to_kind' = IF binds THEN Put(type_to_kind, t, k) ELSE type_to_kind
        /\ tombstoned_count' \in {tombstoned_count, SaturatingDec(tombstoned_count)}
        /\ \E n \in 0..2 : Bump(n)
        /\ UNCHANGED <<kind_to_index, name_to_kind, edges>>
  BY ExistingShape
<1>2. kinds' \in Seq(Metas) /\ IndexCoherent' /\ NamesCoherent'
  BY <1>1, OverwriteCoherent
<1>3. tombstoned_count' \in Nat
  BY <1>1 DEF SaturatingDec, Coherent, TableOK
<1>4. version' \in 0..(VersionModulus - 1)
  BY <1>1, BumpTyped DEF Coherent, TableOK
<1>5. CASE ~binds
  <2>1. UNCHANGED maps /\ m.type_id = MetaOf(k).type_id
    BY <1>1, <1>5 DEF maps
  <2>2. BindingsCoherent'
    BY <1>1, <2>1, OverwriteBindings
  <2>3. TableOK'
    BY <1>1, <1>2, <1>3, <1>4, <2>1 DEF Coherent, TableOK, maps
  <2> QED BY <1>2, <2>2, <2>3 DEF Coherent
<1>6. CASE binds
  <2>1. t \in Types /\ t # NoType /\ t \notin DOMAIN type_to_kind /\ k \notin DOMAIN kind_to_type /\ k \in Kinds
    BY <1>1, <1>6 DEF TypeClash, BindingsCoherent, Coherent, TableOK
  <2>2. kind_to_type' = Put(kind_to_type, k, t) /\ type_to_kind' = Put(type_to_kind, t, k)
    BY <1>1, <1>6
  <2>3. TableOK'
    <3>1. /\ DOMAIN type_to_kind' = DOMAIN type_to_kind \cup {t}
          /\ DOMAIN kind_to_type' = DOMAIN kind_to_type \cup {k}
          /\ type_to_kind' \in [DOMAIN type_to_kind' -> Kinds]
          /\ kind_to_type' \in [DOMAIN kind_to_type' -> Types]
      BY <2>1, <2>2 DEF Put, Coherent, TableOK
    <3> QED BY <1>1, <1>2, <1>3, <1>4, <2>1, <3>1 DEF Coherent, TableOK
  <2>4. BindingsCoherent'
    <3>1. m.type_id = t
      BY <1>1, <1>6
    <3>2. /\ DOMAIN kinds' = DOMAIN kinds
          /\ \A i \in DOMAIN kinds : \/ kinds'[i] = kinds[i] /\ kinds[i].kind # k
                                     \/ kinds'[i].kind = k /\ kinds'[i].type_id = t
      BY <1>1, <3>1, OverwritePlaces
    <3> QED BY <1>1, <2>1, <2>2, <3>2 DEF BindingsCoherent, Put
  <2> QED BY <1>2, <2>3, <2>4 DEF Coherent
<1> QED BY <1>5, <1>6

(* Registering a new kind keeps vector and maps coherent. *)
LEMMA NewPreserves ==
  ASSUME Coherent, BindingsCoherent, NewEffect
  PROVE  Coherent' /\ BindingsCoherent'
<1>1. PICK n \in Names \ DOMAIN name_to_kind, t \in Types \cup {NoType}, b \in BaseFlags :
        /\ Hash[n] \notin DOMAIN kind_to_index
        /\ t \notin DOMAIN type_to_kind
        /\ RegisterNew(n, Hash[n], t, b)
  BY DEF NewEffect
<1> DEFINE k == Hash[n]
           m == [kind |-> k, name |-> n, type_id |-> t, flags |-> b]
<1>2. k \in Kinds
  BY AtomsAssumption
<1>3. m \in Metas
  BY <1>2 DEF Metas, BaseFlags, Flags
<1>4. /\ kinds' = Append(kinds, m)
      /\ kind_to_index' = Put(kind_to_index, m.kind, Len(kinds) + 1)
      /\ name_to_kind' = Put(name_to_kind, m.name, m.kind)
      /\ kind_to_type' = IF t # NoType THEN Put(kind_to_type, k, t) ELSE kind_to_type
      /\ type_to_kind' = IF t # NoType THEN Put(type_to_kind, t, k) ELSE type_to_kind
      /\ Bump(1)
      /\ UNCHANGED <<edges, tombstoned_count>>
  BY <1>1 DEF RegisterNew
<1>5. kinds' \in Seq(Metas) /\ IndexCoherent' /\ NamesCoherent'
  BY <1>1, <1>3, <1>4, AppendCoherent
<1>6. version' \in 0..(VersionModulus - 1)
  BY <1>4, BumpTyped DEF Coherent, TableOK
<1>7. /\ DOMAIN kinds' = DOMAIN kinds \cup {Len(kinds) + 1}
      /\ kinds'[Len(kinds) + 1] = m
      /\ \A i \in DOMAIN kinds : kinds'[i] = kinds[i] /\ kinds[i].kind # k
  BY <1>1, <1>3, <1>4 DEF Coherent, TableOK, IndexCoherent
<1>8. k \notin DOMAIN kind_to_type
  BY <1>1 DEF BindingsCoherent
<1>9. TableOK'
  <2>1. /\ kind_to_index' \in [DOMAIN kind_to_index' -> Nat \ {0}] /\ DOMAIN kind_to_index' \subseteq Kinds
        /\ name_to_kind' \in [DOMAIN name_to_kind' -> Kinds] /\ DOMAIN name_to_kind' \subseteq Names
    BY <1>2, <1>4 DEF Put, Coherent, TableOK
  <2>2. CASE t = NoType
    BY <1>4, <1>5, <1>6, <2>1, <2>2 DEF Coherent, TableOK
  <2>3. CASE t # NoType
    <3>1. /\ kind_to_type' = Put(kind_to_type, k, t) /\ type_to_kind' = Put(type_to_kind, t, k)
          /\ t \in Types
      BY <1>4, <2>3
    <3>2. /\ type_to_kind' \in [DOMAIN type_to_kind' -> Kinds] /\ DOMAIN type_to_kind' \subseteq Types
          /\ kind_to_type' \in [DOMAIN kind_to_type' -> Types] /\ DOMAIN kind_to_type' \subseteq Kinds
      BY <1>2, <3>1 DEF Put, Coherent, TableOK
    <3> QED BY <1>4, <1>5, <1>6, <2>1, <3>2 DEF Coherent, TableOK
  <2> QED BY <2>2, <2>3
<1>10. BindingsCoherent'
  <2>1. kind_to_index' = Put(kind_to_index, k, Len(kinds) + 1) BY <1>4
  <2>2. m.kind = k /\ m.type_id = t OBVIOUS
  <2> HIDE DEF m
  <2>3. CASE t = NoType
    <3>1. kind_to_type' = kind_to_type /\ type_to_kind' = type_to_kind
      BY <1>4, <2>3
    <3> QED BY <1>7, <1>8, <2>1, <2>2, <2>3, <3>1 DEF BindingsCoherent, Put
  <2>4. CASE t # NoType
    <3>1. kind_to_type' = Put(kind_to_type, k, t) /\ type_to_kind' = Put(type_to_kind, t, k)
      BY <1>4, <2>4
    <3> QED BY <1>1, <1>7, <1>8, <2>1, <2>2, <2>4, <3>1 DEF BindingsCoherent, Put
  <2> QED BY <2>3, <2>4
<1> QED BY <1>5, <1>9, <1>10 DEF Coherent

(* Changing a kind's flags keeps vector and maps coherent. *)
LEMMA FlagsPreserve ==
  ASSUME Coherent, BindingsCoherent, NEW k \in DOMAIN kind_to_index, NEW f \in SUBSET Flags,
         kinds' = [kinds EXCEPT ![kind_to_index[k]].flags = f],
         tombstoned_count' \in Nat, edges' \subseteq edges,
         version' = version \/ Bump(1), UNCHANGED maps
  PROVE  Coherent' /\ BindingsCoherent'
<1> DEFINE m == [MetaOf(k) EXCEPT !.flags = f]
<1>1. m \in Metas /\ m.kind = k /\ m.name = MetaOf(k).name /\ m.type_id = MetaOf(k).type_id
  BY FoundAt DEF Metas
<1>2. kinds' = [kinds EXCEPT ![kind_to_index[k]] = m]
  BY DEF MetaOf
<1> HIDE DEF m
<1>3. kinds' \in Seq(Metas) /\ IndexCoherent' /\ NamesCoherent' /\ BindingsCoherent'
  BY <1>1, <1>2, OverwriteCoherent, OverwriteBindings DEF maps
<1>4. version' \in 0..(VersionModulus - 1)
  BY BumpTyped DEF Coherent, TableOK
<1> QED BY <1>3, <1>4 DEF Coherent, TableOK, maps

(* tombstone_kind keeps vector and maps coherent. *)
LEMMA TombstonePreserves ==
  ASSUME Coherent, BindingsCoherent, TombstoneEffect
  PROVE  Coherent' /\ BindingsCoherent'
<1>1. PICK k \in DOMAIN kind_to_index : Tombstone(k)
  BY DEF TombstoneEffect
<1>2. MetaOf(k).flags \cup {"TOMBSTONED"} \in SUBSET Flags
  BY FoundAt DEF Metas, Flags
<1>3. kinds' = [kinds EXCEPT ![kind_to_index[k]].flags = MetaOf(k).flags \cup {"TOMBSTONED"}]
  BY <1>1 DEF Tombstone, MetaOf
<1>4. tombstoned_count' \in Nat /\ edges' \subseteq edges /\ Bump(1) /\ UNCHANGED maps
  BY <1>1 DEF Tombstone, Coherent, TableOK
<1> QED BY <1>2, <1>3, <1>4, FlagsPreserve

(* revive_kind keeps vector and maps coherent. *)
LEMMA RevivePreserves ==
  ASSUME Coherent, BindingsCoherent, ReviveEffect
  PROVE  Coherent' /\ BindingsCoherent'
<1>1. PICK k \in DOMAIN kind_to_index : Revive(k)
  BY DEF ReviveEffect
<1>2. MetaOf(k).flags \ {"TOMBSTONED"} \in SUBSET Flags
  BY FoundAt DEF Metas
<1>3. kinds' = [kinds EXCEPT ![kind_to_index[k]].flags = MetaOf(k).flags \ {"TOMBSTONED"}]
  BY <1>1 DEF Revive, MetaOf
<1>4. /\ tombstoned_count' \in Nat /\ edges' \subseteq edges
      /\ version' = version \/ Bump(1)
      /\ UNCHANGED maps
  BY <1>1 DEF Revive, SaturatingDec, Coherent, TableOK
<1> QED BY <1>2, <1>3, <1>4, FlagsPreserve

(* unregister_kind keeps vector and maps coherent, the type bindings
   included. *)
LEMMA UnregisterPreserves ==
  ASSUME Coherent, BindingsCoherent, UnregisterEffect
  PROVE  Coherent' /\ BindingsCoherent'
<1>1. PICK k \in DOMAIN kind_to_index : Unregister(k)
  BY DEF UnregisterEffect
<1> DEFINE idx == kind_to_index[k]
           type == kinds[idx].type_id
           last == kinds[Len(kinds)]
<1>2. kinds' \in Seq(Metas) /\ IndexCoherent' /\ NamesCoherent'
  BY <1>1, SwapRemoveCoherent
<1>3. /\ idx \in 1..Len(kinds) /\ DOMAIN kinds = 1..Len(kinds)
      /\ kinds[idx] \in Metas /\ kinds[idx].kind = k /\ k \in Kinds
      /\ last \in Metas
  BY FoundAt DEF MetaOf, Coherent, TableOK
<1>4. /\ kind_to_index' = IF idx < Len(kinds) THEN Put(Without(kind_to_index, {k}), last.kind, idx)
                          ELSE Without(kind_to_index, {k})
      /\ name_to_kind' = Without(name_to_kind, {kinds[idx].name})
      /\ kind_to_type' = IF type # NoType THEN Without(kind_to_type, {k}) ELSE kind_to_type
      /\ type_to_kind' = IF type # NoType THEN Without(type_to_kind, {type}) ELSE type_to_kind
      /\ edges' \subseteq edges
      /\ tombstoned_count' \in {tombstoned_count, SaturatingDec(tombstoned_count)}
      /\ Bump(1)
      /\ kinds' = SwapRemove(kinds, idx)
  BY <1>1 DEF Unregister, PatchMoved
<1>5. tombstoned_count' \in Nat
  BY <1>4 DEF SaturatingDec, Coherent, TableOK
<1>6. version' \in 0..(VersionModulus - 1)
  BY <1>4, BumpTyped DEF Coherent, TableOK
<1>7. TableOK'
  <2>1. /\ last.kind \in Kinds /\ idx \in Nat \ {0}
    BY <1>3 DEF Metas
  <2>2. kind_to_index' \in [DOMAIN kind_to_index' -> Nat \ {0}] /\ DOMAIN kind_to_index' \subseteq Kinds
    BY <1>4, <2>1 DEF Put, Without, Restrict, Coherent, TableOK
  <2>3. name_to_kind' \in [DOMAIN name_to_kind' -> Kinds] /\ DOMAIN name_to_kind' \subseteq Names
    BY <1>4 DEF Without, Restrict, Coherent, TableOK
  <2>4. kind_to_type' \in [DOMAIN kind_to_type' -> Types] /\ DOMAIN kind_to_type' \subseteq Kinds
    BY <1>4 DEF Without, Restrict, Coherent, TableOK
  <2>5. type_to_kind' \in [DOMAIN type_to_kind' -> Kinds] /\ DOMAIN type_to_kind' \subseteq Types
    BY <1>4 DEF Without, Restrict, Coherent, TableOK
  <2> QED BY <1>2, <1>4, <1>5, <1>6, <2>2, <2>3, <2>4, <2>5 DEF Coherent, TableOK
<1>8. BindingsCoherent'
  <2>1. \A i \in DOMAIN kinds' : \E j \in DOMAIN kinds : kinds'[i] = kinds[j] /\ kinds[j].kind # k
    <3>1. ASSUME NEW i \in DOMAIN kinds'
          PROVE  \E j \in DOMAIN kinds : j # idx /\ kinds'[i] = kinds[j]
      BY <1>3, <1>4 DEF SwapRemove
    <3>2. \A j \in DOMAIN kinds : j # idx => kinds[j].kind # k
      BY DEF Coherent, IndexCoherent
    <3> QED BY <3>1, <3>2
  <2>2. DOMAIN kind_to_index \ {k} \subseteq DOMAIN kind_to_index'
    BY <1>4 DEF Put, Without, Restrict
  <2>3. /\ type # NoType => /\ k \in DOMAIN kind_to_type /\ kind_to_type[k] = type
                            /\ type \in DOMAIN type_to_kind /\ type_to_kind[type] = k
        /\ type = NoType => k \notin DOMAIN kind_to_type
    BY <1>3 DEF BindingsCoherent
  <2>4. /\ DOMAIN kind_to_type' = DOMAIN kind_to_type \ {k}
        /\ \A x \in DOMAIN kind_to_type' : kind_to_type'[x] = kind_to_type[x]
    BY <1>4, <2>3 DEF Without, Restrict
  <2>5. /\ DOMAIN type_to_kind' = DOMAIN type_to_kind \ {t \in DOMAIN type_to_kind : type_to_kind[t] = k}
        /\ \A t \in DOMAIN type_to_kind' : type_to_kind'[t] = type_to_kind[t]
    <3>1. CASE type # NoType
      BY <1>4, <2>3, <3>1 DEF Without, Restrict, BindingsCoherent
    <3>2. CASE type = NoType
      <4>1. \A t \in DOMAIN type_to_kind : type_to_kind[t] # k
        BY <2>3, <3>2 DEF BindingsCoherent
      <4>2. type_to_kind' = type_to_kind
        BY <1>4, <3>2
      <4> QED BY <4>1, <4>2
    <3> QED BY <3>1, <3>2
  <2> HIDE DEF type, idx, last
  <2>6. ASSUME NEW i \in DOMAIN kinds'
        PROVE  IF kinds'[i].type_id = NoType THEN kinds'[i].kind \notin DOMAIN kind_to_type'
               ELSE kinds'[i].kind \in DOMAIN kind_to_type' /\ kind_to_type'[kinds'[i].kind] = kinds'[i].type_id
    <3>1. PICK j \in DOMAIN kinds : kinds'[i] = kinds[j] /\ kinds[j].kind # k
      BY <2>1
    <3> QED BY <2>4, <3>1 DEF BindingsCoherent
  <2>7. ASSUME NEW x \in DOMAIN kind_to_type'
        PROVE  /\ x \in DOMAIN kind_to_index'
               /\ kind_to_type'[x] \in DOMAIN type_to_kind'
               /\ type_to_kind'[kind_to_type'[x]] = x
    BY <2>2, <2>4, <2>5 DEF BindingsCoherent
  <2>8. ASSUME NEW t \in DOMAIN type_to_kind'
        PROVE  /\ type_to_kind'[t] \in DOMAIN kind_to_type'
               /\ kind_to_type'[type_to_kind'[t]] = t
    BY <2>4, <2>5 DEF BindingsCoherent
  <2> QED BY <2>6, <2>7, <2>8 DEF BindingsCoherent
<1> QED BY <1>2, <1>7, <1>8 DEF Coherent

(* Two places never record the same type. *)
LEMMA TypesDistinct ==
  ASSUME BindingsCoherent, IndexCoherent, NEW i \in DOMAIN kinds, NEW j \in DOMAIN kinds,
         kinds[i].type_id # NoType, kinds[i].type_id = kinds[j].type_id
  PROVE  i = j
BY DEF BindingsCoherent, IndexCoherent

(* unregister_namespace keeps vector and maps coherent, the rebuilt type
   bindings included. *)
LEMMA NamespacePreserves ==
  ASSUME Coherent, BindingsCoherent, NamespaceEffect
  PROVE  Coherent' /\ BindingsCoherent'
<1>1. PICK places \in SUBSET DOMAIN kinds : UnregisterPlaces(places)
  BY DEF NamespaceEffect
<1> DEFINE left == DOMAIN kinds \ places
           typed == {i \in left : kinds[i].type_id # NoType}
           at(k) == CHOOSE i \in left : kinds[i].kind = k
           named(n) == CHOOSE i \in left : kinds[i].name = n
           bound(t) == CHOOSE i \in left : kinds[i].type_id = t
<1>2. kinds' \in Seq(Metas) /\ IndexCoherent' /\ NamesCoherent'
  BY <1>1, UnregisterPlacesCoherent
<1>3. kinds \in Seq(Metas) /\ DOMAIN kinds = 1..Len(kinds) /\ left \in SUBSET (1..Len(kinds))
  BY DEF Coherent, TableOK
<1>4. \A i \in left : kinds[i] \in Metas
  BY <1>3
<1>5. /\ \A i \in left : at(kinds[i].kind) = i /\ named(kinds[i].name) = i
      /\ \A i \in typed : bound(kinds[i].type_id) = i
  <2>1. \A i, j \in left : /\ kinds[i].kind = kinds[j].kind => i = j
                           /\ kinds[i].name = kinds[j].name => i = j
                           /\ kinds[i].type_id = kinds[j].type_id /\ i \in typed => i = j
    BY <1>3, TypesDistinct DEF Coherent, IndexCoherent, NamesCoherent
  <2> QED BY <2>1
<1>6. /\ kind_to_index' = [k \in {kinds[i].kind : i \in left} |-> Rank(left, at(k))]
      /\ name_to_kind' = [n \in {kinds[i].name : i \in left} |-> kinds[named(n)].kind]
      /\ kind_to_type' = [k \in {kinds[i].kind : i \in typed} |-> kinds[at(k)].type_id]
      /\ type_to_kind' = [t \in {kinds[i].type_id : i \in typed} |-> kinds[bound(t)].kind]
      /\ edges' \subseteq edges
      /\ tombstoned_count' = Cardinality({i \in left : IsTombstoned(kinds[i])})
      /\ Bump(1)
      /\ kinds' = Retain(kinds, left)
  BY <1>1 DEF UnregisterPlaces
<1> HIDE DEF left, at, named, bound
<1>7. /\ DOMAIN kind_to_index' = {kinds[i].kind : i \in left}
      /\ DOMAIN name_to_kind' = {kinds[i].name : i \in left}
      /\ \A i \in left : /\ kind_to_index'[kinds[i].kind] = Rank(left, i)
                         /\ name_to_kind'[kinds[i].name] = kinds[i].kind
  BY <1>5, <1>6
<1>8. /\ DOMAIN kind_to_type' = {kinds[i].kind : i \in typed}
      /\ DOMAIN type_to_kind' = {kinds[i].type_id : i \in typed}
      /\ \A i \in typed : /\ kind_to_type'[kinds[i].kind] = kinds[i].type_id
                          /\ type_to_kind'[kinds[i].type_id] = kinds[i].kind
  BY <1>5, <1>6
<1>9. /\ tombstoned_count' \in Nat
  <2> DEFINE T == {i \in left : IsTombstoned(kinds[i])}
  <2>1. Len(kinds) \in Nat /\ T \in SUBSET (1..Len(kinds))
    <3>1. Len(kinds) \in Nat BY <1>3
    <3>2. T \subseteq left OBVIOUS
    <3> HIDE DEF T
    <3> QED BY <1>3, <3>1, <3>2
  <2>2. Cardinality(T) \in Nat BY <2>1, RankBijection
  <2> QED BY <1>6, <2>2
<1>10. version' \in 0..(VersionModulus - 1)
  BY <1>6, BumpTyped DEF Coherent, TableOK
<1>11. TableOK'
  <2>1. \A i \in left : Rank(left, i) \in Nat \ {0}
    <3>1. Len(kinds) \in Nat BY <1>3
    <3>2. Cardinality(left) \in Nat /\ \A i \in left : Rank(left, i) \in 1..Cardinality(left)
      BY <1>3, <3>1, RankBijection
    <3> QED BY <3>2
  <2>2. kind_to_index' \in [DOMAIN kind_to_index' -> Nat \ {0}] /\ DOMAIN kind_to_index' \subseteq Kinds
    <3>1. \A x \in DOMAIN kind_to_index' : kind_to_index'[x] \in Nat \ {0} /\ x \in Kinds
      BY <1>4, <1>7, <2>1 DEF Metas
    <3>2. kind_to_index' = [x \in DOMAIN kind_to_index' |-> kind_to_index'[x]]
      BY <1>6
    <3> QED BY <3>1, <3>2
  <2>3. name_to_kind' \in [DOMAIN name_to_kind' -> Kinds] /\ DOMAIN name_to_kind' \subseteq Names
    <3>1. \A x \in DOMAIN name_to_kind' : name_to_kind'[x] \in Kinds /\ x \in Names
      BY <1>4, <1>7 DEF Metas
    <3>2. name_to_kind' = [x \in DOMAIN name_to_kind' |-> name_to_kind'[x]]
      BY <1>6
    <3> QED BY <3>1, <3>2
  <2>4. kind_to_type' \in [DOMAIN kind_to_type' -> Types] /\ DOMAIN kind_to_type' \subseteq Kinds
    <3>1. \A x \in DOMAIN kind_to_type' : kind_to_type'[x] \in Types /\ x \in Kinds
      BY <1>4, <1>8 DEF Metas
    <3>2. kind_to_type' = [x \in DOMAIN kind_to_type' |-> kind_to_type'[x]]
      BY <1>6
    <3> QED BY <3>1, <3>2
  <2>5. type_to_kind' \in [DOMAIN type_to_kind' -> Kinds] /\ DOMAIN type_to_kind' \subseteq Types
    <3>1. \A x \in DOMAIN type_to_kind' : type_to_kind'[x] \in Kinds /\ x \in Types
      BY <1>4, <1>8 DEF Metas
    <3>2. type_to_kind' = [x \in DOMAIN type_to_kind' |-> type_to_kind'[x]]
      BY <1>6
    <3> QED BY <3>1, <3>2
  <2> QED BY <1>2, <1>6, <1>9, <1>10, <2>2, <2>3, <2>4, <2>5 DEF Coherent, TableOK
<1>12. BindingsCoherent'
  <2>1. \A r \in DOMAIN kinds' : \E i \in left : kinds'[r] = kinds[i]
    <3>1. /\ DOMAIN Retain(kinds, left) = 1..Cardinality(left)
          /\ \A r \in 1..Cardinality(left) : \E i \in left : Retain(kinds, left)[r] = kinds[i]
      BY <1>3, RetainPlaces
    <3> QED BY <1>6, <3>1
  <2>2. ASSUME NEW r \in DOMAIN kinds'
        PROVE  IF kinds'[r].type_id = NoType THEN kinds'[r].kind \notin DOMAIN kind_to_type'
               ELSE kinds'[r].kind \in DOMAIN kind_to_type' /\ kind_to_type'[kinds'[r].kind] = kinds'[r].type_id
    <3>1. PICK i \in left : kinds'[r] = kinds[i]
      BY <2>1
    <3>2. \A j \in typed : kinds[j].kind = kinds[i].kind => j = i
      BY <1>5
    <3> QED BY <1>8, <3>1, <3>2
  <2>3. ASSUME NEW k \in DOMAIN kind_to_type'
        PROVE  /\ k \in DOMAIN kind_to_index'
               /\ kind_to_type'[k] \in DOMAIN type_to_kind'
               /\ type_to_kind'[kind_to_type'[k]] = k
    BY <1>7, <1>8
  <2>4. ASSUME NEW t \in DOMAIN type_to_kind'
        PROVE  /\ type_to_kind'[t] \in DOMAIN kind_to_type'
               /\ kind_to_type'[type_to_kind'[t]] = t
    BY <1>8
  <2> QED BY <2>2, <2>3, <2>4 DEF BindingsCoherent
<1> QED BY <1>2, <1>11, <1>12 DEF Coherent

(* Edge edits only touch edges, which stay triples of kinds. *)
LEMMA EdgePreserves ==
  ASSUME Coherent, BindingsCoherent, EdgeEffect
  PROVE  Coherent' /\ BindingsCoherent'
<1>1. version' \in 0..(VersionModulus - 1)
  BY BumpTyped DEF EdgeEffect, Coherent, TableOK
<1>2. edges' \subseteq Triples
  BY DEF EdgeEffect, Coherent, TableOK
<1> QED BY <1>1, <1>2 DEF EdgeEffect, maps, Coherent, TableOK, IndexCoherent, NamesCoherent, BindingsCoherent

-----------------------------------------------------------------------------
(* What a step answers and what it leaves pending.                         *)

(* The first fault is one of the verdicts, or Ok. *)
LEMMA FirstFaultTyped ==
  ASSUME NEW n \in Nat, NEW T, NEW v \in [1..n -> T], "Ok" \in T
  PROVE  FirstFault(v) \in T
<1> DEFINE faults == {i \in DOMAIN v : v[i] # "Ok"}
<1>1. CASE faults = {} BY <1>1 DEF FirstFault
<1>2. CASE faults # {}
  <2>1. Min(faults) \in faults BY <1>2, MinInSet
  <2> QED BY <1>2, <2>1 DEF FirstFault
<1> QED BY <1>1, <1>2

(* Every check answers with an error of the code, or Ok. *)
LEMMA VerdictTyped ==
  ASSUME NEW name, NEW kind, NEW type, NEW base, NEW s
  PROVE  /\ RegisterVerdict(name, kind, type, base) \in Errors \cup {"Ok"}
         /\ DeclarationVerdict(s, kind) \in Errors \cup {"Ok"}
         /\ PinFault(name) \in Errors \cup {"Ok"}
         /\ ActiveFault(kind) \in Errors \cup {"Ok"}
         /\ KnownFault(kind) \in Errors \cup {"Ok"}
<1> USE DEF Errors
<1>1. RegisterVerdict(name, kind, type, base) \in Errors \cup {"Ok"}
  BY DEF RegisterVerdict
<1>2. DeclarationVerdict(s, kind) \in Errors \cup {"Ok"}
  BY DEF DeclarationVerdict
<1>3. /\ PinFault(name) \in Errors \cup {"Ok"}
      /\ ActiveFault(kind) \in Errors \cup {"Ok"}
      /\ KnownFault(kind) \in Errors \cup {"Ok"}
  BY DEF PinFault, ActiveFault, KnownFault
<1> QED BY <1>1, <1>2, <1>3

(* Registering answers with an outcome. *)
LEMMA RegisterOutcome ==
  ASSUME NEW n, NEW k, NEW t, NEW b, NEW rv, Register(n, k, t, b, rv)
  PROVE  outcome' \in Outcomes
BY VerdictTyped DEF Register, Fail, Outcomes

(* A slice has three ends for every edge. *)
LEMMA EndpointsShape ==
  ASSUME NEW g \in EdgeGroups
  PROVE  DOMAIN Endpoints(g) = 1..(3 * Len(g)) /\ 3 * Len(g) \in Nat
<1>1. g \in Seq(Triples) BY InputAssumption
<1> QED BY <1>1 DEF Endpoints

(* Whatever is called, it answers with an outcome. *)
LEMMA OutcomeTyped ==
  ASSUME IInv, [Next]_vars
  PROVE  outcome' \in Outcomes
<1> DEFINE Verdicts == Errors \cup {"Ok"}
<1>0. Verdicts \subseteq Outcomes /\ "Changed" \in Outcomes /\ "Unchanged" \in Outcomes /\ outcome \in Outcomes
  BY DEF Outcomes, IInv
<1>a. \A yes \in BOOLEAN : Changes(yes) => outcome' \in Outcomes
  BY <1>0 DEF Changes
<1>1. ASSUME NEW s \in Spellings, RegisterKind(s) PROVE outcome' \in Outcomes
  BY <1>1, RegisterOutcome DEF RegisterKind, Fail, Outcomes, Errors
<1>2. ASSUME NEW g \in ConstGroups, NEW i \in DOMAIN g, RegisterConst(g[i].name, g[i].kind)
      PROVE  outcome' \in Outcomes
  BY <1>2, RegisterOutcome, VerdictTyped DEF RegisterConst, Fail, Outcomes
<1>3. ASSUME NEW g \in ConstGroups, RegisterConsts(g) PROVE outcome' \in Outcomes
  <2> DEFINE verdicts == [i \in 1..Len(g) |-> GroupVerdict(g, i)]
  <2>1. Len(g) \in Nat BY InputAssumption
  <2>2. \A i : GroupVerdict(g, i) \in Verdicts
    BY VerdictTyped DEF GroupVerdict, Errors
  <2>3. verdicts \in [1..Len(g) -> Verdicts]
    BY <2>2
  <2>4. FirstFault(verdicts) \in Verdicts
    <3> HIDE DEF verdicts, Verdicts
    <3>1. "Ok" \in Verdicts BY DEF Verdicts
    <3> QED BY <2>1, <2>3, <3>1, FirstFaultTyped
  <2> QED BY <1>3, <2>4 DEF RegisterConsts, Fail, Outcomes
<1>4. CASE RegisterValidatedConst
  BY <1>4, RegisterOutcome DEF RegisterValidatedConst
<1>5. ASSUME NEW k \in Kinds, TombstoneKind(k) PROVE outcome' \in Outcomes
  BY <1>5 DEF TombstoneKind, Fail, Changes, Outcomes, Errors
<1>6. ASSUME NEW k \in Kinds, ReviveKind(k) PROVE outcome' \in Outcomes
  BY <1>6 DEF ReviveKind, Fail, Changes, Outcomes, Errors
<1>7. ASSUME NEW t \in Types, NEW s \in Spellings, TypedKindNamed(t, s) PROVE outcome' \in Outcomes
  BY <1>7, RegisterOutcome DEF TypedKindNamed, Fail, Outcomes, Errors
<1>8. ASSUME NEW t \in StaticTypes, NEW f, BindStaticType(t, f) PROVE outcome' \in Outcomes
  BY <1>8, RegisterOutcome DEF BindStaticType, StaticVerdict, Fail, Outcomes, Errors
<1>9. ASSUME NEW k \in Kinds, UnregisterKind(k) PROVE outcome' \in Outcomes
  BY <1>9, VerdictTyped DEF UnregisterKind, Fail, Changes, Outcomes, Errors
<1>10. ASSUME NEW n \in Namespaces, UnregisterNamespace(n) PROVE outcome' \in Outcomes
  <2>1. NamespaceFault[n] \in Verdicts
    BY NamespaceAssumption DEF Errors
  <2>2. \A m : PinFault(m) \in Verdicts
    BY VerdictTyped
  <2> QED BY <1>0, <1>10, <2>1, <2>2 DEF UnregisterNamespace, Fail, Changes
<1>11. ASSUME NEW n \in Nat, NEW v \in [1..n -> Verdicts], NEW e, EditEdges(v, e)
       PROVE  outcome' \in Outcomes
  <2>1. FirstFault(v) \in Verdicts
    <3>1. "Ok" \in Verdicts OBVIOUS
    <3> HIDE DEF Verdicts
    <3> QED BY <3>1, FirstFaultTyped
  <2> QED BY <1>0, <1>11, <2>1 DEF EditEdges, Fail, Changes
<1>12. ASSUME NEW g \in EdgeGroups, AddEdges(g) \/ RemoveEdges(g) PROVE outcome' \in Outcomes
  <2> DEFINE n == 3 * Len(g)
             active == [i \in DOMAIN Endpoints(g) |-> ActiveFault(Endpoints(g)[i])]
             known == [i \in DOMAIN Endpoints(g) |-> KnownFault(Endpoints(g)[i])]
  <2>1. n \in Nat /\ active \in [1..n -> Verdicts] /\ known \in [1..n -> Verdicts]
    BY EndpointsShape, VerdictTyped
  <2>2. EditEdges(active, edges \cup Range(g)) \/ EditEdges(known, edges \ Range(g))
    BY <1>12 DEF AddEdges, RemoveEdges
  <2> HIDE DEF n, active, known
  <2> QED BY <1>11, <2>1, <2>2
<1>13. CASE UnnamedTypedKind
  BY <1>13 DEF UnnamedTypedKind, Fail, Outcomes, Errors
<1>14. CASE UNCHANGED vars
  BY <1>0, <1>14 DEF vars
<1> QED
  BY <1>1, <1>2, <1>3, <1>4, <1>5, <1>6, <1>7, <1>8, <1>9, <1>10, <1>12, <1>13, <1>14
  DEF Next, RegisterSemanticType, BindStaticComponent

(* Only register_consts leaves declarations pending, and while it does no
   other call can interfere.                                               *)
LEMMA PendingPreserved ==
  ASSUME IInv, [Next]_vars
  PROVE  validated' \in Seq(Declarations) /\ PendingConsistent'
<1>1. ASSUME NEW g \in ConstGroups, RegisterConsts(g), validated' = g, UNCHANGED state,
             FirstFault([i \in 1..Len(g) |-> GroupVerdict(g, i)]) = "Ok"
      PROVE  validated' \in Seq(Declarations) /\ PendingConsistent'
  <2> DEFINE name(i) == Canon[g[i].name]
             kind(i) == g[i].kind
  <2>1. g \in Seq(Declarations) /\ Len(g) \in Nat /\ DOMAIN g = 1..Len(g)
    BY InputAssumption
  <2>2. \A i \in 1..Len(g) : GroupVerdict(g, i) = "Ok"
    <3> DEFINE v == [i \in 1..Len(g) |-> GroupVerdict(g, i)]
    <3>1. DOMAIN v = 1..Len(g) /\ FirstFault(v) = "Ok" BY <1>1
    <3>2. \A i \in 1..Len(g) : v[i] = GroupVerdict(g, i) OBVIOUS
    <3> HIDE DEF v
    <3> QED BY <2>1, <3>1, <3>2, FirstFaultOk
  <2>3. ASSUME NEW i \in 1..Len(g)
        PROVE  /\ name(i) \in Names \ ReservedNames
               /\ Hash[name(i)] = kind(i)
               /\ kind(i) \in DOMAIN kind_to_index => name(i) \in DOMAIN name_to_kind
               /\ \A j \in 1..(i-1) : kind(j) = kind(i) => name(j) = name(i)
    <3>1. DeclarationVerdict(g[i].name, g[i].kind) = "Ok"
      BY <2>2 DEF GroupVerdict
    <3>2. \A j \in 1..(i-1) : kind(j) = kind(i) => name(j) = name(i)
      BY <2>2, <3>1 DEF GroupVerdict
    <3>3. name(i) \in Names \cup {NoName}
      <4>1. g[i] \in Declarations BY <2>1
      <4> QED BY <4>1, AtomsAssumption DEF Declarations
    <3>4. name(i) # NoName /\ Hash[name(i)] = kind(i) /\ name(i) \notin ReservedNames
      BY <3>1 DEF DeclarationVerdict
    <3>5. ASSUME kind(i) \in DOMAIN kind_to_index PROVE name(i) \in DOMAIN name_to_kind
      <4>1. MetaOf(kind(i)).name = name(i)
        BY <3>1, <3>5 DEF DeclarationVerdict
      <4> QED BY <3>5, <4>1, FoundAt DEF IInv
    <3> QED BY <3>2, <3>3, <3>4, <3>5
  <2>4. \A i, j \in 1..Len(g) : kind(j) = kind(i) => name(j) = name(i)
    <3>1. ASSUME NEW i \in 1..Len(g), NEW j \in 1..Len(g), kind(j) = kind(i)
          PROVE  name(j) = name(i)
      <4>1. j \in 1..(i-1) \/ i \in 1..(j-1) \/ i = j OBVIOUS
      <4> QED BY <2>3, <3>1, <4>1
    <3> QED BY <3>1
  <2>5. kind_to_index' = kind_to_index /\ name_to_kind' = name_to_kind
    BY <1>1 DEF state, maps
  <2> QED BY <1>1, <2>1, <2>3, <2>4, <2>5 DEF PendingConsistent
<1>2. CASE RegisterValidatedConst
  <2> DEFINE n == Canon[Head(validated).name]
             k == Head(validated).kind
  <2>1. /\ validated \in Seq(Declarations) /\ validated # <<>>
        /\ Len(validated) \in Nat /\ DOMAIN validated = 1..Len(validated)
        /\ 1 \in DOMAIN validated /\ Head(validated) = validated[1]
    BY <1>2 DEF RegisterValidatedConst, IInv
  <2>2. CASE validated' = <<>>
    BY <2>2 DEF PendingConsistent
  <2>3. CASE validated' = Tail(validated)
    <3>1. /\ validated' \in Seq(Declarations)
          /\ \A i \in DOMAIN validated' : i + 1 \in DOMAIN validated /\ validated'[i] = validated[i + 1]
      BY <2>1, <2>3
    <3>2. \/ UNCHANGED <<kind_to_index, name_to_kind>>
          \/ /\ kind_to_index' = Put(kind_to_index, k, Len(kinds) + 1)
             /\ name_to_kind' = Put(name_to_kind, n, k)
      BY <1>2 DEF RegisterValidatedConst, Register, Fail, RegisterExisting, RegisterNew, state, maps
    <3>3. \/ DOMAIN kind_to_index' = DOMAIN kind_to_index /\ DOMAIN name_to_kind' = DOMAIN name_to_kind
          \/ /\ DOMAIN kind_to_index' = DOMAIN kind_to_index \cup {k}
             /\ DOMAIN name_to_kind' = DOMAIN name_to_kind \cup {n}
      BY <3>2 DEF Put
    <3>4. ASSUME NEW i \in DOMAIN validated
          PROVE  /\ Canon[validated[i].name] \in Names \ ReservedNames
                 /\ Hash[Canon[validated[i].name]] = validated[i].kind
                 /\ validated[i].kind \in DOMAIN kind_to_index => Canon[validated[i].name] \in DOMAIN name_to_kind
                 /\ validated[i].kind = k => Canon[validated[i].name] = n
                 /\ \A j \in DOMAIN validated : validated[j].kind = validated[i].kind
                       => Canon[validated[j].name] = Canon[validated[i].name]
      BY <2>1 DEF IInv, PendingConsistent
    <3> HIDE DEF n, k
    <3> QED BY <3>1, <3>3, <3>4 DEF PendingConsistent
  <2> QED BY <1>2, <2>2, <2>3 DEF RegisterValidatedConst
<1>3. CASE validated = <<>> /\ UNCHANGED validated
  BY <1>3 DEF PendingConsistent, IInv
<1>4. CASE UNCHANGED vars
  BY <1>4 DEF vars, state, maps, IInv, PendingConsistent
<1>5. ASSUME NEW g \in ConstGroups, RegisterConsts(g)
      PROVE  validated' \in Seq(Declarations) /\ PendingConsistent'
  <2>1. CASE validated = <<>> /\ UNCHANGED validated BY <1>3, <2>1
  <2>2. CASE /\ FirstFault([i \in 1..Len(g) |-> GroupVerdict(g, i)]) = "Ok"
             /\ validated' = g /\ UNCHANGED state
    BY <1>1, <1>5, <2>2
  <2> QED BY <1>5, <2>1, <2>2 DEF RegisterConsts, Idle
<1>6. CASE \/ \E s \in Spellings : RegisterKind(s)
           \/ \E g \in ConstGroups : \E i \in DOMAIN g : RegisterConst(g[i].name, g[i].kind)
           \/ \E x \in Kinds : TombstoneKind(x) \/ ReviveKind(x) \/ UnregisterKind(x)
           \/ \E t \in Types, s \in Spellings : TypedKindNamed(t, s)
           \/ UnnamedTypedKind
           \/ \E t \in StaticTypes : RegisterSemanticType(t) \/ BindStaticComponent(t)
           \/ \E n \in Namespaces : UnregisterNamespace(n)
           \/ \E g \in EdgeGroups : AddEdges(g) \/ RemoveEdges(g)
  <2>1. validated = <<>> /\ UNCHANGED validated
    BY <1>6 DEF Idle, RegisterKind, RegisterConst, TombstoneKind, ReviveKind, UnregisterKind,
                TypedKindNamed, RegisterSemanticType, BindStaticComponent, BindStaticType,
                UnregisterNamespace, AddEdges, RemoveEdges, EditEdges, UnnamedTypedKind
  <2> QED BY <1>3, <2>1
<1> QED BY <1>2, <1>4, <1>5, <1>6 DEF Next

-----------------------------------------------------------------------------
(* The seeded registry satisfies the invariant.                            *)

(* seed_core leaves a registry that satisfies the invariant. *)
LEMMA InitHolds ==
  ASSUME Init
  PROVE  IInv
<1> DEFINE n == Len(CoreNames)
           at(k) == CHOOSE i \in 1..n : Hash[CoreNames[i]] = k
<1>1. /\ n \in Nat /\ \A i \in 1..n : CoreNames[i] \in Names /\ Hash[CoreNames[i]] \in Kinds
      /\ \A i, j \in 1..n : Hash[CoreNames[i]] = Hash[CoreNames[j]] => i = j
  BY AtomsAssumption, CoreAssumption
<1>2. /\ DOMAIN kinds = 1..n
      /\ \A i \in 1..n : kinds[i] = [kind |-> Hash[CoreNames[i]], name |-> CoreNames[i],
                                     type_id |-> NoType, flags |-> {"CORE"}]
      /\ kinds \in Seq(Metas)
  <2>1. kinds = [i \in 1..n |-> [kind |-> Hash[CoreNames[i]], name |-> CoreNames[i],
                                 type_id |-> NoType, flags |-> {"CORE"}]]
    BY DEF Init
  <2>2. \A i \in 1..n : [kind |-> Hash[CoreNames[i]], name |-> CoreNames[i],
                         type_id |-> NoType, flags |-> {"CORE"}] \in Metas
    BY <1>1 DEF Metas, Flags
  <2> QED BY <1>1, <2>1, <2>2
<1>3. CoreKinds \subseteq Kinds /\ CoreKinds = {kinds[i].kind : i \in DOMAIN kinds}
  <2>1. CoreKinds = {Hash[CoreNames[i]] : i \in 1..n} BY DEF CoreKinds
  <2> QED BY <1>1, <1>2, <2>1
<1>4. \A k \in CoreKinds : at(k) \in 1..n /\ Hash[CoreNames[at(k)]] = k
  BY DEF CoreKinds
<1>5. kind_to_index = [k \in CoreKinds |-> at(k)] /\ name_to_kind = [x \in Range(CoreNames) |-> Hash[x]]
  BY DEF Init
<1>6. IndexCoherent
  <2> HIDE DEF at
  <2>1. DOMAIN kind_to_index = {kinds[i].kind : i \in DOMAIN kinds}
    BY <1>3, <1>5
  <2>2. ASSUME NEW i \in DOMAIN kinds PROVE kind_to_index[kinds[i].kind] = i
    <3>1. i \in 1..n /\ kinds[i].kind = Hash[CoreNames[i]] /\ kinds[i].kind \in CoreKinds
      BY <1>2, <1>3
    <3>2. at(kinds[i].kind) = i
      BY <1>1, <1>4, <3>1
    <3> QED BY <1>5, <3>1, <3>2
  <2> QED BY <2>1, <2>2 DEF IndexCoherent
<1>7. Range(CoreNames) = {kinds[i].name : i \in DOMAIN kinds} /\ Range(CoreNames) \subseteq Names
  <2>1. DOMAIN CoreNames = 1..n BY CoreAssumption
  <2> QED BY <1>1, <1>2, <2>1 DEF Range
<1>8. NamesCoherent
  BY <1>2, <1>5, <1>7 DEF NamesCoherent
<1>9. TableOK
  <2>1. kind_to_index \in [DOMAIN kind_to_index -> Nat \ {0}] /\ DOMAIN kind_to_index \subseteq Kinds
    <3>1. \A k \in CoreKinds : at(k) \in Nat \ {0}
      <4> HIDE DEF at
      <4> QED BY <1>1, <1>4
    <3> HIDE DEF at
    <3> QED BY <1>3, <1>5, <3>1
  <2>2. name_to_kind \in [DOMAIN name_to_kind -> Kinds] /\ DOMAIN name_to_kind \subseteq Names
    BY <1>5, <1>7, AtomsAssumption
  <2>3. edges \subseteq Triples
    BY <1>3, CoreAssumption DEF Init, Triples
  <2>4. version \in 0..(VersionModulus - 1)
    <3> DEFINE v == n + (IF SeedEdges = {} THEN 0 ELSE 1)
    <3>1. v \in Nat /\ version = v % VersionModulus BY <1>1 DEF Init
    <3> HIDE DEF v
    <3> QED BY <3>1, VersionAssumption
  <2> QED BY <1>2, <2>1, <2>2, <2>3, <2>4 DEF Init, TableOK
<1>10. BindingsCoherent
  BY <1>2 DEF Init, BindingsCoherent
<1>11. validated \in Seq(Declarations) /\ outcome \in Outcomes /\ PendingConsistent
  BY DEF Init, Outcomes, PendingConsistent
<1> QED BY <1>6, <1>8, <1>9, <1>10, <1>11 DEF IInv, Coherent

(* The invariant is inductive. *)
LEMMA NextPreserves ==
  ASSUME IInv, [Next]_vars
  PROVE  IInv'
<1>1. Coherent /\ BindingsCoherent /\ Effect
  BY NextIsEffect DEF IInv
<1>2. Coherent' /\ BindingsCoherent'
  <2>1. CASE UNCHANGED <<state, version>>
    BY <1>1, <2>1 DEF state, maps, Coherent, TableOK, IndexCoherent, NamesCoherent, BindingsCoherent
  <2> QED BY <1>1, <2>1, ExistingPreserves, NewPreserves, TombstonePreserves, RevivePreserves,
             UnregisterPreserves, NamespacePreserves, EdgePreserves DEF Effect
<1> QED BY <1>2, OutcomeTyped, PendingPreserved DEF IInv

(* The strengthened invariant holds in every state of the registry: maps,
   bindings and pending declarations are coherent after any sequence of
   calls. *)
THEOREM Invariance == Spec => []IInv
<1>1. Init => IInv BY InitHolds
<1>2. IInv /\ [Next]_vars => IInv' BY NextPreserves
<1> QED BY <1>1, <1>2, PTL DEF Spec

(* Every variable keeps its type, for every table of names, hashes, types
   and inputs: no call stores an index of zero, a foreign kind or a
   version that outgrew its width. *)
THEOREM TypeCorrect == Spec => []TypeOK
<1>1. IInv => TypeOK BY DEF IInv, Coherent, TableOK, TypeOK
<1> QED BY <1>1, Invariance, PTL

-----------------------------------------------------------------------------
(* The shape of the effects, as far as single kinds are concerned.         *)

(* Removal, of one kind or of a namespace, only takes unpinned kinds and the
   edges around them away; every other kind keeps its metadata.            *)
LEMMA RemovalShape ==
  ASSUME Coherent, UnregisterEffect \/ NamespaceEffect
  PROVE  \E gone \in SUBSET DOMAIN kinds :
           /\ \A i \in gone : PinFault(kinds[i]) = "Ok"
           /\ \A r \in DOMAIN kinds' : \E i \in DOMAIN kinds \ gone : kinds'[r] = kinds[i]
           /\ \A i \in DOMAIN kinds \ gone : \E r \in DOMAIN kinds' : kinds'[r] = kinds[i]
           /\ edges' = edges \ IncidentTo({kinds[i].kind : i \in gone})
           /\ Bump(1)
<1>0. kinds \in Seq(Metas) /\ DOMAIN kinds = 1..Len(kinds) /\ Len(kinds) \in Nat
  BY DEF Coherent, TableOK
<1>1. CASE UnregisterEffect
  <2>1. PICK k \in DOMAIN kind_to_index : PinFault(MetaOf(k)) = "Ok" /\ Unregister(k)
    BY <1>1 DEF UnregisterEffect
  <2> DEFINE idx == kind_to_index[k]
  <2>2. idx \in 1..Len(kinds) /\ kinds[idx] = MetaOf(k) /\ kinds[idx].kind = k
    BY FoundAt DEF MetaOf
  <2>3. kinds' = SwapRemove(kinds, idx) /\ edges' = edges \ IncidentTo({k}) /\ Bump(1)
    BY <2>1 DEF Unregister
  <2>4. {kinds[i].kind : i \in {idx}} = {k}
    BY <2>2
  <2>5. \A r \in DOMAIN kinds' : \E i \in DOMAIN kinds \ {idx} : kinds'[r] = kinds[i]
    BY <1>0, <2>2, <2>3 DEF SwapRemove
  <2>6. \A i \in DOMAIN kinds \ {idx} : \E r \in DOMAIN kinds' : kinds'[r] = kinds[i]
    BY <1>0, <2>2, <2>3 DEF SwapRemove
  <2>7. {idx} \in SUBSET DOMAIN kinds /\ \A i \in {idx} : PinFault(kinds[i]) = "Ok"
    BY <1>0, <2>1, <2>2
  <2> HIDE DEF idx
  <2> QED BY <2>3, <2>4, <2>5, <2>6, <2>7
<1>2. CASE NamespaceEffect
  <2>1. PICK places \in SUBSET DOMAIN kinds :
          (\A i \in places : PinFault(kinds[i]) = "Ok") /\ UnregisterPlaces(places)
    BY <1>2 DEF NamespaceEffect
  <2> DEFINE left == DOMAIN kinds \ places
  <2>2. left \in SUBSET (1..Len(kinds)) BY <1>0
  <2>3. kinds' = Retain(kinds, left) /\ edges' = edges \ IncidentTo({kinds[i].kind : i \in places}) /\ Bump(1)
    BY <2>1 DEF UnregisterPlaces
  <2> HIDE DEF left
  <2>4. /\ DOMAIN kinds' = 1..Cardinality(left)
        /\ \A i \in left : Rank(left, i) \in 1..Cardinality(left) /\ kinds'[Rank(left, i)] = kinds[i]
        /\ \A r \in 1..Cardinality(left) : \E i \in left : r = Rank(left, i) /\ kinds'[r] = kinds[i]
    BY <1>0, <2>2, <2>3, RetainPlaces
  <2>5. /\ \A r \in DOMAIN kinds' : \E i \in left : kinds'[r] = kinds[i]
        /\ \A i \in left : \E r \in DOMAIN kinds' : kinds'[r] = kinds[i]
    BY <2>4
  <2> QED BY <2>1, <2>3, <2>5 DEF left
<1> QED BY <1>1, <1>2

(* A kind found both before and after a removal is found with the same
   metadata.                                                               *)
LEMMA RemovalKeeps ==
  ASSUME Coherent, IndexCoherent', NEW gone \in SUBSET DOMAIN kinds,
         \A r \in DOMAIN kinds' : \E i \in DOMAIN kinds \ gone : kinds'[r] = kinds[i],
         \A i \in DOMAIN kinds \ gone : \E r \in DOMAIN kinds' : kinds'[r] = kinds[i],
         NEW k \in DOMAIN kind_to_index, k \notin {kinds[i].kind : i \in gone}
  PROVE  k \in DOMAIN kind_to_index' /\ MetaOf(k)' = MetaOf(k)
<1>1. kind_to_index[k] \in DOMAIN kinds /\ kinds[kind_to_index[k]] = MetaOf(k) /\ MetaOf(k).kind = k
  BY FoundAt DEF MetaOf, Coherent, TableOK
<1>2. kind_to_index[k] \in DOMAIN kinds \ gone
  BY <1>1
<1>3. PICK r \in DOMAIN kinds' : kinds'[r] = MetaOf(k)
  BY <1>1, <1>2
<1>4. k \in DOMAIN kind_to_index' /\ kind_to_index'[k] = r
  BY <1>1, <1>3 DEF IndexCoherent
<1> QED BY <1>3, <1>4 DEF MetaOf

(* Tombstoning and reviving rewrite the flags of one place. *)
LEMMA TombstoneShape ==
  ASSUME Coherent, TombstoneEffect
  PROVE  \E k \in DOMAIN kind_to_index, m \in Metas :
           /\ "CORE" \notin MetaOf(k).flags /\ ~IsTombstoned(MetaOf(k))
           /\ m.kind = k /\ m.name = MetaOf(k).name /\ m.type_id = MetaOf(k).type_id
           /\ m.flags = MetaOf(k).flags \cup {"TOMBSTONED"}
           /\ kinds' = [kinds EXCEPT ![kind_to_index[k]] = m]
           /\ tombstoned_count' = tombstoned_count + 1
           /\ edges' = edges \ IncidentTo({k})
           /\ Bump(1) /\ UNCHANGED maps
<1>1. PICK k \in DOMAIN kind_to_index :
        "CORE" \notin MetaOf(k).flags /\ ~IsTombstoned(MetaOf(k)) /\ Tombstone(k)
  BY DEF TombstoneEffect
<1> DEFINE m == [MetaOf(k) EXCEPT !.flags = @ \cup {"TOMBSTONED"}]
<1>2. MetaOf(k) \in Metas /\ MetaOf(k).kind = k
  BY FoundAt
<1>3. /\ m \in Metas
      /\ m.kind = k /\ m.name = MetaOf(k).name /\ m.type_id = MetaOf(k).type_id
      /\ m.flags = MetaOf(k).flags \cup {"TOMBSTONED"}
  BY <1>2 DEF Metas, Flags
<1>4. kinds' = [kinds EXCEPT ![kind_to_index[k]] = m]
  BY <1>1 DEF Tombstone, MetaOf
<1>5. /\ tombstoned_count' = tombstoned_count + 1
      /\ edges' = edges \ IncidentTo({k})
      /\ Bump(1) /\ UNCHANGED maps
  BY <1>1 DEF Tombstone
<1> HIDE DEF m
<1> QED BY <1>1, <1>3, <1>4, <1>5

(* Reviving only takes the tombstone off one kind; reviving a live kind
   changes nothing. *)
LEMMA ReviveShape ==
  ASSUME Coherent, ReviveEffect
  PROVE  \E k \in DOMAIN kind_to_index, m \in Metas :
           /\ m.kind = k /\ m.name = MetaOf(k).name /\ m.type_id = MetaOf(k).type_id
           /\ m.flags = MetaOf(k).flags \ {"TOMBSTONED"}
           /\ kinds' = [kinds EXCEPT ![kind_to_index[k]] = m]
           /\ IF IsTombstoned(MetaOf(k))
              THEN tombstoned_count' = SaturatingDec(tombstoned_count) /\ Bump(1)
              ELSE UNCHANGED <<kinds, tombstoned_count, version>>
           /\ UNCHANGED <<maps, edges>>
<1>1. PICK k \in DOMAIN kind_to_index : Revive(k)
  BY DEF ReviveEffect
<1> DEFINE m == [MetaOf(k) EXCEPT !.flags = @ \ {"TOMBSTONED"}]
<1>2. MetaOf(k) \in Metas /\ MetaOf(k).kind = k
  BY FoundAt
<1>3. /\ m \in Metas
      /\ m.kind = k /\ m.name = MetaOf(k).name /\ m.type_id = MetaOf(k).type_id
      /\ m.flags = MetaOf(k).flags \ {"TOMBSTONED"}
  BY <1>2 DEF Metas
<1>4. kinds' = [kinds EXCEPT ![kind_to_index[k]] = m]
  BY <1>1 DEF Revive, MetaOf
<1>5. /\ IF IsTombstoned(MetaOf(k))
         THEN tombstoned_count' = SaturatingDec(tombstoned_count) /\ Bump(1)
         ELSE UNCHANGED <<tombstoned_count, version>>
      /\ UNCHANGED <<maps, edges>>
  BY <1>1 DEF Revive
<1>6. ~IsTombstoned(MetaOf(k)) => kinds' = kinds
  <2>1. ~IsTombstoned(MetaOf(k)) => m = MetaOf(k)
    BY <1>2 DEF IsTombstoned, Metas
  <2>2. kinds \in Seq(Metas)
    BY DEF Coherent, TableOK
  <2> HIDE DEF m
  <2> QED BY <1>4, <2>1, <2>2 DEF MetaOf
<1> HIDE DEF m
<1> QED BY <1>3, <1>4, <1>5, <1>6

(* A new kind is live, takes the place after the last one and disturbs
   nobody. *)
LEMMA NewShape ==
  ASSUME Coherent, NewEffect
  PROVE  \E m \in Metas :
           /\ m.kind \notin DOMAIN kind_to_index
           /\ m.type_id \notin DOMAIN type_to_kind
           /\ FlagsOK(m) /\ ~IsTombstoned(m)
           /\ DOMAIN kinds' = DOMAIN kinds \cup {Len(kinds) + 1}
           /\ Len(kinds) + 1 \notin DOMAIN kinds
           /\ kinds'[Len(kinds) + 1] = m
           /\ \A i \in DOMAIN kinds : kinds'[i] = kinds[i]
           /\ kind_to_index' = Put(kind_to_index, m.kind, Len(kinds) + 1)
           /\ type_to_kind' = IF m.type_id # NoType THEN Put(type_to_kind, m.type_id, m.kind)
                              ELSE type_to_kind
           /\ Bump(1) /\ UNCHANGED <<edges, tombstoned_count>>
<1>1. PICK n \in Names \ DOMAIN name_to_kind, t \in Types \cup {NoType}, b \in BaseFlags :
        /\ (t = NoType) = (b = {"USER_DEFINED"})
        /\ Hash[n] \notin DOMAIN kind_to_index
        /\ t \notin DOMAIN type_to_kind
        /\ RegisterNew(n, Hash[n], t, b)
  BY DEF NewEffect
<1> DEFINE m == [kind |-> Hash[n], name |-> n, type_id |-> t, flags |-> b]
<1>2. m \in Metas
  BY AtomsAssumption DEF Metas, BaseFlags, Flags
<1>3. FlagsOK(m) /\ ~IsTombstoned(m)
  <2>1. /\ "STATIC_COMPONENT" \in b => "STATIC_TYPE" \in b
        /\ "STATIC_TYPE" \in b => t # NoType
        /\ t # NoType => "TYPED" \in b
        /\ "CORE" \notin b /\ "TOMBSTONED" \notin b
    BY <1>1 DEF BaseFlags
  <2> QED BY <2>1 DEF FlagsOK, IsTombstoned
<1>4. kinds' = Append(kinds, m) /\ kinds \in Seq(Metas) /\ kind_to_index' = Put(kind_to_index, m.kind, Len(kinds) + 1)
      /\ type_to_kind' = (IF m.type_id # NoType THEN Put(type_to_kind, m.type_id, m.kind) ELSE type_to_kind)
      /\ Bump(1) /\ UNCHANGED <<edges, tombstoned_count>>
      /\ m.kind \notin DOMAIN kind_to_index /\ m.type_id \notin DOMAIN type_to_kind
  BY <1>1 DEF RegisterNew, Coherent, TableOK
<1> HIDE DEF m
<1>5. /\ DOMAIN kinds' = DOMAIN kinds \cup {Len(kinds) + 1}
      /\ Len(kinds) + 1 \notin DOMAIN kinds
      /\ kinds'[Len(kinds) + 1] = m
      /\ \A i \in DOMAIN kinds : kinds'[i] = kinds[i]
  BY <1>2, <1>4
<1> QED BY <1>2, <1>3, <1>4, <1>5

-----------------------------------------------------------------------------
(* Flags                                                                   *)

(* No step breaks the order between static, typed and core flags. *)
LEMMA FlagsStep ==
  ASSUME Coherent, BindingsCoherent, FlagsCoherent, Effect
  PROVE  FlagsCoherent'
<1>1. \A i \in DOMAIN kinds : FlagsOK(kinds[i])
  BY DEF FlagsCoherent, FlagsOK
<1>2. SUFFICES \A i \in DOMAIN kinds' : FlagsOK(kinds'[i])
  BY DEF FlagsCoherent, FlagsOK, IsTombstoned
<1>3. ASSUME NEW k \in DOMAIN kind_to_index, NEW m \in Metas,
             kinds' = [kinds EXCEPT ![kind_to_index[k]] = m],
             FlagsOK(MetaOf(k)) => FlagsOK(m)
      PROVE  \A i \in DOMAIN kinds' : FlagsOK(kinds'[i])
  <2>1. /\ DOMAIN kinds' = DOMAIN kinds
        /\ kind_to_index[k] \in DOMAIN kinds /\ kinds[kind_to_index[k]] = MetaOf(k)
        /\ kinds'[kind_to_index[k]] = m
        /\ \A i \in DOMAIN kinds : i # kind_to_index[k] => kinds'[i] = kinds[i]
    BY <1>3, OverwritePlaces
  <2> QED BY <1>1, <1>3, <2>1
<1>4. CASE UNCHANGED kinds
  BY <1>1, <1>4
<1>5. CASE ExistingEffect
  BY <1>3, <1>5, ExistingShape
<1>6. CASE NewEffect
  BY <1>1, <1>6, NewShape
<1>7. CASE TombstoneEffect
  <2>1. PICK k \in DOMAIN kind_to_index, m \in Metas :
          /\ "CORE" \notin MetaOf(k).flags
          /\ m.type_id = MetaOf(k).type_id
          /\ m.flags = MetaOf(k).flags \cup {"TOMBSTONED"}
          /\ kinds' = [kinds EXCEPT ![kind_to_index[k]] = m]
    BY <1>7, TombstoneShape
  <2>2. FlagsOK(MetaOf(k)) => FlagsOK(m)
    BY <2>1 DEF FlagsOK, IsTombstoned
  <2> QED BY <1>3, <2>1, <2>2
<1>8. CASE ReviveEffect
  <2>1. PICK k \in DOMAIN kind_to_index, m \in Metas :
          /\ m.type_id = MetaOf(k).type_id
          /\ m.flags = MetaOf(k).flags \ {"TOMBSTONED"}
          /\ kinds' = [kinds EXCEPT ![kind_to_index[k]] = m]
    BY <1>8, ReviveShape
  <2>2. FlagsOK(MetaOf(k)) => FlagsOK(m)
    BY <2>1 DEF FlagsOK, IsTombstoned
  <2> QED BY <1>3, <2>1, <2>2
<1>9. CASE UnregisterEffect \/ NamespaceEffect
  BY <1>1, <1>9, RemovalShape
<1> QED
  BY <1>4, <1>5, <1>6, <1>7, <1>8, <1>9 DEF Effect, EdgeEffect, state

-----------------------------------------------------------------------------
(* Edges                                                                   *)

(* A kind that edges may mention. *)
Active(k) == k \in DOMAIN kind_to_index /\ ~IsTombstoned(MetaOf(k))

(* EdgesActive in terms of activity. *)
LEMMA EdgesAndActivity ==
  EdgesActive <=> \A e \in edges : \A j \in 1..3 : Active(e[j])
BY DEF EdgesActive, ActiveFault, Active

(* Overwriting one place changes nobody else's activity. *)
LEMMA OverwriteActive ==
  ASSUME Coherent, NEW k \in DOMAIN kind_to_index, NEW m \in Metas,
         kinds' = [kinds EXCEPT ![kind_to_index[k]] = m], UNCHANGED kind_to_index,
         NEW x, Active(x), x = k => ~IsTombstoned(m)
  PROVE  Active(x)'
<1>1. x \in DOMAIN kind_to_index /\ x \in DOMAIN kind_to_index'
  BY DEF Active
<1>2. kind_to_index[x] \in DOMAIN kinds /\ (x # k => kind_to_index[x] # kind_to_index[k])
  BY <1>1, FoundAt DEF Coherent, TableOK, MetaOf
<1>3. /\ kinds'[kind_to_index[k]] = m
      /\ x # k => kinds'[kind_to_index[x]] = kinds[kind_to_index[x]]
  BY <1>2, OverwritePlaces
<1> QED BY <1>1, <1>3 DEF Active, MetaOf, IsTombstoned

(* No step leaves an edge behind whose ends are not all live. *)
LEMMA EdgesStep ==
  ASSUME Coherent, Coherent', BindingsCoherent, EdgesActive, Effect
  PROVE  EdgesActive'
<1>1. \A e \in edges : \A j \in 1..3 : Active(e[j])
  BY EdgesAndActivity
<1>2. SUFFICES \A e \in edges' : \A j \in 1..3 : Active(e[j])'
  BY DEF EdgesActive, ActiveFault, Active, MetaOf, IsTombstoned
<1>3. CASE UNCHANGED state
  BY <1>1, <1>3 DEF state, maps, Active, MetaOf
<1>4. CASE ExistingEffect
  <2>1. PICK k \in DOMAIN kind_to_index, m \in Metas :
          /\ IsTombstoned(m) => IsTombstoned(MetaOf(k))
          /\ kinds' = [kinds EXCEPT ![kind_to_index[k]] = m]
          /\ UNCHANGED <<kind_to_index, edges>>
    BY <1>4, ExistingShape
  <2>2. ASSUME NEW e \in edges', NEW j \in 1..3 PROVE Active(e[j])'
    <3>1. Active(e[j])
      BY <1>1, <2>1, <2>2
    <3>2. e[j] = k => ~IsTombstoned(m)
      BY <2>1, <3>1 DEF Active
    <3> QED BY <2>1, <3>1, <3>2, OverwriteActive
  <2> QED BY <2>2
<1>5. CASE NewEffect
  <2>1. PICK m \in Metas :
          /\ m.kind \notin DOMAIN kind_to_index
          /\ Len(kinds) + 1 \notin DOMAIN kinds
          /\ \A i \in DOMAIN kinds : kinds'[i] = kinds[i]
          /\ kind_to_index' = Put(kind_to_index, m.kind, Len(kinds) + 1)
          /\ UNCHANGED edges
    BY <1>5, NewShape
  <2>2. ASSUME NEW x, Active(x) PROVE Active(x)'
    <3>1. x \in DOMAIN kind_to_index' /\ kind_to_index'[x] = kind_to_index[x]
      BY <2>1, <2>2 DEF Active, Put
    <3>2. kind_to_index[x] \in DOMAIN kinds
      BY <2>2, FoundAt DEF Active, Coherent, TableOK
    <3> QED BY <2>1, <2>2, <3>1, <3>2 DEF Active, MetaOf, IsTombstoned
  <2> QED BY <1>1, <2>1, <2>2
<1>6. CASE TombstoneEffect
  <2>1. PICK k \in DOMAIN kind_to_index, m \in Metas :
          /\ kinds' = [kinds EXCEPT ![kind_to_index[k]] = m]
          /\ edges' = edges \ IncidentTo({k})
          /\ UNCHANGED maps
    BY <1>6, TombstoneShape
  <2>2. ASSUME NEW e \in edges', NEW j \in 1..3 PROVE Active(e[j])'
    <3>1. e \in edges /\ e[j] # k
      BY <2>1, <2>2 DEF IncidentTo
    <3> QED BY <1>1, <2>1, <3>1, OverwriteActive DEF maps
  <2> QED BY <2>2
<1>7. CASE ReviveEffect
  <2>1. PICK k \in DOMAIN kind_to_index, m \in Metas :
          /\ m.flags = MetaOf(k).flags \ {"TOMBSTONED"}
          /\ kinds' = [kinds EXCEPT ![kind_to_index[k]] = m]
          /\ UNCHANGED <<maps, edges>>
    BY <1>7, ReviveShape
  <2>2. ~IsTombstoned(m)
    BY <2>1 DEF IsTombstoned
  <2> QED BY <1>1, <2>1, <2>2, OverwriteActive DEF maps
<1>8. CASE UnregisterEffect \/ NamespaceEffect
  <2>1. PICK gone \in SUBSET DOMAIN kinds :
          /\ \A r \in DOMAIN kinds' : \E i \in DOMAIN kinds \ gone : kinds'[r] = kinds[i]
          /\ \A i \in DOMAIN kinds \ gone : \E r \in DOMAIN kinds' : kinds'[r] = kinds[i]
          /\ edges' = edges \ IncidentTo({kinds[i].kind : i \in gone})
    BY <1>8, RemovalShape
  <2> DEFINE removed == {kinds[i].kind : i \in gone}
  <2>2. ASSUME NEW e \in edges', NEW j \in 1..3 PROVE Active(e[j])'
    <3>1. e \in edges /\ e[j] \notin removed
      BY <2>1, <2>2 DEF IncidentTo
    <3>2. e[j] \in DOMAIN kind_to_index /\ ~IsTombstoned(MetaOf(e[j]))
      BY <1>1, <3>1 DEF Active
    <3>3. e[j] \in DOMAIN kind_to_index' /\ MetaOf(e[j])' = MetaOf(e[j])
      BY <2>1, <3>1, <3>2, RemovalKeeps DEF Coherent
    <3> QED BY <3>2, <3>3 DEF Active, IsTombstoned
  <2> QED BY <2>2
<1>9. CASE EdgeEffect
  <2>1. \A e \in edges' : e \in edges \/ \A j \in 1..3 : Active(e[j])
    BY <1>9 DEF EdgeEffect, ActiveFault, Active
  <2> QED BY <1>1, <1>9, <2>1 DEF EdgeEffect, maps, Active, MetaOf
<1> QED BY <1>3, <1>4, <1>5, <1>6, <1>7, <1>8, <1>9 DEF Effect

-----------------------------------------------------------------------------
(* The tombstone count                                                     *)

(* The places tombstoned_count counts. *)
TombstonedPlaces == {i \in DOMAIN kinds : IsTombstoned(kinds[i])}

(* There are finitely many tombstones. *)
LEMMA PlacesFinite ==
  ASSUME Coherent
  PROVE  IsFiniteSet(TombstonedPlaces) /\ Cardinality(TombstonedPlaces) \in Nat
<1>1. DOMAIN kinds = 1..Len(kinds) /\ Len(kinds) \in Nat
  BY DEF Coherent, TableOK
<1>2. IsFiniteSet(1..Len(kinds)) /\ TombstonedPlaces \in SUBSET (1..Len(kinds))
  BY <1>1, FS_Interval DEF TombstonedPlaces
<1>3. IsFiniteSet(TombstonedPlaces)
  BY <1>2, FS_Subset
<1> QED BY <1>3, FS_CardinalityType

(* The count follows a place that is rewritten. *)
LEMMA OverwriteCount ==
  ASSUME Coherent, tombstoned_count = Cardinality(TombstonedPlaces),
         NEW k \in DOMAIN kind_to_index, NEW m \in Metas,
         kinds' = [kinds EXCEPT ![kind_to_index[k]] = m],
         tombstoned_count' = IF IsTombstoned(MetaOf(k)) = IsTombstoned(m) THEN tombstoned_count
                             ELSE IF IsTombstoned(m) THEN tombstoned_count + 1
                             ELSE SaturatingDec(tombstoned_count)
  PROVE  tombstoned_count' = Cardinality(TombstonedPlaces')
<1> DEFINE idx == kind_to_index[k]
           T == TombstonedPlaces
<1>1. /\ DOMAIN kinds' = DOMAIN kinds
      /\ idx \in DOMAIN kinds /\ kinds[idx] = MetaOf(k) /\ kinds'[idx] = m
      /\ \A i \in DOMAIN kinds : i # idx => kinds'[i] = kinds[i]
  BY OverwritePlaces
<1>2. IsFiniteSet(T) /\ Cardinality(T) \in Nat
  BY PlacesFinite
<1>3. idx \in T <=> IsTombstoned(MetaOf(k))
  BY <1>1 DEF TombstonedPlaces
<1>4. TombstonedPlaces' = IF IsTombstoned(m) THEN T \cup {idx} ELSE T \ {idx}
  BY <1>1 DEF TombstonedPlaces, IsTombstoned
<1>5. Cardinality(T) = 0 <=> T = {}
  BY <1>2, FS_EmptySet
<1>6. /\ Cardinality(T \cup {idx}) = IF idx \in T THEN Cardinality(T) ELSE Cardinality(T) + 1
      /\ Cardinality(T \ {idx}) = IF idx \in T THEN Cardinality(T) - 1 ELSE Cardinality(T)
  BY <1>2, FS_AddElement, FS_RemoveElement
<1> HIDE DEF idx
<1>7. CASE IsTombstoned(m)
  <2>1. TombstonedPlaces' = T \cup {idx} BY <1>4, <1>7
  <2> QED BY <1>3, <1>6, <1>7, <2>1 DEF IsTombstoned
<1>8. CASE ~IsTombstoned(m)
  <2>1. TombstonedPlaces' = T \ {idx} BY <1>4, <1>8
  <2>2. IsTombstoned(MetaOf(k)) => Cardinality(T) # 0
    BY <1>3, <1>5
  <2>3. IsTombstoned(MetaOf(k)) => SaturatingDec(tombstoned_count) = Cardinality(T) - 1
    BY <2>2 DEF SaturatingDec
  <2> QED BY <1>3, <1>6, <1>8, <2>1, <2>3 DEF IsTombstoned
<1> QED BY <1>7, <1>8

(* swap_remove moves the last kind, and with it possibly a tombstone. *)
LEMMA UnregisterCount ==
  ASSUME Coherent, tombstoned_count = Cardinality(TombstonedPlaces),
         NEW k \in DOMAIN kind_to_index, Unregister(k)
  PROVE  tombstoned_count' = Cardinality(TombstonedPlaces')
<1> DEFINE idx == kind_to_index[k]
           n == Len(kinds)
           T == TombstonedPlaces
<1>1. DOMAIN kinds = 1..n /\ n \in Nat /\ idx \in 1..n /\ kinds[idx] = MetaOf(k)
  BY FoundAt DEF Coherent, TableOK, MetaOf
<1>2. /\ DOMAIN kinds' = 1..(n - 1)
      /\ \A i \in 1..(n - 1) : kinds'[i] = IF i = idx THEN kinds[n] ELSE kinds[i]
      /\ tombstoned_count' = IF IsTombstoned(kinds[idx]) THEN SaturatingDec(tombstoned_count)
                             ELSE tombstoned_count
  BY DEF Unregister, SwapRemove
<1>3. IsFiniteSet(T) /\ Cardinality(T) \in Nat /\ (Cardinality(T) = 0 <=> T = {})
  BY PlacesFinite, FS_EmptySet
<1>4. idx \in T <=> IsTombstoned(kinds[idx])
  BY <1>1 DEF TombstonedPlaces
<1>5. T \subseteq 1..n /\ \A i \in 1..n : i \in T <=> IsTombstoned(kinds[i])
  BY <1>1 DEF TombstonedPlaces
<1>6. TombstonedPlaces' = {i \in 1..(n - 1) : IsTombstoned(kinds'[i])}
  BY <1>2 DEF TombstonedPlaces, IsTombstoned
<1> HIDE DEF T, idx, n
<1>7. CASE idx # n /\ n \in T
  <2> DEFINE rest == T \ {n}
  <2>1. TombstonedPlaces' = rest \cup {idx}
    <3>1. ASSUME NEW i \in TombstonedPlaces' PROVE i \in rest \cup {idx}
      BY <1>1, <1>2, <1>5, <1>6, <1>7, <3>1 DEF IsTombstoned
    <3>2. ASSUME NEW i \in rest \cup {idx} PROVE i \in TombstonedPlaces'
      <4>1. i \in 1..(n - 1) BY <1>1, <1>5, <1>7, <3>2
      <4>2. kinds'[i] = IF i = idx THEN kinds[n] ELSE kinds[i] BY <1>2, <4>1
      <4>3. IsTombstoned(kinds'[i]) BY <1>1, <1>5, <1>7, <3>2, <4>2 DEF IsTombstoned
      <4> QED BY <1>6, <4>1, <4>3
    <3> QED BY <3>1, <3>2
  <2>2. IsFiniteSet(rest) /\ Cardinality(rest) = Cardinality(T) - 1
    BY <1>3, <1>7, FS_RemoveElement
  <2>3. idx \in rest <=> idx \in T
    BY <1>7
  <2> HIDE DEF rest
  <2>4. Cardinality(rest \cup {idx}) = IF idx \in rest THEN Cardinality(rest) ELSE Cardinality(rest) + 1
    BY <2>2, FS_AddElement
  <2> QED BY <1>2, <1>3, <1>4, <1>7, <2>1, <2>2, <2>3, <2>4 DEF SaturatingDec, T
<1>8. CASE ~(idx # n /\ n \in T)
  <2>1. TombstonedPlaces' = T \ {idx}
    <3>1. ASSUME NEW i \in TombstonedPlaces' PROVE i \in T \ {idx}
      <4>1. i \in 1..(n - 1) /\ IsTombstoned(kinds'[i]) BY <1>6, <3>1
      <4>2. kinds'[i] = IF i = idx THEN kinds[n] ELSE kinds[i] BY <1>2, <4>1
      <4>3. i # idx
        <5>1. SUFFICES ASSUME i = idx PROVE FALSE OBVIOUS
        <5>2. idx # n /\ n \in 1..n BY <1>1, <4>1, <5>1
        <5>3. IsTombstoned(kinds[n]) BY <4>1, <4>2, <5>1
        <5> QED BY <1>5, <1>8, <5>2, <5>3
      <4>4. i \in 1..n /\ IsTombstoned(kinds[i]) BY <1>1, <4>1, <4>2, <4>3
      <4> QED BY <1>5, <4>3, <4>4
    <3>2. ASSUME NEW i \in T \ {idx} PROVE i \in TombstonedPlaces'
      <4>1. i \in 1..(n - 1) BY <1>1, <1>5, <1>8, <3>2
      <4>2. kinds'[i] = kinds[i] BY <1>2, <3>2, <4>1
      <4>3. IsTombstoned(kinds[i]) BY <1>5, <3>2
      <4>4. IsTombstoned(kinds'[i]) BY <4>2, <4>3
      <4> QED BY <1>6, <4>1, <4>4
    <3> QED BY <3>1, <3>2
  <2>2. Cardinality(T \ {idx}) = IF idx \in T THEN Cardinality(T) - 1 ELSE Cardinality(T)
    BY <1>3, FS_RemoveElement
  <2> QED BY <1>2, <1>3, <1>4, <2>1, <2>2 DEF SaturatingDec, T
<1> QED BY <1>7, <1>8

(* unregister_namespace recounts what retain has kept. *)
LEMMA NamespaceCount ==
  ASSUME Coherent, NEW places \in SUBSET DOMAIN kinds, UnregisterPlaces(places)
  PROVE  tombstoned_count' = Cardinality(TombstonedPlaces')
<1> DEFINE left == DOMAIN kinds \ places
           S == {i \in left : IsTombstoned(kinds[i])}
           T == TombstonedPlaces'
           f == [i \in S |-> Rank(left, i)]
<1>1. kinds \in Seq(Metas) /\ Len(kinds) \in Nat /\ left \in SUBSET (1..Len(kinds))
  BY DEF Coherent, TableOK
<1>2. kinds' = Retain(kinds, left) /\ tombstoned_count' = Cardinality(S)
  BY DEF UnregisterPlaces
<1> HIDE DEF left
<1>3. /\ DOMAIN kinds' = 1..Cardinality(left)
      /\ \A i \in left : Rank(left, i) \in 1..Cardinality(left) /\ kinds'[Rank(left, i)] = kinds[i]
      /\ \A r \in 1..Cardinality(left) : \E i \in left : r = Rank(left, i) /\ kinds'[r] = kinds[i]
      /\ \A i, j \in left : Rank(left, i) = Rank(left, j) => i = j
  <2>1. /\ DOMAIN Retain(kinds, left) = 1..Cardinality(left)
        /\ \A i \in left : /\ Rank(left, i) \in 1..Cardinality(left)
                           /\ Retain(kinds, left)[Rank(left, i)] = kinds[i]
        /\ \A r \in 1..Cardinality(left) : \E i \in left : r = Rank(left, i) /\ Retain(kinds, left)[r] = kinds[i]
    BY <1>1, RetainPlaces
  <2>2. \A i, j \in left : Rank(left, i) = Rank(left, j) => i = j
    BY <1>1, RankBijection
  <2> QED BY <1>2, <2>1, <2>2
<1>4. T = {r \in DOMAIN kinds' : IsTombstoned(kinds'[r])}
  BY DEF TombstonedPlaces, IsTombstoned
<1>5. IsFiniteSet(S)
  <2>1. IsFiniteSet(1..Len(kinds)) BY <1>1, FS_Interval
  <2>2. S \in SUBSET (1..Len(kinds)) BY <1>1
  <2> QED BY <2>1, <2>2, FS_Subset
<1>6. f \in Bijection(S, T)
  <2>1. \A i \in S : f[i] \in T
    BY <1>3, <1>4
  <2>2. \A i, j \in S : f[i] = f[j] => i = j
    BY <1>3
  <2>3. \A r \in T : \E i \in S : f[i] = r
    BY <1>3, <1>4
  <2>4. f \in [S -> T]
    BY <2>1
  <2> HIDE DEF f, S, T
  <2> QED BY <2>2, <2>3, <2>4 DEF Bijection, Injection, Surjection, IsInjective
<1> QED BY <1>2, <1>5, <1>6, FS_Bijection DEF ExistsBijection

(* Every step moves the count as it moves the tombstones. *)
LEMMA CountStep ==
  ASSUME Coherent, BindingsCoherent, TombstoneCountExact, Effect
  PROVE  TombstoneCountExact'
<1>1. tombstoned_count = Cardinality(TombstonedPlaces)
  BY DEF TombstoneCountExact, TombstonedPlaces
<1>2. SUFFICES tombstoned_count' = Cardinality(TombstonedPlaces')
  BY DEF TombstoneCountExact, TombstonedPlaces, IsTombstoned
<1>3. CASE UNCHANGED <<kinds, tombstoned_count>>
  BY <1>1, <1>3 DEF TombstonedPlaces
<1>4. CASE ExistingEffect
  <2>1. PICK k \in DOMAIN kind_to_index, m \in Metas :
          /\ IsTombstoned(m) => IsTombstoned(MetaOf(k))
          /\ kinds' = [kinds EXCEPT ![kind_to_index[k]] = m]
          /\ tombstoned_count' = IF IsTombstoned(MetaOf(k)) /\ ~IsTombstoned(m)
                                 THEN SaturatingDec(tombstoned_count) ELSE tombstoned_count
    BY <1>4, ExistingShape
  <2>2. tombstoned_count' = IF IsTombstoned(MetaOf(k)) = IsTombstoned(m) THEN tombstoned_count
                            ELSE IF IsTombstoned(m) THEN tombstoned_count + 1
                            ELSE SaturatingDec(tombstoned_count)
    BY <2>1 DEF IsTombstoned
  <2> QED BY <1>1, <2>1, <2>2, OverwriteCount
<1>5. CASE NewEffect
  <2>1. PICK m \in Metas :
          /\ ~IsTombstoned(m)
          /\ DOMAIN kinds' = DOMAIN kinds \cup {Len(kinds) + 1}
          /\ Len(kinds) + 1 \notin DOMAIN kinds
          /\ kinds'[Len(kinds) + 1] = m
          /\ \A i \in DOMAIN kinds : kinds'[i] = kinds[i]
          /\ UNCHANGED tombstoned_count
    BY <1>5, NewShape
  <2>2. TombstonedPlaces' = TombstonedPlaces
    BY <2>1 DEF TombstonedPlaces, IsTombstoned
  <2> QED BY <1>1, <2>1, <2>2
<1>6. CASE TombstoneEffect
  <2>1. PICK k \in DOMAIN kind_to_index, m \in Metas :
          /\ ~IsTombstoned(MetaOf(k)) /\ m.flags = MetaOf(k).flags \cup {"TOMBSTONED"}
          /\ kinds' = [kinds EXCEPT ![kind_to_index[k]] = m]
          /\ tombstoned_count' = tombstoned_count + 1
    BY <1>6, TombstoneShape
  <2>2. IsTombstoned(m) /\ IsTombstoned(m) # IsTombstoned(MetaOf(k))
    BY <2>1 DEF IsTombstoned
  <2> QED BY <1>1, <2>1, <2>2, OverwriteCount
<1>7. CASE ReviveEffect
  <2>1. PICK k \in DOMAIN kind_to_index, m \in Metas :
          /\ m.flags = MetaOf(k).flags \ {"TOMBSTONED"}
          /\ kinds' = [kinds EXCEPT ![kind_to_index[k]] = m]
          /\ IF IsTombstoned(MetaOf(k)) THEN tombstoned_count' = SaturatingDec(tombstoned_count)
             ELSE UNCHANGED <<kinds, tombstoned_count>>
    BY <1>7, ReviveShape
  <2>2. ~IsTombstoned(m)
    BY <2>1 DEF IsTombstoned
  <2>3. CASE IsTombstoned(MetaOf(k))
    <3>1. IsTombstoned(m) # IsTombstoned(MetaOf(k))
      BY <2>2, <2>3 DEF IsTombstoned
    <3> QED BY <1>1, <2>1, <2>2, <2>3, <3>1, OverwriteCount
  <2>4. CASE ~IsTombstoned(MetaOf(k))
    BY <1>3, <2>1, <2>4
  <2> QED BY <2>3, <2>4
<1>8. CASE UnregisterEffect
  BY <1>1, <1>8, UnregisterCount DEF UnregisterEffect
<1>9. CASE NamespaceEffect
  BY <1>9, NamespaceCount DEF NamespaceEffect
<1> QED
  BY <1>3, <1>4, <1>5, <1>6, <1>7, <1>8, <1>9 DEF Effect, EdgeEffect, state

-----------------------------------------------------------------------------
(* The invariants                                                          *)

(* All the state invariants together. *)
Safe == IInv /\ FlagsCoherent /\ EdgesActive /\ TombstoneCountExact

(* They hold of the seeded registry. *)
LEMMA InitSafe ==
  ASSUME Init
  PROVE  Safe
<1>1. IInv
  BY InitHolds
<1>2. \A i \in DOMAIN kinds : kinds[i].flags = {"CORE"} /\ kinds[i].type_id = NoType
  BY DEF Init
<1>3. FlagsCoherent
  BY <1>2 DEF FlagsCoherent, IsTombstoned
<1>4. \A i \in DOMAIN kinds : ~IsTombstoned(kinds[i])
  BY <1>2 DEF IsTombstoned
<1>5. TombstoneCountExact
  <2>1. {i \in DOMAIN kinds : IsTombstoned(kinds[i])} = {} BY <1>4
  <2>2. tombstoned_count = 0 BY DEF Init
  <2> QED BY <2>1, <2>2, FS_EmptySet DEF TombstoneCountExact
<1>6. EdgesActive
  <2>1. edges \subseteq CoreKinds \X CoreKinds \X CoreKinds /\ DOMAIN kind_to_index = CoreKinds
    BY CoreAssumption DEF Init
  <2>2. ASSUME NEW k \in CoreKinds PROVE Active(k)
    <3>1. kind_to_index[k] \in DOMAIN kinds
      BY <1>1, <2>1, FoundAt DEF IInv, Coherent, TableOK
    <3> QED BY <1>4, <2>1, <3>1 DEF Active, MetaOf
  <2>3. \A e \in edges : \A j \in 1..3 : e[j] \in CoreKinds
    BY <2>1
  <2> QED BY <2>2, <2>3, EdgesAndActivity
<1> QED BY <1>1, <1>3, <1>5, <1>6 DEF Safe

(* They hold after every step. *)
LEMMA NextSafe ==
  ASSUME Safe, [Next]_vars
  PROVE  Safe'
<1>1. Coherent /\ BindingsCoherent /\ Effect
  BY NextIsEffect DEF Safe, IInv
<1>2. IInv' /\ Coherent'
  BY NextPreserves DEF Safe, IInv
<1> QED BY <1>1, <1>2, FlagsStep, EdgesStep, CountStep DEF Safe

(* The registry is safe in every state it reaches. *)
LEMMA AlwaysSafe == Spec => []Safe
<1>1. Init => Safe BY InitSafe
<1>2. Safe /\ [Next]_vars => Safe' BY NextSafe
<1> QED BY <1>1, <1>2, PTL DEF Spec

(* The vector, its three maps and the flags always describe the same kinds,
   under the same names and types: swap-removals and namespace rebuilds
   lose, orphan or cross no entry.                                         *)
THEOREM MapsCoherent == Spec => []RegistryCoherent
<1>1. Safe => RegistryCoherent
  BY DEF Safe, IInv, Coherent, RegistryCoherent
<1> QED BY <1>1, AlwaysSafe, PTL

(* No sequence of calls leaves an edge to a kind that is gone or tombstoned. *)
THEOREM NoDanglingEdges == Spec => []EdgesActive
<1>1. Safe => EdgesActive BY DEF Safe
<1> QED BY <1>1, AlwaysSafe, PTL

(* tombstoned_count never drifts from the flags, in spite of its saturating
   decrements: the snapshot's shortcut on zero is sound.                   *)
THEOREM TombstoneCountIsExact == Spec => []TombstoneCountExact
<1>1. Safe => TombstoneCountExact BY DEF Safe
<1> QED BY <1>1, AlwaysSafe, PTL

(* Static bindings stay typed and core kinds are never tombstoned. *)
THEOREM FlagsStayCoherent == Spec => []FlagsCoherent
<1>1. Safe => FlagsCoherent BY DEF Safe
<1> QED BY <1>1, AlwaysSafe, PTL

(* A validated slice of register_consts registers to its end. *)
THEOREM ConstGroupsAreTransactional == Spec => []ConstGroupNeverFails
<1>1. ASSUME Safe PROVE ConstGroupNeverFails
  <2> DEFINE n == Canon[Head(validated).name]
             k == Head(validated).kind
  <2>1. SUFFICES ASSUME validated # <<>>
                 PROVE  RegisterVerdict(n, k, NoType, {"USER_DEFINED"}) = "Ok"
    BY DEF ConstGroupNeverFails
  <2>2. validated \in Seq(Declarations)
    BY <1>1 DEF Safe, IInv
  <2>3. 1 \in DOMAIN validated /\ Head(validated) = validated[1]
    BY <2>1, <2>2
  <2>4. /\ n \in Names \ ReservedNames /\ Hash[n] = k
        /\ k \in DOMAIN kind_to_index => n \in DOMAIN name_to_kind
    BY <1>1, <2>3 DEF Safe, IInv, PendingConsistent
  <2>5. n \in DOMAIN name_to_kind => name_to_kind[n] = k
    BY <1>1, <2>4 DEF Safe, IInv, Coherent, NamesCoherent
  <2> HIDE DEF n, k
  <2> QED BY <2>4, <2>5 DEF RegisterVerdict, TypeClash
<1> QED BY <1>1, AlwaysSafe, PTL

-----------------------------------------------------------------------------
(* What a step may never do                                                *)

(* What a pinned kind may rely on from one step to the next. *)
Keeps(old, new) ==
  /\ new.kind = old.kind
  /\ new.name = old.name
  /\ old.type_id # NoType => new.type_id = old.type_id
  /\ old.flags \ {"TOMBSTONED"} \subseteq new.flags

(* Standing still keeps everything. *)
LEMMA KeepsItself ==
  ASSUME NEW meta
  PROVE  Keeps(meta, meta)
BY DEF Keeps

(* No step removes a pinned kind or takes its name, type or static flags. *)
LEMMA PinnedStep ==
  ASSUME Safe, [Next]_vars
  PROVE  \A i \in DOMAIN kinds : kinds[i].flags \cap {"CORE", "STATIC_TYPE", "STATIC_COMPONENT"} # {} =>
           \E j \in DOMAIN kinds' : Keeps(kinds[i], kinds'[j])
<1>1. Coherent /\ BindingsCoherent /\ Effect
  BY NextIsEffect DEF Safe, IInv
<1>2. ASSUME NEW k \in DOMAIN kind_to_index, NEW m \in Metas,
             kinds' = [kinds EXCEPT ![kind_to_index[k]] = m], Keeps(MetaOf(k), m)
      PROVE  \A i \in DOMAIN kinds : \E j \in DOMAIN kinds' : Keeps(kinds[i], kinds'[j])
  <2>1. /\ DOMAIN kinds' = DOMAIN kinds
        /\ kinds[kind_to_index[k]] = MetaOf(k) /\ kinds'[kind_to_index[k]] = m
        /\ \A i \in DOMAIN kinds : i # kind_to_index[k] => kinds'[i] = kinds[i]
    BY <1>1, <1>2, OverwritePlaces
  <2>2. \A i \in DOMAIN kinds : Keeps(kinds[i], kinds'[i])
    BY <1>2, <2>1, KeepsItself
  <2> QED BY <2>1, <2>2
<1>3. CASE UNCHANGED kinds
  BY <1>3, KeepsItself
<1>4. CASE ExistingEffect
  <2>1. PICK k \in DOMAIN kind_to_index, t \in Types \cup {NoType}, m \in Metas, binds \in BOOLEAN :
          /\ binds = (t # NoType /\ k \notin DOMAIN kind_to_type)
          /\ m.kind = k /\ m.name = MetaOf(k).name
          /\ m.type_id = IF binds THEN t ELSE MetaOf(k).type_id
          /\ MetaOf(k).flags \ {"TOMBSTONED"} \subseteq m.flags
          /\ kinds' = [kinds EXCEPT ![kind_to_index[k]] = m]
    BY <1>1, <1>4, ExistingShape
  <2>2. MetaOf(k).kind = k /\ kind_to_index[k] \in DOMAIN kinds /\ kinds[kind_to_index[k]] = MetaOf(k)
    BY <1>1, <2>1, FoundAt, OverwritePlaces
  <2>3. MetaOf(k).type_id # NoType => ~binds
    BY <1>1, <2>1, <2>2 DEF BindingsCoherent
  <2>4. Keeps(MetaOf(k), m)
    BY <2>1, <2>2, <2>3 DEF Keeps
  <2> QED BY <1>2, <2>1, <2>4
<1>5. CASE NewEffect
  <2>1. DOMAIN kinds \subseteq DOMAIN kinds' /\ \A i \in DOMAIN kinds : kinds'[i] = kinds[i]
    BY <1>1, <1>5, NewShape
  <2> QED BY <2>1, KeepsItself
<1>6. CASE TombstoneEffect
  <2>1. PICK k \in DOMAIN kind_to_index, m \in Metas :
          /\ m.kind = k /\ m.name = MetaOf(k).name /\ m.type_id = MetaOf(k).type_id
          /\ m.flags = MetaOf(k).flags \cup {"TOMBSTONED"}
          /\ kinds' = [kinds EXCEPT ![kind_to_index[k]] = m]
    BY <1>1, <1>6, TombstoneShape
  <2>2. Keeps(MetaOf(k), m)
    BY <1>1, <2>1, FoundAt DEF Keeps
  <2> QED BY <1>2, <2>1, <2>2
<1>7. CASE ReviveEffect
  <2>1. PICK k \in DOMAIN kind_to_index, m \in Metas :
          /\ m.kind = k /\ m.name = MetaOf(k).name /\ m.type_id = MetaOf(k).type_id
          /\ m.flags = MetaOf(k).flags \ {"TOMBSTONED"}
          /\ kinds' = [kinds EXCEPT ![kind_to_index[k]] = m]
    BY <1>1, <1>7, ReviveShape
  <2>2. Keeps(MetaOf(k), m)
    BY <1>1, <2>1, FoundAt DEF Keeps
  <2> QED BY <1>2, <2>1, <2>2
<1>8. CASE UnregisterEffect \/ NamespaceEffect
  <2>1. PICK gone \in SUBSET DOMAIN kinds :
          /\ \A i \in gone : PinFault(kinds[i]) = "Ok"
          /\ \A i \in DOMAIN kinds \ gone : \E r \in DOMAIN kinds' : kinds'[r] = kinds[i]
    BY <1>1, <1>8, RemovalShape
  <2>2. \A i \in gone : kinds[i].flags \cap {"CORE", "STATIC_TYPE", "STATIC_COMPONENT"} = {}
    BY <2>1 DEF PinFault
  <2> QED BY <2>1, <2>2, KeepsItself
<1> QED
  BY <1>1, <1>3, <1>4, <1>5, <1>6, <1>7, <1>8 DEF Effect, EdgeEffect, state

(* Core and static identities survive every call, for the registry's lifetime. *)
THEOREM PinnedForLife == Spec => PinnedIdentities
<1>1. ASSUME Safe, [Next]_vars
      PROVE  [\A i \in DOMAIN kinds : kinds[i].flags \cap {"CORE", "STATIC_TYPE", "STATIC_COMPONENT"} # {} =>
                \E j \in DOMAIN kinds' :
                  /\ kinds'[j].kind = kinds[i].kind
                  /\ kinds'[j].name = kinds[i].name
                  /\ kinds[i].type_id # NoType => kinds'[j].type_id = kinds[i].type_id
                  /\ kinds[i].flags \ {"TOMBSTONED"} \subseteq kinds'[j].flags]_vars
  BY <1>1, PinnedStep DEF Keeps
<1> QED BY <1>1, AlwaysSafe, PTL DEF Spec, PinnedIdentities

(* No step moves a type from one registered kind to another. *)
LEMMA RebindStep ==
  ASSUME Safe, [Next]_vars
  PROVE  \A t \in DOMAIN type_to_kind :
           IF t \in DOMAIN type_to_kind' THEN type_to_kind'[t] = type_to_kind[t]
           ELSE type_to_kind[t] \notin DOMAIN kind_to_index'
<1>1. Coherent /\ BindingsCoherent /\ Effect /\ Coherent' /\ BindingsCoherent'
  BY NextIsEffect, NextPreserves DEF Safe, IInv
<1>2. CASE UNCHANGED type_to_kind
  BY <1>2
<1>3. CASE ExistingEffect
  <2>1. PICK k \in DOMAIN kind_to_index, t \in Types \cup {NoType}, binds \in BOOLEAN :
          /\ binds = (t # NoType /\ k \notin DOMAIN kind_to_type)
          /\ ~TypeClash(k, t)
          /\ type_to_kind' = IF binds THEN Put(type_to_kind, t, k) ELSE type_to_kind
    BY <1>1, <1>3, ExistingShape
  <2>2. binds => t \notin DOMAIN type_to_kind
    BY <1>1, <2>1 DEF TypeClash, BindingsCoherent
  <2> QED BY <2>1, <2>2 DEF Put
<1>4. CASE NewEffect
  <2>1. PICK m \in Metas :
          /\ m.type_id \notin DOMAIN type_to_kind
          /\ type_to_kind' = IF m.type_id # NoType THEN Put(type_to_kind, m.type_id, m.kind)
                             ELSE type_to_kind
    BY <1>1, <1>4, NewShape
  <2> QED BY <2>1 DEF Put
<1>5. CASE TombstoneEffect \/ ReviveEffect
  BY <1>1, <1>2, <1>5, TombstoneShape, ReviveShape DEF maps
<1>6. CASE UnregisterEffect \/ NamespaceEffect
  <2>1. PICK gone \in SUBSET DOMAIN kinds :
          /\ \A r \in DOMAIN kinds' : \E i \in DOMAIN kinds \ gone : kinds'[r] = kinds[i]
          /\ \A i \in DOMAIN kinds \ gone : \E r \in DOMAIN kinds' : kinds'[r] = kinds[i]
    BY <1>1, <1>6, RemovalShape
  <2>2. ASSUME NEW t \in DOMAIN type_to_kind, type_to_kind[t] \in DOMAIN kind_to_index'
        PROVE  t \in DOMAIN type_to_kind' /\ type_to_kind'[t] = type_to_kind[t]
    <3> DEFINE k == type_to_kind[t]
    <3>1. k \in DOMAIN kind_to_type /\ kind_to_type[k] = t /\ k \in DOMAIN kind_to_index /\ t # NoType
      BY <1>1, AtomsAssumption DEF BindingsCoherent, Coherent, TableOK
    <3>2. PICK r \in DOMAIN kinds' : kinds'[r].kind = k
      BY <1>1, <2>2 DEF Coherent, IndexCoherent
    <3>3. PICK i \in DOMAIN kinds : kinds'[r] = kinds[i]
      BY <2>1, <3>2
    <3>4. kinds[i].type_id = t
      BY <1>1, <3>1, <3>2, <3>3 DEF BindingsCoherent
    <3>5. k \in DOMAIN kind_to_type' /\ kind_to_type'[k] = t
      BY <1>1, <3>1, <3>2, <3>3, <3>4 DEF BindingsCoherent
    <3> QED BY <1>1, <3>5 DEF BindingsCoherent
  <2>3. ASSUME NEW t \in DOMAIN type_to_kind, t \in DOMAIN type_to_kind'
        PROVE  type_to_kind'[t] = type_to_kind[t]
    <3> DEFINE k == type_to_kind'[t]
    <3>1. k \in DOMAIN kind_to_type' /\ kind_to_type'[k] = t /\ k \in DOMAIN kind_to_index' /\ t # NoType
      BY <1>1, <2>3, AtomsAssumption DEF BindingsCoherent, Coherent, TableOK
    <3>2. PICK r \in DOMAIN kinds' : kinds'[r].kind = k
      BY <1>1, <3>1 DEF Coherent, IndexCoherent
    <3>3. PICK i \in DOMAIN kinds : kinds'[r] = kinds[i]
      BY <2>1, <3>2
    <3>4. kinds'[r].type_id = t
      BY <1>1, <3>1, <3>2 DEF BindingsCoherent
    <3>5. k \in DOMAIN kind_to_type /\ kind_to_type[k] = t
      BY <1>1, <3>1, <3>2, <3>3, <3>4 DEF BindingsCoherent
    <3> QED BY <1>1, <3>5 DEF BindingsCoherent
  <2> QED BY <2>2, <2>3
<1> QED
  BY <1>1, <1>2, <1>3, <1>4, <1>5, <1>6 DEF Effect, EdgeEffect, state, maps

(* A type keeps its kind until the kind itself is removed. *)
THEOREM TypesStayBound == Spec => NoSilentRebind
<1>1. ASSUME Safe, [Next]_vars
      PROVE  [\A t \in DOMAIN type_to_kind :
                IF t \in DOMAIN type_to_kind' THEN type_to_kind'[t] = type_to_kind[t]
                ELSE type_to_kind[t] \notin DOMAIN kind_to_index']_vars
  BY <1>1, RebindStep
<1> QED BY <1>1, AlwaysSafe, PTL DEF Spec, NoSilentRebind

(* One or two bumps never come back to the same version, even where the
   counter wraps.                                                          *)
LEMMA BumpMoves ==
  ASSUME version \in 0..(VersionModulus - 1), NEW n \in 1..2, Bump(n)
  PROVE  version' # version
<1>1. VersionModulus \in Nat /\ VersionModulus > 2
  BY VersionAssumption
<1>2. version + n < VersionModulus \/ version + n - VersionModulus \in 0..(VersionModulus - 1)
  BY <1>1
<1>3. CASE version + n < VersionModulus
  BY <1>1, <1>3 DEF Bump
<1>4. CASE version + n - VersionModulus \in 0..(VersionModulus - 1)
  <2>1. (version + n) % VersionModulus = version + n - VersionModulus
    BY <1>1, <1>4
  <2> QED BY <1>1, <2>1 DEF Bump
<1> QED BY <1>2, <1>3, <1>4

(* A step that changes the registry changes the version. *)
LEMMA VersionStep ==
  ASSUME Safe, [Next]_vars, state' # state
  PROVE  version' # version
<1>1. Coherent /\ BindingsCoherent /\ Effect /\ version \in 0..(VersionModulus - 1)
  BY NextIsEffect DEF Safe, IInv, Coherent, TableOK
<1>2. Bump(1) => version' # version
  BY <1>1, BumpMoves
<1>3. CASE ExistingEffect
  <2>1. PICK k \in DOMAIN kind_to_index, m \in Metas, binds \in BOOLEAN, n \in 0..2 :
          /\ kinds' = [kinds EXCEPT ![kind_to_index[k]] = m]
          /\ ~binds => UNCHANGED <<kind_to_type, type_to_kind>>
          /\ tombstoned_count' = IF IsTombstoned(MetaOf(k)) /\ ~IsTombstoned(m)
                                 THEN SaturatingDec(tombstoned_count) ELSE tombstoned_count
          /\ Bump(n) /\ (n = 0 => m = MetaOf(k) /\ ~binds)
          /\ UNCHANGED <<kind_to_index, name_to_kind, edges>>
    BY <1>1, <1>3, ExistingShape
  <2>2. n # 0
    <3>1. SUFFICES ASSUME n = 0 PROVE FALSE OBVIOUS
    <3>2. m = MetaOf(k) /\ ~binds BY <2>1, <3>1
    <3>3. kinds \in Seq(Metas) BY <1>1 DEF Coherent, TableOK
    <3>4. kinds' = kinds BY <2>1, <3>2, <3>3 DEF MetaOf
    <3> QED BY <2>1, <3>2, <3>4 DEF state, maps
  <2> QED BY <1>1, <2>1, <2>2, BumpMoves
<1>4. CASE NewEffect
  BY <1>1, <1>2, <1>4, NewShape
<1>5. CASE TombstoneEffect
  BY <1>1, <1>2, <1>5, TombstoneShape
<1>6. CASE ReviveEffect
  BY <1>1, <1>2, <1>6, ReviveShape DEF state
<1>7. CASE UnregisterEffect \/ NamespaceEffect
  BY <1>1, <1>2, <1>7, RemovalShape
<1>8. CASE EdgeEffect
  BY <1>1, <1>2, <1>8 DEF EdgeEffect, state
<1>9. CASE UNCHANGED <<state, version>>
  BY <1>9
<1> QED BY <1>1, <1>3, <1>4, <1>5, <1>6, <1>7, <1>8, <1>9 DEF Effect

(* A step that moves the version changes the registry. *)
LEMMA StateStep ==
  ASSUME Safe, [Next]_vars, version' # version
  PROVE  state' # state
<1>1. Coherent /\ BindingsCoherent /\ Effect /\ version \in 0..(VersionModulus - 1)
  BY NextIsEffect DEF Safe, IInv, Coherent, TableOK
<1>2. kinds \in Seq(Metas) /\ DOMAIN kinds = 1..Len(kinds) /\ Len(kinds) \in Nat
  BY <1>1 DEF Coherent, TableOK
<1>3. \A k \in DOMAIN kind_to_index, m \in Metas :
        kinds' = [kinds EXCEPT ![kind_to_index[k]] = m] /\ m # MetaOf(k) => kinds' # kinds
  BY <1>1, <1>2, FoundAt DEF MetaOf
<1>4. Bump(0) => version' = version
  <2>1. VersionModulus \in Nat /\ VersionModulus > 2
    BY VersionAssumption
  <2> QED BY <1>1, <2>1 DEF Bump
<1>5. CASE ExistingEffect
  <2>1. PICK k \in DOMAIN kind_to_index, t \in Types \cup {NoType}, b \in BaseFlags, rv \in BOOLEAN :
          RegisterExisting(k, t, b, rv)
    BY <1>5 DEF ExistingEffect
  <2>2. kind_to_index[k] \in DOMAIN kinds /\ MetaOf(k) \in Metas /\ kinds[kind_to_index[k]] = MetaOf(k)
    BY <1>1, <1>2, FoundAt DEF MetaOf
  <2>3. CASE t # NoType /\ k \notin DOMAIN kind_to_type
    <3>1. kind_to_type' = Put(kind_to_type, k, t)
      BY <2>1, <2>3 DEF RegisterExisting
    <3>2. k \in DOMAIN kind_to_type'
      BY <3>1 DEF Put
    <3>3. kind_to_type' # kind_to_type
      BY <2>3, <3>2
    <3> QED BY <3>3 DEF state, maps
  <2>4. CASE ~(t # NoType /\ k \notin DOMAIN kind_to_type)
    <3> DEFINE flags == (MetaOf(k).flags \cup b) \ (IF rv THEN {"TOMBSTONED"} ELSE {})
    <3>1. /\ kinds' = [kinds EXCEPT ![kind_to_index[k]] = [MetaOf(k) EXCEPT !.flags = flags]]
          /\ Bump(0 + (IF flags # MetaOf(k).flags THEN 1 ELSE 0))
      BY <2>1, <2>4 DEF RegisterExisting
    <3> HIDE DEF flags
    <3>2. flags # MetaOf(k).flags
      BY <1>4, <3>1
    <3>3. kinds'[kind_to_index[k]].flags = flags
      BY <1>2, <2>2, <3>1 DEF Metas
    <3> QED BY <2>2, <3>2, <3>3 DEF state
  <2> QED BY <2>3, <2>4
<1>6. CASE NewEffect
  <2>1. DOMAIN kinds' # DOMAIN kinds
    BY <1>1, <1>6, NewShape
  <2> QED BY <2>1 DEF state
<1>7. CASE TombstoneEffect
  <2>1. tombstoned_count' = tombstoned_count + 1 /\ tombstoned_count \in Nat
    BY <1>1, <1>7, TombstoneShape DEF Coherent, TableOK
  <2> QED BY <2>1 DEF state
<1>8. CASE ReviveEffect
  <2>1. PICK k \in DOMAIN kind_to_index, m \in Metas :
          /\ m.flags = MetaOf(k).flags \ {"TOMBSTONED"}
          /\ kinds' = [kinds EXCEPT ![kind_to_index[k]] = m]
          /\ ~IsTombstoned(MetaOf(k)) => UNCHANGED version
    BY <1>1, <1>8, ReviveShape
  <2>2. m # MetaOf(k)
    BY <2>1 DEF IsTombstoned
  <2> QED BY <1>3, <2>1, <2>2 DEF state
<1>9. CASE UnregisterEffect
  <2>1. PICK k \in DOMAIN kind_to_index : Unregister(k)
    BY <1>9 DEF UnregisterEffect
  <2>2. kinds' = SwapRemove(kinds, kind_to_index[k]) /\ kind_to_index[k] \in 1..Len(kinds)
    BY <1>1, <1>2, <2>1, FoundAt DEF Unregister
  <2>3. DOMAIN kinds' = 1..(Len(kinds) - 1) /\ Len(kinds) \notin 1..(Len(kinds) - 1) /\ Len(kinds) \in DOMAIN kinds
    BY <1>2, <2>2 DEF SwapRemove
  <2> QED BY <2>3 DEF state
<1>10. CASE NamespaceEffect
  <2>1. PICK places \in SUBSET DOMAIN kinds : places # {} /\ UnregisterPlaces(places)
    BY <1>10 DEF NamespaceEffect
  <2>2. PICK p \in places : TRUE
    BY <2>1
  <2>3. DOMAIN kind_to_index' = {kinds[i].kind : i \in DOMAIN kinds \ places}
    BY <2>1 DEF UnregisterPlaces
  <2>4. kinds[p].kind \in DOMAIN kind_to_index /\ kinds[p].kind \notin DOMAIN kind_to_index'
    BY <1>1, <2>2, <2>3 DEF Coherent, IndexCoherent
  <2>5. kind_to_index' # kind_to_index
    BY <2>4
  <2> QED BY <2>5 DEF state, maps
<1>11. CASE EdgeEffect
  <2>1. edges' # edges
    BY <1>4, <1>11 DEF EdgeEffect
  <2> QED BY <2>1 DEF state
<1>12. CASE UNCHANGED <<state, version>>
  BY <1>12
<1> QED BY <1>1, <1>5, <1>6, <1>7, <1>8, <1>9, <1>10, <1>11, <1>12 DEF Effect

(* The version moves with every change and only with one: what a cache keyed
   by it relies on, and why it is not invalidated for nothing.             *)
THEOREM VersionMoves == Spec => VersionTracksState
<1>1. ASSUME Safe, [Next]_vars
      PROVE  [state' # state <=> version' # version]_vars
  BY <1>1, VersionStep, StateStep
<1> QED BY <1>1, AlwaysSafe, PTL DEF Spec, VersionTracksState

-----------------------------------------------------------------------------
(* The registry implements Ontology: the seeded registry is an ontology, and
   every step of the registry is a step of the ontology or leaves it as it
   is.

   Lookups go through two hash maps (IdentityOf); while the tables are
   coherent they return what the vector holds (Reading), so the vector alone
   decides which identities there are.  A step has one of the eight effects
   above, and each is matched with one action.                             *)


(* The identities that lookups find. *)
IdentitiesFound == {IdentityOf(k) : k \in DOMAIN kind_to_index}

(* The identity that metadata records. *)
Recorded(m) ==
  [kind |-> m.kind, name |-> m.name, type |-> m.type_id,
   pinned |-> PinFault(m) # "Ok", live |-> ~IsTombstoned(m)]

(* Lookups find what the vector records, everything in it and under keys of
   its own.                                                                *)
Reading ==
  /\ kinds \in Seq(Metas)
  /\ \A k \in DOMAIN kind_to_index : IdentityOf(k) = Recorded(MetaOf(k))
  /\ IdentitiesFound = {Recorded(kinds[i]) : i \in DOMAIN kinds}
  /\ \A i, j \in DOMAIN kinds : i # j => Promised!Apart(Recorded(kinds[i]), Recorded(kinds[j]))

-----------------------------------------------------------------------------
(* What coherence says of lookups                                          *)

(* Metadata records an identity. *)
LEMMA RecordedTyped ==
  ASSUME NEW m \in Metas
  PROVE  Recorded(m) \in Promised!Identity
BY DEF Recorded, Metas, Promised!Identity

(* Coherent tables read like their vector. *)
LEMMA CoherentReads == Coherent /\ BindingsCoherent => Reading
<1>1. SUFFICES ASSUME Coherent, BindingsCoherent PROVE Reading
  OBVIOUS
<1>2. kinds \in Seq(Metas) /\ \A i \in DOMAIN kinds : kinds[i] \in Metas
  BY <1>1 DEF Coherent, TableOK
<1>3. /\ DOMAIN kind_to_index = {kinds[i].kind : i \in DOMAIN kinds}
      /\ \A i \in DOMAIN kinds : MetaOf(kinds[i].kind) = kinds[i]
  BY <1>1 DEF Coherent, IndexCoherent, MetaOf
<1>4. ASSUME NEW k \in DOMAIN kind_to_index
      PROVE  IdentityOf(k) = Recorded(MetaOf(k))
  <2>1. PICK i \in DOMAIN kinds : kinds[i].kind = k
    BY <1>3
  <2>2. MetaOf(k) = kinds[i] /\ MetaOf(k).kind = k
    BY <1>3, <2>1
  <2>3. MetaOf(k).type_id = IF k \in DOMAIN kind_to_type THEN kind_to_type[k] ELSE NoType
    BY <1>1, <2>1, <2>2 DEF BindingsCoherent
  <2> QED BY <2>2, <2>3 DEF IdentityOf, Recorded
<1>5. IdentitiesFound = {Recorded(kinds[i]) : i \in DOMAIN kinds}
  BY <1>3, <1>4 DEF IdentitiesFound
<1>6. ASSUME NEW i \in DOMAIN kinds, NEW j \in DOMAIN kinds, i # j
      PROVE  Promised!Apart(Recorded(kinds[i]), Recorded(kinds[j]))
  <2>1. kinds[i].kind # kinds[j].kind
    BY <1>1, <1>6 DEF Coherent, IndexCoherent
  <2>2. kinds[i].name # kinds[j].name
    BY <1>1, <2>1 DEF Coherent, NamesCoherent
  <2>3. kinds[i].type_id # NoType => kinds[i].type_id # kinds[j].type_id
    <3>1. SUFFICES ASSUME kinds[i].type_id # NoType, kinds[i].type_id = kinds[j].type_id PROVE FALSE
      OBVIOUS
    <3>2. /\ kinds[i].kind \in DOMAIN kind_to_type /\ kind_to_type[kinds[i].kind] = kinds[i].type_id
          /\ kinds[j].kind \in DOMAIN kind_to_type /\ kind_to_type[kinds[j].kind] = kinds[i].type_id
      BY <1>1, <3>1 DEF BindingsCoherent
    <3>3. type_to_kind[kinds[i].type_id] = kinds[i].kind /\ type_to_kind[kinds[i].type_id] = kinds[j].kind
      BY <1>1, <3>2 DEF BindingsCoherent
    <3> QED BY <2>1, <3>3
  <2> QED BY <2>1, <2>2, <2>3 DEF Promised!Apart, Recorded
<1> QED BY <1>2, <1>4, <1>5, <1>6 DEF Reading

(* So they do after a step. *)
LEMMA CoherentReadsNext == Coherent' /\ BindingsCoherent' => Reading'
BY CoherentReads, PTL

(* The kinds of an ontology that are live are those edges may mention. *)
LEMMA LiveIsActive ==
  ASSUME Reading, Coherent, NEW k, ActiveFault(k) = "Ok"
  PROVE  k \in {id.kind : id \in {i \in IdentitiesFound : i.live}}
<1>1. k \in DOMAIN kind_to_index /\ ~IsTombstoned(MetaOf(k))
  BY DEF ActiveFault
<1>2. IdentityOf(k) \in IdentitiesFound /\ IdentityOf(k).kind = k /\ IdentityOf(k).live
  BY <1>1 DEF IdentitiesFound, IdentityOf
<1> QED BY <1>2

(* A kind is found where the vector has it. *)
LEMMA PlaceFound ==
  ASSUME Coherent, NEW k \in DOMAIN kind_to_index
  PROVE  /\ kind_to_index[k] \in DOMAIN kinds
         /\ kinds[kind_to_index[k]] = MetaOf(k)
         /\ MetaOf(k) \in Metas /\ MetaOf(k).kind = k
<1>1. kind_to_index[k] \in 1..Len(kinds) /\ MetaOf(k) \in Metas /\ MetaOf(k).kind = k
  BY FoundAt
<1>2. DOMAIN kinds = 1..Len(kinds)
  BY DEF Coherent, TableOK
<1> QED BY <1>1, <1>2 DEF MetaOf

-----------------------------------------------------------------------------
(* Each effect is an action of the ontology                                *)

(* Overwriting one place replaces one identity by one that is apart from all
   the others.                                                             *)
LEMMA OverwriteReplaces ==
  ASSUME Coherent, Reading, Reading', NEW k \in DOMAIN kind_to_index, NEW m \in Metas,
         kinds' = [kinds EXCEPT ![kind_to_index[k]] = m]
  PROVE  /\ Recorded(MetaOf(k)) \in IdentitiesFound
         /\ IdentitiesFound' = (IdentitiesFound \ {Recorded(MetaOf(k))}) \cup {Recorded(m)}
         /\ \A other \in IdentitiesFound \ {Recorded(MetaOf(k))} : Promised!Apart(Recorded(m), other)
<1> DEFINE idx == kind_to_index[k]
<1>1. /\ DOMAIN kinds' = DOMAIN kinds
      /\ idx \in DOMAIN kinds /\ kinds[idx] = MetaOf(k) /\ kinds'[idx] = m
      /\ \A i \in DOMAIN kinds : i # idx => kinds'[i] = kinds[i]
  BY OverwritePlaces
<1> HIDE DEF idx
<1>2. IdentitiesFound = {Recorded(kinds[i]) : i \in DOMAIN kinds}
  BY DEF Reading
<1>3. IdentitiesFound' = {Recorded(kinds'[i]) : i \in DOMAIN kinds'}
  BY DEF Reading, Recorded, PinFault, IsTombstoned
<1>4. \A i \in DOMAIN kinds : i # idx => Recorded(kinds[i]) # Recorded(kinds[idx])
  BY <1>1 DEF Reading, Promised!Apart
<1>5. \A i, j \in DOMAIN kinds' : i # j => Promised!Apart(Recorded(kinds'[i]), Recorded(kinds'[j]))
  BY DEF Reading, Recorded, PinFault, IsTombstoned, Promised!Apart
<1>6. IdentitiesFound \ {Recorded(MetaOf(k))} = {Recorded(kinds[i]) : i \in DOMAIN kinds \ {idx}}
  BY <1>1, <1>2, <1>4
<1>7. IdentitiesFound' = {Recorded(kinds[i]) : i \in DOMAIN kinds \ {idx}} \cup {Recorded(m)}
  BY <1>1, <1>3
<1>8. \A i \in DOMAIN kinds \ {idx} : Promised!Apart(Recorded(m), Recorded(kinds[i]))
  BY <1>1, <1>5
<1> QED BY <1>1, <1>2, <1>6, <1>7, <1>8

(* Registering a known kind, binding a type to it, or reviving it, restates
   its identity.                                                           *)
LEMMA RestateStep ==
  ASSUME Coherent, BindingsCoherent, Reading, Reading', ExistingEffect \/ ReviveEffect
  PROVE  Promised!Restate
<1>1. PICK k \in DOMAIN kind_to_index, m \in Metas :
        /\ m.kind = k /\ m.name = MetaOf(k).name
        /\ MetaOf(k).type_id # NoType => m.type_id = MetaOf(k).type_id
        /\ MetaOf(k).flags \ {"TOMBSTONED"} \subseteq m.flags
        /\ IsTombstoned(m) => IsTombstoned(MetaOf(k))
        /\ kinds' = [kinds EXCEPT ![kind_to_index[k]] = m]
        /\ UNCHANGED edges
  <2>1. CASE ExistingEffect
    <3>1. PICK k \in DOMAIN kind_to_index, t \in Types \cup {NoType}, m \in Metas, binds \in BOOLEAN :
            /\ binds = (t # NoType /\ k \notin DOMAIN kind_to_type)
            /\ m.kind = k /\ m.name = MetaOf(k).name
            /\ m.type_id = IF binds THEN t ELSE MetaOf(k).type_id
            /\ MetaOf(k).flags \ {"TOMBSTONED"} \subseteq m.flags
            /\ IsTombstoned(m) => IsTombstoned(MetaOf(k))
            /\ kinds' = [kinds EXCEPT ![kind_to_index[k]] = m]
            /\ UNCHANGED edges
      BY <2>1, ExistingShape
    <3>2. kind_to_index[k] \in DOMAIN kinds /\ kinds[kind_to_index[k]] = MetaOf(k) /\ MetaOf(k).kind = k
      BY <3>1, PlaceFound
    <3>3. MetaOf(k).type_id # NoType => ~binds
      BY <3>1, <3>2 DEF BindingsCoherent
    <3> QED BY <3>1, <3>3
  <2>2. CASE ReviveEffect
    <3>1. PICK k \in DOMAIN kind_to_index, m \in Metas :
            /\ m.kind = k /\ m.name = MetaOf(k).name /\ m.type_id = MetaOf(k).type_id
            /\ m.flags = MetaOf(k).flags \ {"TOMBSTONED"}
            /\ kinds' = [kinds EXCEPT ![kind_to_index[k]] = m]
            /\ UNCHANGED edges
      BY <2>2, ReviveShape
    <3>2. ~IsTombstoned(m)
      BY <3>1 DEF IsTombstoned
    <3> QED BY <3>1, <3>2
  <2> QED BY <2>1, <2>2
<1> DEFINE id == Recorded(MetaOf(k))
           new == Recorded(m)
<1>2. id \in IdentitiesFound /\ IdentitiesFound' = (IdentitiesFound \ {id}) \cup {new} /\ \A other \in IdentitiesFound \ {id} : Promised!Apart(new, other)
  BY <1>1, OverwriteReplaces
<1>3. new \in Promised!Identity
  BY RecordedTyped
<1>4. new.kind = id.kind /\ new.name = id.name /\ (id.type # NoType => new.type = id.type)
  BY <1>1, PlaceFound DEF Recorded
<1>5. (id.pinned => new.pinned) /\ (id.live => new.live)
  BY <1>1 DEF Recorded, PinFault
<1> HIDE DEF id, new
<1> QED BY <1>1, <1>2, <1>3, <1>4, <1>5 DEF Promised!Restate, IdentitiesFound

(* Tombstoning retires an identity and drops its links. *)
LEMMA RetireStep ==
  ASSUME Coherent, Reading, Reading', TombstoneEffect
  PROVE  Promised!Retire
<1>1. PICK k \in DOMAIN kind_to_index, m \in Metas :
        /\ ~IsTombstoned(MetaOf(k))
        /\ m.kind = k /\ m.name = MetaOf(k).name /\ m.type_id = MetaOf(k).type_id
        /\ m.flags = MetaOf(k).flags \cup {"TOMBSTONED"}
        /\ kinds' = [kinds EXCEPT ![kind_to_index[k]] = m]
        /\ edges' = edges \ IncidentTo({k})
  BY TombstoneShape
<1> DEFINE id == Recorded(MetaOf(k))
<1>2. id \in IdentitiesFound /\ IdentitiesFound' = (IdentitiesFound \ {id}) \cup {Recorded(m)}
  BY <1>1, OverwriteReplaces
<1>3. id.live /\ id.kind = k
  BY <1>1, PlaceFound DEF Recorded
<1>4. PinFault(m) # "Ok" <=> PinFault(MetaOf(k)) # "Ok"
  BY <1>1 DEF PinFault
<1>5. Recorded(m) = [id EXCEPT !.live = FALSE]
  <2>1. id \in Promised!Identity /\ Recorded(m) \in Promised!Identity
    BY PlaceFound, RecordedTyped
  <2>2. /\ Recorded(m).kind = id.kind /\ Recorded(m).name = id.name /\ Recorded(m).type = id.type
        /\ Recorded(m).pinned = id.pinned /\ ~Recorded(m).live
    BY <1>1, <1>4, PlaceFound DEF Recorded, IsTombstoned
  <2> HIDE DEF id
  <2> QED BY <2>1, <2>2 DEF Promised!Identity
<1>6. edges' = Promised!LinksWithout({id.kind})
  BY <1>1, <1>3 DEF Promised!LinksWithout, IncidentTo
<1> HIDE DEF id
<1> QED BY <1>2, <1>3, <1>5, <1>6 DEF Promised!Retire, IdentitiesFound

(* A new kind introduces an identity that takes nothing in use. *)
LEMMA IntroduceStep ==
  ASSUME Coherent, Reading, Reading', NewEffect
  PROVE  Promised!Introduce
<1> DEFINE top == Len(kinds) + 1
<1>1. PICK m \in Metas :
        /\ ~IsTombstoned(m)
        /\ DOMAIN kinds' = DOMAIN kinds \cup {top} /\ top \notin DOMAIN kinds
        /\ kinds'[top] = m /\ \A i \in DOMAIN kinds : kinds'[i] = kinds[i]
        /\ UNCHANGED edges
  BY NewShape
<1> HIDE DEF top
<1>2. IdentitiesFound = {Recorded(kinds[i]) : i \in DOMAIN kinds}
  BY DEF Reading
<1>3. IdentitiesFound' = {Recorded(kinds'[i]) : i \in DOMAIN kinds'}
  BY DEF Reading, Recorded, PinFault, IsTombstoned
<1>4. \A i, j \in DOMAIN kinds' : i # j => Promised!Apart(Recorded(kinds'[i]), Recorded(kinds'[j]))
  BY DEF Reading, Recorded, PinFault, IsTombstoned, Promised!Apart
<1>5. IdentitiesFound' = IdentitiesFound \cup {Recorded(m)}
  BY <1>1, <1>2, <1>3
<1>6. \A other \in IdentitiesFound : Promised!Apart(Recorded(m), other)
  BY <1>1, <1>2, <1>4
<1>7. Recorded(m) \in Promised!Identity /\ Recorded(m).live
  BY <1>1, RecordedTyped DEF Recorded
<1> QED BY <1>1, <1>5, <1>6, <1>7 DEF Promised!Introduce, IdentitiesFound

(* Removing a kind or a namespace forgets unpinned identities and their
   links, and no others.                                                   *)
LEMMA ForgetStep ==
  ASSUME Coherent, Reading, Reading', UnregisterEffect \/ NamespaceEffect
  PROVE  Promised!Forget
<1>1. PICK gone \in SUBSET DOMAIN kinds :
        /\ \A i \in gone : PinFault(kinds[i]) = "Ok"
        /\ \A r \in DOMAIN kinds' : \E i \in DOMAIN kinds \ gone : kinds'[r] = kinds[i]
        /\ \A i \in DOMAIN kinds \ gone : \E r \in DOMAIN kinds' : kinds'[r] = kinds[i]
        /\ edges' = edges \ IncidentTo({kinds[i].kind : i \in gone})
  BY RemovalShape
<1> DEFINE lost == {Recorded(kinds[i]) : i \in gone}
<1>2. IdentitiesFound = {Recorded(kinds[i]) : i \in DOMAIN kinds}
  BY DEF Reading
<1>3. IdentitiesFound' = {Recorded(kinds'[i]) : i \in DOMAIN kinds'}
  BY DEF Reading, Recorded, PinFault, IsTombstoned
<1>4. \A i, j \in DOMAIN kinds : i # j => Recorded(kinds[i]) # Recorded(kinds[j])
  BY DEF Reading, Promised!Apart
<1>5. lost \in SUBSET {id \in IdentitiesFound : ~id.pinned}
  <2>1. \A i \in gone : ~Recorded(kinds[i]).pinned
    BY <1>1 DEF Recorded
  <2> QED BY <1>1, <1>2, <2>1
<1>6. IdentitiesFound' = {Recorded(kinds[i]) : i \in DOMAIN kinds \ gone}
  BY <1>1, <1>3
<1>7. IdentitiesFound' = IdentitiesFound \ lost
  BY <1>2, <1>4, <1>6
<1>8. {id.kind : id \in lost} = {kinds[i].kind : i \in gone}
  <2>1. \A i \in gone : Recorded(kinds[i]).kind = kinds[i].kind
    BY DEF Recorded
  <2> QED BY <2>1
<1>9. edges' = Promised!LinksWithout({id.kind : id \in lost})
  BY <1>1, <1>8 DEF Promised!LinksWithout, IncidentTo
<1> HIDE DEF lost
<1> QED BY <1>5, <1>7, <1>9 DEF Promised!Forget, IdentitiesFound

(* As long as the vector stands, so do the identities. *)
LEMMA IdentitiesStand ==
  ASSUME Reading, Reading', UNCHANGED kinds
  PROVE  IdentitiesFound' = IdentitiesFound
<1>1. IdentitiesFound = {Recorded(kinds[i]) : i \in DOMAIN kinds}
  BY DEF Reading
<1>2. IdentitiesFound' = {Recorded(kinds'[i]) : i \in DOMAIN kinds'}
  BY DEF Reading, Recorded, PinFault, IsTombstoned
<1> QED BY <1>1, <1>2

(* Edges are added between live kinds only, or taken away. *)
LEMMA RelinkStep ==
  ASSUME Coherent, Reading, Reading', EdgeEffect
  PROVE  Promised!Relink
<1> DEFINE live == {id.kind : id \in {i \in IdentitiesFound : i.live}}
<1>1. IdentitiesFound' = IdentitiesFound
  BY IdentitiesStand DEF EdgeEffect
<1>2. ASSUME NEW e \in edges' \ edges
      PROVE  e \in live \X live \X live
  <2>1. e \in Triples /\ \A j \in 1..3 : ActiveFault(e[j]) = "Ok"
    BY <1>2 DEF EdgeEffect
  <2>2. e[1] \in live /\ e[2] \in live /\ e[3] \in live
    BY <2>1, LiveIsActive
  <2> HIDE DEF live
  <2> QED BY <2>1, <2>2 DEF Triples
<1>3. live = Promised!LiveKinds
  BY DEF Promised!LiveKinds, IdentitiesFound
<1> HIDE DEF live
<1>4. edges' \subseteq edges \cup (live \X live \X live)
  BY <1>2
<1> QED BY <1>1, <1>3, <1>4 DEF Promised!Relink, EdgeEffect, IdentitiesFound

-----------------------------------------------------------------------------
(* The refinement                                                          *)

(* Whatever a call does, it is a step of the ontology or leaves it as it is. *)
LEMMA StepsArePromised ==
  ASSUME Safe, [Next]_vars
  PROVE  [Promised!OntologyNext]_(Promised!ontologyVars)
<1>1. Coherent /\ BindingsCoherent /\ Effect /\ Coherent' /\ BindingsCoherent'
  BY NextIsEffect, NextPreserves DEF Safe, IInv
<1>2. Reading /\ Reading'
  BY <1>1, CoherentReads, CoherentReadsNext
<1>3. CASE UNCHANGED <<state, version>>
  <2>1. IdentitiesFound' = IdentitiesFound /\ edges' = edges
    BY <1>2, <1>3, IdentitiesStand DEF state
  <2> QED BY <2>1 DEF Promised!ontologyVars, IdentitiesFound
<1>4. CASE ExistingEffect \/ ReviveEffect
  BY <1>1, <1>2, <1>4, RestateStep DEF Promised!OntologyNext
<1>5. CASE NewEffect
  BY <1>1, <1>2, <1>5, IntroduceStep DEF Promised!OntologyNext
<1>6. CASE TombstoneEffect
  BY <1>1, <1>2, <1>6, RetireStep DEF Promised!OntologyNext
<1>7. CASE UnregisterEffect \/ NamespaceEffect
  BY <1>1, <1>2, <1>7, ForgetStep DEF Promised!OntologyNext
<1>8. CASE EdgeEffect
  BY <1>1, <1>2, <1>8, RelinkStep DEF Promised!OntologyNext
<1> QED BY <1>1, <1>3, <1>4, <1>5, <1>6, <1>7, <1>8 DEF Effect

(* The seeded registry is an ontology of live core identities. *)
LEMMA SeedsPromised ==
  ASSUME Init
  PROVE  Promised!OntologyInit
<1>1. Safe /\ Coherent /\ BindingsCoherent
  BY InitSafe DEF Safe, IInv
<1>2. Reading
  BY <1>1, CoherentReads
<1>3. \A i \in DOMAIN kinds : kinds[i] \in Metas /\ kinds[i].flags = {"CORE"} /\ kinds[i].type_id = NoType
  BY <1>1 DEF Init, Coherent, TableOK
<1>4. ASSUME NEW i \in DOMAIN kinds
      PROVE  /\ Recorded(kinds[i]) \in Promised!Identity
             /\ Recorded(kinds[i]).pinned /\ Recorded(kinds[i]).live
             /\ Recorded(kinds[i]).type = NoType
  <2>1. PinFault(kinds[i]) # "Ok" /\ ~IsTombstoned(kinds[i]) /\ kinds[i].type_id = NoType
    BY <1>3, <1>4 DEF PinFault, IsTombstoned
  <2>2. /\ Recorded(kinds[i]).pinned /\ Recorded(kinds[i]).live
        /\ Recorded(kinds[i]).type = NoType
    BY <2>1 DEF Recorded
  <2> QED BY <1>3, <1>4, <2>2, RecordedTyped
<1>5. IdentitiesFound \subseteq {id \in Promised!Identity : id.pinned /\ id.live /\ id.type = NoType}
  BY <1>2, <1>4 DEF Reading
<1>6. \A id, other \in IdentitiesFound : id # other => Promised!Apart(id, other)
  BY <1>2 DEF Reading
<1>7. edges \subseteq Promised!LiveKinds \X Promised!LiveKinds \X Promised!LiveKinds
  <2> DEFINE live == {id.kind : id \in {i \in IdentitiesFound : i.live}}
  <2>1. \A e \in edges : e \in Triples /\ \A j \in 1..3 : e[j] \in live
    BY <1>1, <1>2, LiveIsActive DEF Safe, EdgesActive, Coherent, TableOK
  <2>2. live = Promised!LiveKinds
    BY DEF Promised!LiveKinds, IdentitiesFound
  <2> HIDE DEF live
  <2>3. \A e \in edges : e \in live \X live \X live
    BY <2>1 DEF Triples
  <2> QED BY <2>2, <2>3
<1> QED BY <1>5, <1>6, <1>7 DEF Promised!OntologyInit, IdentitiesFound

(* The registry keeps what it promises its callers: however operations
   rearrange the vector and its maps, what lookups return changes only by
   introducing, restating, retiring and forgetting whole identities, no
   pinned one is forgotten, and links only join live kinds.                *)
THEOREM RegistryImplementsOntology == Spec => ImplementsOntology
<1>1. Init => Promised!OntologyInit
  BY SeedsPromised
<1>2. Safe /\ [Next]_vars => [Promised!OntologyNext]_(Promised!ontologyVars)
  BY StepsArePromised
<1> QED BY <1>1, <1>2, AlwaysSafe, PTL DEF Spec, ImplementsOntology, Promised!OntologySpec
=============================================================================
