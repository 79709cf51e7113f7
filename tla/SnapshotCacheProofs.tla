------------------------- MODULE SnapshotCacheProofs -------------------------
(***************************************************************************)
(* What SnapshotCache promises, for any number of readers and any registry: *)
(* the invariants and the action property of the run snapshot_cache.       *)
(*                                                                         *)
(* The registry half is Safe of SemanticRegistryProofs: an edit is a step  *)
(* of the registry, and a restored clone brings back tables that were safe  *)
(* when they were saved (BackupSound).  The cache half says how every       *)
(* snapshot somebody still has relates to the registry of the moment       *)
(* (Past): of an older lineage, or an older version, or the registry.      *)
(***************************************************************************)
EXTENDS SnapshotCache, SemanticRegistryProofs

(* The registry as the clone would bring it back. *)
Saved == INSTANCE SemanticRegistry
  WITH kinds <- backup.kinds, kind_to_index <- backup.kind_to_index,
       name_to_kind <- backup.name_to_kind, type_to_kind <- backup.type_to_kind,
       kind_to_type <- backup.kind_to_type, edges <- backup.edges,
       tombstoned_count <- backup.tombstoned_count, version <- backup.version,
       validated <- <<>>, outcome <- "Ok"

(* A saved clone is a safe registry of the next lineage. *)
BackupSound ==
  backup # NoBackup =>
    /\ backup.lineage = lineage + 1
    /\ Saved!TypeOK /\ Saved!RegistryCoherent
    /\ Saved!EdgesActive /\ Saved!TombstoneCountExact

(* The snapshots that somebody still has. *)
Kept == ({snapshot_cache} \cup {held[r] : r \in Readers} \cup {built[r] : r \in Readers})
          \ {NoSnapshot}

SameKey(s, t) == s.lineage = t.lineage /\ s.version = t.version

(* The edges of a snapshot only mention its kinds. *)
Closed(s) ==
  \A e \in s.edges : \A j \in 1..3 : \E i \in DOMAIN s.kinds : s.kinds[i].kind = e[j]

(* Where a snapshot stands to the registry of the moment. *)
Past(s) ==
  /\ s.lineage <= lineage
  /\ s.lineage = lineage => s.version <= version
  /\ SameKey(s, SnapshotNow) => s = SnapshotNow

(* An outdated snapshot in the cache is one a bulk edit is yet to drop. *)
CacheTracked ==
  snapshot_cache # NoSnapshot =>
    /\ snapshot_cache.lineage = lineage
    /\ snapshot_cache = SnapshotNow \/ (bulk_dirty /\ bulk_depth > 0)

(* What is known of the snapshots somebody still has. *)
KeptSound ==
  /\ \A s \in Kept : Closed(s) /\ Past(s)
  /\ \A s, t \in Kept : SameKey(s, t) => s = t

(* A bulk edit is accounted for, and outside one the depth keeps its bound. *)
DepthSound ==
  /\ DepthCoversSession
  /\ Idle => bulk_depth <= MaxDepth

(* The inductive invariant. *)
SessionInv ==
  /\ Safe
  /\ SessionTypeOK
  /\ KeptSound
  /\ CacheTracked
  /\ DepthSound
  /\ \A r \in Readers : built[r] # NoSnapshot => built[r] = SnapshotNow
  /\ BackupSound

-----------------------------------------------------------------------------
(* Snapshots of the registry                                               *)

(* What a snapshot lists are kinds of the registry, each live one among them. *)
LEMMA ExposedKinds ==
  ASSUME Safe
  PROVE  /\ Exposed \in Seq(Metas)
         /\ \A i \in DOMAIN Exposed : \E j \in DOMAIN kinds : Exposed[i] = kinds[j] /\ ~IsTombstoned(kinds[j])
         /\ \A j \in DOMAIN kinds : ~IsTombstoned(kinds[j]) => \E i \in DOMAIN Exposed : Exposed[i] = kinds[j]
<1> DEFINE live == {i \in DOMAIN kinds : ~IsTombstoned(kinds[i])}
           dead == {i \in DOMAIN kinds : IsTombstoned(kinds[i])}
<1>1. kinds \in Seq(Metas) /\ DOMAIN kinds = 1..Len(kinds) /\ Len(kinds) \in Nat
  BY DEF Safe, IInv, Coherent, TableOK
<1>2. CASE tombstoned_count = 0
  <2>1. IsFiniteSet(dead)
    <3>1. IsFiniteSet(1..Len(kinds)) BY <1>1, FS_Interval
    <3> QED BY <1>1, <3>1, FS_Subset
  <2>2. Cardinality(dead) = 0
    BY <1>2 DEF Safe, TombstoneCountExact
  <2>3. dead = {}
    BY <2>1, <2>2, FS_EmptySet
  <2>4. Exposed = kinds BY <1>2 DEF Exposed
  <2> QED BY <1>1, <2>3, <2>4
<1>3. CASE tombstoned_count # 0
  <2>1. Exposed = Retain(kinds, live) BY <1>3 DEF Exposed
  <2>2. live \in SUBSET (1..Len(kinds)) BY <1>1
  <2>3. \A i \in live : i \in DOMAIN kinds /\ ~IsTombstoned(kinds[i])
    OBVIOUS
  <2>4. \A j \in DOMAIN kinds : ~IsTombstoned(kinds[j]) => j \in live
    OBVIOUS
  <2> HIDE DEF live
  <2>5. /\ Exposed \in Seq(Metas) /\ DOMAIN Exposed = 1..Cardinality(live)
        /\ \A i \in live : Rank(live, i) \in 1..Cardinality(live) /\ Exposed[Rank(live, i)] = kinds[i]
        /\ \A r \in 1..Cardinality(live) : \E i \in live : r = Rank(live, i) /\ Exposed[r] = kinds[i]
    BY <1>1, <2>1, <2>2, RetainPlaces
  <2> QED BY <2>3, <2>4, <2>5
<1> QED BY <1>2, <1>3

(* A snapshot is typed, and closed because no edge dangles. *)
LEMMA SnapshotSound ==
  ASSUME Safe, lineage \in 1..MaxLineage
  PROVE  SnapshotNow \in Snapshots /\ Closed(SnapshotNow)
<1> DEFINE listed == [i \in DOMAIN Exposed |-> [kind |-> Exposed[i].kind, name |-> Exposed[i].name,
                                                type_id |-> Exposed[i].type_id]]
           Entries == [kind : Kinds, name : Names, type_id : Types \cup {NoType}]
<1>1. Exposed \in Seq(Metas) /\ DOMAIN Exposed = 1..Len(Exposed) /\ Len(Exposed) \in Nat
  BY ExposedKinds
<1>2. \A i \in 1..Len(Exposed) : Exposed[i] \in Metas
  BY <1>1
<1>3. \A i \in 1..Len(Exposed) : [kind |-> Exposed[i].kind, name |-> Exposed[i].name,
                                  type_id |-> Exposed[i].type_id] \in Entries
  BY <1>2 DEF Metas
<1>4. listed \in Seq(Entries)
  BY <1>1, <1>3
<1>5. version \in 0..(VersionModulus - 1) /\ edges \in SUBSET Triples
  BY DEF Safe, IInv, Coherent, TableOK
<1>6. SnapshotNow = [lineage |-> lineage, version |-> version, kinds |-> listed, edges |-> edges]
  BY DEF SnapshotNow
<1>7. SnapshotNow \in Snapshots
  BY <1>4, <1>5, <1>6 DEF Snapshots
<1>8. ASSUME NEW e \in edges, NEW j \in 1..3
      PROVE  \E i \in DOMAIN listed : listed[i].kind = e[j]
  <2>1. Active(e[j])
    BY EdgesAndActivity DEF Safe
  <2>2. kind_to_index[e[j]] \in DOMAIN kinds /\ MetaOf(e[j]).kind = e[j]
    BY <2>1, FoundAt DEF Active, Safe, IInv, Coherent, TableOK
  <2>3. PICK i \in DOMAIN Exposed : Exposed[i] = MetaOf(e[j])
    BY <2>1, <2>2, ExposedKinds DEF Active, MetaOf
  <2> QED BY <2>2, <2>3
<1> QED BY <1>6, <1>7, <1>8 DEF Closed

-----------------------------------------------------------------------------
(* Edits of the registry                                                   *)

(* Below the bound on edits the version only grows. *)
LEMMA VersionGrows ==
  ASSUME Safe, [Next]_vars, NoWrap
  PROVE  version \in Nat /\ version' \in Nat /\ version' >= version
<1>1. Coherent /\ BindingsCoherent /\ Effect /\ version \in 0..(VersionModulus - 1)
  BY NextIsEffect DEF Safe, IInv, Coherent, TableOK
<1>2. VersionModulus \in Nat /\ version \in Nat
  BY <1>1, VersionAssumption
<1>3. ASSUME NEW n \in 0..2, Bump(n) PROVE version' = version + n
  <2>1. (version + n) % VersionModulus = version + n
    BY <1>2 DEF NoWrap
  <2> QED BY <1>3, <2>1 DEF Bump
<1>4. CASE \E n \in 0..2 : Bump(n)
  BY <1>2, <1>3, <1>4
<1>5. CASE UNCHANGED version
  BY <1>2, <1>5
<1>6. CASE ExistingEffect
  BY <1>1, <1>4, <1>6, ExistingShape
<1>7. CASE NewEffect
  BY <1>1, <1>4, <1>7, NewShape
<1>8. CASE TombstoneEffect
  <2>1. Bump(1) BY <1>1, <1>8, TombstoneShape
  <2> QED BY <1>4, <2>1
<1>9. CASE ReviveEffect
  BY <1>1, <1>4, <1>5, <1>9, ReviveShape
<1>10. CASE UnregisterEffect \/ NamespaceEffect
  BY <1>1, <1>4, <1>10, RemovalShape
<1>11. CASE EdgeEffect
  BY <1>4, <1>11 DEF EdgeEffect
<1>12. CASE UNCHANGED <<state, version>>
  BY <1>5, <1>12
<1> QED BY <1>1, <1>6, <1>7, <1>8, <1>9, <1>10, <1>11, <1>12 DEF Effect

(* As long as the version stands, so does what a snapshot would show. *)
LEMMA SameVersionSameSnapshot ==
  ASSUME Safe, [Next]_vars, UNCHANGED <<lineage, version>>
  PROVE  SnapshotNow' = SnapshotNow
<1>1. UNCHANGED state
  BY VersionStep
<1> QED BY <1>1 DEF state, SnapshotNow, Exposed, IsTombstoned

(* Whatever a session lets an edit do is a step of the registry. *)
LEMMA EditsAreSteps == (CommandStep => Next) /\ (ConstStep => Next) /\ (BindingStep => Next)
BY DEF CommandStep, ConstStep, BindingStep, Next

(* A registration either fails and leaves the registry alone, or succeeds. *)
LEMMA RegisterFailsClean ==
  ASSUME NEW n, NEW k, NEW t, NEW b, NEW rv, Register(n, k, t, b, rv), outcome' \in Errors
  PROVE  UNCHANGED <<state, version>>
BY DEF Register, Fail, Errors

(* A command starts and ends between the pieces of no other call, and one
   that is refused has changed nothing.                                    *)
LEMMA CommandShape ==
  ASSUME CommandStep
  PROVE  /\ Idle /\ UNCHANGED validated
         /\ outcome' \in Errors => UNCHANGED <<state, version>>
<1>0. "Ok" \notin Errors /\ "Changed" \notin Errors /\ "Unchanged" \notin Errors
  BY DEF Errors
<1>1. ASSUME NEW s \in Spellings, RegisterKind(s)
      PROVE  Idle /\ UNCHANGED validated /\ (outcome' \in Errors => UNCHANGED <<state, version>>)
  BY <1>1, RegisterFailsClean DEF RegisterKind, Fail
<1>2. ASSUME NEW t \in Types, NEW s \in Spellings, TypedKindNamed(t, s)
      PROVE  Idle /\ UNCHANGED validated /\ (outcome' \in Errors => UNCHANGED <<state, version>>)
  BY <1>0, <1>2, RegisterFailsClean DEF TypedKindNamed, Fail
<1>3. ASSUME UnnamedTypedKind
      PROVE  Idle /\ UNCHANGED validated /\ (outcome' \in Errors => UNCHANGED <<state, version>>)
  BY <1>3 DEF UnnamedTypedKind, Fail
<1>4. ASSUME NEW k \in Kinds, TombstoneKind(k) \/ ReviveKind(k) \/ UnregisterKind(k)
      PROVE  Idle /\ UNCHANGED validated /\ (outcome' \in Errors => UNCHANGED <<state, version>>)
  BY <1>0, <1>4 DEF TombstoneKind, ReviveKind, UnregisterKind, Fail, Changes
<1>5. ASSUME NEW n \in Namespaces, UnregisterNamespace(n)
      PROVE  Idle /\ UNCHANGED validated /\ (outcome' \in Errors => UNCHANGED <<state, version>>)
  BY <1>0, <1>5 DEF UnregisterNamespace, Fail, Changes
<1>6. ASSUME NEW g \in EdgeGroups, AddEdges(g) \/ RemoveEdges(g)
      PROVE  Idle /\ UNCHANGED validated /\ (outcome' \in Errors => UNCHANGED <<state, version>>)
  BY <1>0, <1>6 DEF AddEdges, RemoveEdges, EditEdges, Fail, Changes
<1> QED BY <1>1, <1>2, <1>3, <1>4, <1>5, <1>6 DEF CommandStep

-----------------------------------------------------------------------------
(* Clones                                                                  *)

(* A saved registry is described by the same sets as the living one. *)
LEMMA SavedConstants ==
  /\ Saved!Metas = Metas /\ Saved!Triples = Triples
  /\ Saved!Declarations = Declarations /\ Saved!Outcomes = Outcomes
BY DEF Saved!Metas, Metas, Saved!Flags, Flags, Saved!Triples, Triples,
       Saved!Declarations, Declarations, Saved!Outcomes, Outcomes, Saved!Errors, Errors

(* ... and counted alike. *)
LEMMA SavedCardinality == \A S : Saved!Cardinality(S) = Cardinality(S)
BY DEF Saved!Cardinality, Cardinality

(* What clone saves is as safe as the registry it was taken from. *)
LEMMA ClonePreserves ==
  ASSUME Safe, Clone
  PROVE  BackupSound'
<1>1. /\ backup'.lineage = lineage + 1 /\ backup'.version = version /\ backup'.kinds = kinds
      /\ backup'.kind_to_index = kind_to_index /\ backup'.name_to_kind = name_to_kind
      /\ backup'.type_to_kind = type_to_kind /\ backup'.kind_to_type = kind_to_type
      /\ backup'.edges = edges /\ backup'.tombstoned_count = tombstoned_count
      /\ lineage' = lineage
  BY DEF Clone, NextLineage
<1>2. TypeOK /\ RegistryCoherent /\ EdgesActive /\ TombstoneCountExact
  BY DEF Safe, IInv, Coherent, TableOK, TypeOK, RegistryCoherent
<1>3. Saved!TypeOK'
  <2>1. <<>> \in Seq(Declarations) /\ "Ok" \in Outcomes
    BY DEF Outcomes
  <2> QED BY <1>1, <1>2, <2>1, SavedConstants DEF TypeOK, Saved!TypeOK
<1>4. Saved!RegistryCoherent'
  <2>1. Saved!IndexCoherent'
    BY <1>1, <1>2 DEF RegistryCoherent, IndexCoherent, Saved!IndexCoherent
  <2>2. Saved!NamesCoherent'
    BY <1>1, <1>2 DEF RegistryCoherent, NamesCoherent, Saved!NamesCoherent
  <2>3. Saved!BindingsCoherent'
    BY <1>1, <1>2 DEF RegistryCoherent, BindingsCoherent, Saved!BindingsCoherent
  <2>4. Saved!FlagsCoherent'
    BY <1>1, <1>2 DEF RegistryCoherent, FlagsCoherent, Saved!FlagsCoherent, IsTombstoned, Saved!IsTombstoned
  <2> QED BY <2>1, <2>2, <2>3, <2>4 DEF Saved!RegistryCoherent
<1>5. Saved!EdgesActive'
  BY <1>1, <1>2 DEF EdgesActive, Saved!EdgesActive, ActiveFault, Saved!ActiveFault,
                    MetaOf, Saved!MetaOf, IsTombstoned, Saved!IsTombstoned
<1>6. Saved!TombstoneCountExact'
  <2>1. {i \in DOMAIN backup'.kinds : Saved!IsTombstoned(backup'.kinds[i])}
          = {i \in DOMAIN kinds : IsTombstoned(kinds[i])}
    BY <1>1 DEF IsTombstoned, Saved!IsTombstoned
  <2> QED BY <1>1, <1>2, <2>1, SavedCardinality DEF TombstoneCountExact, Saved!TombstoneCountExact
<1> QED BY <1>1, <1>3, <1>4, <1>5, <1>6 DEF BackupSound

(* What a restored clone brings back is safe. *)
LEMMA RestorePreserves ==
  ASSUME Safe, BackupSound, RestoreClone
  PROVE  Safe'
<1>1. /\ backup.version = version' /\ backup.kinds = kinds'
      /\ backup.kind_to_index = kind_to_index' /\ backup.name_to_kind = name_to_kind'
      /\ backup.type_to_kind = type_to_kind' /\ backup.kind_to_type = kind_to_type'
      /\ backup.edges = edges' /\ backup.tombstoned_count = tombstoned_count'
      /\ validated' = validated /\ outcome' = outcome /\ validated = <<>>
  BY DEF RestoreClone, Idle
<1>2. Saved!TypeOK /\ Saved!RegistryCoherent /\ Saved!EdgesActive /\ Saved!TombstoneCountExact
  BY DEF BackupSound, RestoreClone
<1>3. TableOK'
  BY <1>1, <1>2, SavedConstants DEF TableOK, Saved!TypeOK
<1>4. IndexCoherent'
  BY <1>1, <1>2 DEF Saved!RegistryCoherent, IndexCoherent, Saved!IndexCoherent
<1>5. NamesCoherent'
  BY <1>1, <1>2 DEF Saved!RegistryCoherent, NamesCoherent, Saved!NamesCoherent
<1>6. BindingsCoherent'
  BY <1>1, <1>2 DEF Saved!RegistryCoherent, BindingsCoherent, Saved!BindingsCoherent
<1>7. FlagsCoherent'
  BY <1>1, <1>2 DEF Saved!RegistryCoherent, FlagsCoherent, Saved!FlagsCoherent, IsTombstoned, Saved!IsTombstoned
<1>8. EdgesActive'
  BY <1>1, <1>2 DEF EdgesActive, Saved!EdgesActive, ActiveFault, Saved!ActiveFault,
                    MetaOf, Saved!MetaOf, IsTombstoned, Saved!IsTombstoned
<1>9. TombstoneCountExact'
  <2>1. {i \in DOMAIN backup.kinds : Saved!IsTombstoned(backup.kinds[i])}
          = {i \in DOMAIN kinds' : IsTombstoned(kinds'[i])}
    BY <1>1 DEF IsTombstoned, Saved!IsTombstoned
  <2>2. backup.tombstoned_count = Cardinality({i \in DOMAIN backup.kinds : Saved!IsTombstoned(backup.kinds[i])})
    BY <1>2, SavedCardinality DEF Saved!TombstoneCountExact
  <2>3. tombstoned_count' = Cardinality({i \in DOMAIN kinds' : IsTombstoned(kinds'[i])})
    BY <1>1, <2>1, <2>2
  <2> QED BY <2>3 DEF TombstoneCountExact, IsTombstoned
<1>10. validated' \in Seq(Declarations) /\ outcome' \in Outcomes /\ PendingConsistent'
  <2>1. validated \in Seq(Declarations) /\ outcome \in Outcomes
    BY DEF Safe, IInv
  <2>2. DOMAIN validated' = {}
    BY <1>1
  <2> QED BY <1>1, <2>1, <2>2 DEF PendingConsistent
<1> QED BY <1>3, <1>4, <1>5, <1>6, <1>7, <1>8, <1>9, <1>10 DEF Safe, IInv, Coherent

(* A clone put aside is not touched by what happens to the registry. *)
LEMMA BackupKept ==
  ASSUME BackupSound, UNCHANGED <<backup, lineage>>
  PROVE  BackupSound'
<1>1. Saved!TypeOK => Saved!TypeOK'
  BY DEF Saved!TypeOK
<1>2. Saved!RegistryCoherent => Saved!RegistryCoherent'
  BY DEF Saved!RegistryCoherent, Saved!IndexCoherent, Saved!NamesCoherent, Saved!BindingsCoherent,
         Saved!FlagsCoherent, Saved!IsTombstoned
<1>3. Saved!EdgesActive => Saved!EdgesActive'
  BY DEF Saved!EdgesActive, Saved!ActiveFault, Saved!MetaOf, Saved!IsTombstoned
<1>4. Saved!TombstoneCountExact => Saved!TombstoneCountExact'
  BY DEF Saved!TombstoneCountExact, Saved!IsTombstoned
<1> QED BY <1>1, <1>2, <1>3, <1>4 DEF BackupSound

-----------------------------------------------------------------------------
(* The snapshots that are kept, under each kind of step                    *)

(* Every snapshot kept is a snapshot. *)
LEMMA KeptTyped ==
  ASSUME SessionTypeOK
  PROVE  \A s \in Kept : s \in Snapshots /\ s.lineage \in Int /\ s.version \in Int
<1>1. Kept \subseteq Snapshots
  BY DEF SessionTypeOK, Kept
<1>2. \A s \in Snapshots : s.lineage \in 1..MaxLineage /\ s.version \in 0..(VersionModulus - 1)
  BY DEF Snapshots
<1> QED BY <1>1, <1>2, SessionAssumption, VersionAssumption

(* A reader may keep what the registry shows right now. *)
LEMMA ReadingKeeps ==
  ASSUME Safe, SessionTypeOK, KeptSound, Kept' \subseteq Kept \cup {SnapshotNow},
         UNCHANGED <<lineage, vars>>
  PROVE  KeptSound'
<1>1. SnapshotNow' = SnapshotNow
  BY DEF vars, state, SnapshotNow, Exposed, IsTombstoned
<1>2. Closed(SnapshotNow) /\ SnapshotNow.lineage = lineage /\ SnapshotNow.version = version
  BY SnapshotSound DEF SessionTypeOK, SnapshotNow
<1>3. lineage \in Int /\ version \in Int
  BY DEF SessionTypeOK, TypeOK
<1>4. Past(SnapshotNow)
  BY <1>2, <1>3 DEF Past
<1>5. \A s \in Kept' : Closed(s) /\ Past(s)
  BY <1>2, <1>4 DEF KeptSound
<1>6. \A s \in Kept' : Closed(s)' /\ Past(s)'
  BY <1>1, <1>5 DEF Past, SameKey, Closed, vars
<1>7. \A s, t \in Kept' : SameKey(s, t) => s = t
  <2>1. \A s \in Kept : SameKey(SnapshotNow, s) => SnapshotNow = s
    BY DEF KeptSound, Past, SameKey
  <2> QED BY <2>1 DEF KeptSound, Past
<1> QED BY <1>6, <1>7 DEF KeptSound, SameKey

(* An edit leaves every snapshot taken before it in the past. *)
LEMMA EditingKeeps ==
  ASSUME SessionTypeOK, KeptSound, Kept' \subseteq Kept, UNCHANGED lineage,
         version \in Nat, version' \in Nat, version' >= version,
         version' = version => SnapshotNow' = SnapshotNow
  PROVE  KeptSound'
<1>1. \A s \in Kept' : s \in Kept /\ s \in Snapshots /\ s.lineage \in Int /\ s.version \in Int
  BY KeptTyped
<1>2. SnapshotNow'.lineage = lineage' /\ SnapshotNow'.version = version'
  BY DEF SnapshotNow
<1>3. ASSUME NEW s \in Kept' PROVE Closed(s)' /\ Past(s)'
  <2>1. Closed(s) /\ Past(s) /\ s.version \in Int
    BY <1>1, <1>3 DEF KeptSound
  <2>2. SameKey(s, SnapshotNow') => s = SnapshotNow'
    <3>1. SUFFICES ASSUME s.lineage = lineage, s.version = version' PROVE s = SnapshotNow'
      BY <1>2 DEF SameKey
    <3>2. version' = version
      BY <2>1, <3>1 DEF Past
    <3>3. SameKey(s, SnapshotNow)
      BY <3>1, <3>2 DEF SameKey, SnapshotNow
    <3> QED BY <2>1, <3>2, <3>3 DEF Past
  <2>3. s.lineage <= lineage' /\ (s.lineage = lineage' => s.version <= version')
    BY <2>1 DEF Past
  <2> QED BY <2>1, <2>2, <2>3 DEF Past, Closed, SameKey
<1>4. \A s, t \in Kept' : SameKey(s, t) => s = t
  BY DEF KeptSound
<1> QED BY <1>3, <1>4 DEF KeptSound, SameKey

(* A restored clone starts a lineage of which nobody has a snapshot. *)
LEMMA RestoringKeeps ==
  ASSUME SessionTypeOK, KeptSound, Kept' \subseteq Kept, lineage' = lineage + 1
  PROVE  KeptSound'
<1>1. \A s \in Kept' : s \in Kept /\ s \in Snapshots /\ s.lineage \in Int
  BY KeptTyped
<1>2. SnapshotNow'.lineage = lineage'
  BY DEF SnapshotNow
<1>3. lineage \in Int
  BY DEF SessionTypeOK
<1>4. \A s \in Kept' : Closed(s) /\ s.lineage <= lineage /\ s.lineage < lineage'
  BY <1>1, <1>3 DEF KeptSound, Past
<1>5. \A s \in Kept' : Closed(s)' /\ Past(s)'
  BY <1>1, <1>2, <1>3, <1>4 DEF Past, Closed, SameKey
<1>6. \A s, t \in Kept' : SameKey(s, t) => s = t
  BY DEF KeptSound
<1> QED BY <1>5, <1>6 DEF KeptSound, SameKey

-----------------------------------------------------------------------------
(* The steps of a session                                                  *)

(* What every edit, of whatever session, does around the cache. *)
LEMMA RegistryEdit ==
  ASSUME SessionInv, Exclusive, NoWrap, [Next]_vars, UNCHANGED <<readerVars, lineage, backup>>,
         snapshot_cache' \in {snapshot_cache, NoSnapshot}
  PROVE  /\ Safe' /\ KeptSound' /\ BackupSound'
         /\ \A r \in Readers : built'[r] = NoSnapshot
         /\ version' = version => SnapshotNow' = SnapshotNow
<1>1. Safe'
  BY NextSafe DEF SessionInv
<1>2. version \in Nat /\ version' \in Nat /\ version' >= version
  BY VersionGrows DEF SessionInv
<1>3. version' = version => SnapshotNow' = SnapshotNow
  BY SameVersionSameSnapshot DEF SessionInv
<1>4. KeptSound'
  <2>1. Kept' \subseteq Kept
    BY DEF Kept, readerVars
  <2> QED BY <1>2, <1>3, <2>1, EditingKeeps DEF SessionInv
<1>5. BackupSound'
  BY BackupKept DEF SessionInv
<1>6. \A r \in Readers : built'[r] = NoSnapshot
  BY DEF Exclusive, readerVars
<1> QED BY <1>1, <1>3, <1>4, <1>5, <1>6

(* bump_version, with the bulk edit of register_consts: the depth stays
   accounted for, and what goes stale is dropped or owed.                  *)
LEMMA ReactionSound ==
  ASSUME SessionTypeOK, CacheTracked, DepthSound, CacheReaction, UNCHANGED <<lineage, session>>,
         version' = version => SnapshotNow' = SnapshotNow
  PROVE  /\ CacheTracked' /\ DepthSound'
         /\ snapshot_cache' \in {snapshot_cache, NoSnapshot}
         /\ bulk_depth' \in 0..(MaxDepth + 1) /\ bulk_dirty' \in BOOLEAN
<1> DEFINE opens == validated = <<>> /\ validated' # <<>>
           closes == validated # <<>> /\ validated' = <<>>
           dirty == bulk_dirty \/ (version' # version /\ bulk_depth > 0)
           commit == closes /\ bulk_depth = 1 /\ dirty
<1>1. /\ bulk_depth' = CASE opens -> bulk_depth + 1 [] closes -> bulk_depth - 1 [] OTHER -> bulk_depth
      /\ bulk_dirty' = (dirty /\ ~commit)
      /\ snapshot_cache' = IF commit \/ (version' # version /\ bulk_depth = 0) THEN NoSnapshot
                           ELSE snapshot_cache
  BY DEF CacheReaction, DepthAfter
<1>2. bulk_depth \in 0..(MaxDepth + 1) /\ MaxDepth \in Nat /\ bulk_dirty \in BOOLEAN
  BY SessionAssumption DEF SessionTypeOK
<1>3. /\ opens => bulk_depth' = bulk_depth + 1
      /\ closes => bulk_depth' = bulk_depth - 1
      /\ ~opens /\ ~closes => bulk_depth' = bulk_depth
  <2>1. ~(opens /\ closes) OBVIOUS
  <2> HIDE DEF opens, closes
  <2> QED BY <1>1, <2>1
<1>4. validated = <<>> => bulk_depth <= MaxDepth
  BY DEF DepthSound, Idle
<1>5. bulk_depth >= (IF session = "none" THEN 0 ELSE 1) + (IF validated = <<>> THEN 0 ELSE 1)
  BY DEF DepthSound, DepthCoversSession
<1>6. DepthSound' /\ bulk_depth' \in 0..(MaxDepth + 1)
  BY <1>2, <1>3, <1>4, <1>5 DEF DepthSound, DepthCoversSession, Idle
<1>7. CacheTracked'
  <2>1. SUFFICES ASSUME snapshot_cache' # NoSnapshot
                 PROVE  /\ snapshot_cache'.lineage = lineage
                        /\ snapshot_cache' = SnapshotNow' \/ (bulk_dirty' /\ bulk_depth' > 0)
    BY DEF CacheTracked
  <2>2. snapshot_cache' = snapshot_cache /\ ~commit /\ (version' # version => bulk_depth # 0)
    BY <1>1, <2>1
  <2>3. /\ snapshot_cache.lineage = lineage
        /\ snapshot_cache = SnapshotNow \/ (bulk_dirty /\ bulk_depth > 0)
    BY <2>1, <2>2 DEF CacheTracked
  <2>4. CASE version' = version /\ snapshot_cache = SnapshotNow
    BY <2>2, <2>3, <2>4
  <2>5. CASE ~(version' = version /\ snapshot_cache = SnapshotNow)
    <3>1. bulk_depth > 0 /\ dirty
      BY <1>2, <2>2, <2>3, <2>5
    <3>2. bulk_dirty'
      BY <1>1, <2>2, <3>1
    <3>3. closes => bulk_depth > 1
      BY <1>2, <2>2, <3>1
    <3>4. bulk_depth' > 0
      BY <1>2, <1>3, <3>1, <3>3
    <3> QED BY <2>2, <2>3, <3>2, <3>4
  <2> QED BY <2>4, <2>5
<1>8. bulk_dirty' \in BOOLEAN /\ snapshot_cache' \in {snapshot_cache, NoSnapshot}
  BY <1>1
<1> QED BY <1>6, <1>7, <1>8

(* end_bulk_edit, of an open bulk edit and with nothing changed since. *)
LEMMA EndSound ==
  ASSUME SessionTypeOK, CacheTracked, DepthSound, EndBulkEdit, Idle, session # "none",
         session' = "none", UNCHANGED <<lineage, validated>>, SnapshotNow' = SnapshotNow
  PROVE  /\ CacheTracked' /\ DepthSound'
         /\ snapshot_cache' \in {snapshot_cache, NoSnapshot}
         /\ bulk_depth' \in 0..(MaxDepth + 1) /\ bulk_dirty' \in BOOLEAN
<1>1. bulk_depth \in 0..(MaxDepth + 1) /\ MaxDepth \in Nat /\ bulk_dirty \in BOOLEAN
  BY SessionAssumption DEF SessionTypeOK
<1>2. bulk_depth >= 1 /\ bulk_depth <= MaxDepth
  BY <1>1 DEF DepthSound, DepthCoversSession, Idle
<1>3. /\ bulk_depth' = bulk_depth - 1
      /\ bulk_dirty' = (bulk_dirty /\ ~(bulk_depth = 1 /\ bulk_dirty))
      /\ snapshot_cache' = IF bulk_depth = 1 /\ bulk_dirty THEN NoSnapshot ELSE snapshot_cache
  BY <1>1, <1>2 DEF EndBulkEdit, SaturatingDec
<1>4. DepthSound' /\ bulk_depth' \in 0..(MaxDepth + 1)
  BY <1>1, <1>2, <1>3 DEF DepthSound, DepthCoversSession, Idle
<1>5. CacheTracked'
  BY <1>1, <1>2, <1>3 DEF CacheTracked
<1> QED BY <1>1, <1>3, <1>4, <1>5

(* An edit outside apply_commands. *)
LEMMA EditPreserves ==
  ASSUME SessionInv, Edit
  PROVE  SessionInv'
<1>1. /\ Next /\ Exclusive /\ NoWrap /\ CacheReaction
      /\ UNCHANGED <<readerVars, lineage, session, backup>>
  BY EditsAreSteps DEF Edit, otherVars
<1>2. snapshot_cache' \in {snapshot_cache, NoSnapshot}
  BY <1>1 DEF CacheReaction
<1>3. /\ Safe' /\ KeptSound' /\ BackupSound'
      /\ \A r \in Readers : built'[r] = NoSnapshot
      /\ version' = version => SnapshotNow' = SnapshotNow
  BY <1>1, <1>2, RegistryEdit
<1>4. /\ CacheTracked' /\ DepthSound'
      /\ bulk_depth' \in 0..(MaxDepth + 1) /\ bulk_dirty' \in BOOLEAN
  BY <1>1, <1>3, ReactionSound DEF SessionInv
<1>5. TypeOK'
  BY <1>3 DEF Safe, IInv, Coherent, TableOK, TypeOK
<1>6. SessionTypeOK'
  BY <1>1, <1>2, <1>4, <1>5 DEF SessionInv, SessionTypeOK, readerVars
<1> QED BY <1>3, <1>4, <1>6 DEF SessionInv

(* One command of apply_commands, applied or refused. *)
LEMMA ApplyCommandPreserves ==
  ASSUME SessionInv, ApplyCommand
  PROVE  SessionInv'
<1>1. /\ Next /\ Exclusive /\ NoWrap /\ Idle
      /\ UNCHANGED <<readerVars, lineage, backup, validated>>
      /\ outcome' \in Errors => UNCHANGED <<state, version>>
  BY EditsAreSteps, CommandShape DEF ApplyCommand
<1>2. snapshot_cache' \in {snapshot_cache, NoSnapshot}
  BY DEF ApplyCommand, EndBulkEdit, CacheReaction
<1>3. /\ Safe' /\ KeptSound' /\ BackupSound'
      /\ \A r \in Readers : built'[r] = NoSnapshot
      /\ version' = version => SnapshotNow' = SnapshotNow
  BY <1>1, <1>2, RegistryEdit
<1>4. /\ CacheTracked' /\ DepthSound' /\ session' \in {"none", "commands"}
      /\ bulk_depth' \in 0..(MaxDepth + 1) /\ bulk_dirty' \in BOOLEAN
  <2>1. CASE outcome' \in Errors
    BY <1>1, <1>3, <2>1, EndSound DEF SessionInv, ApplyCommand
  <2>2. CASE outcome' \notin Errors
    BY <1>1, <1>3, <2>2, ReactionSound DEF SessionInv, ApplyCommand
  <2> QED BY <2>1, <2>2
<1>5. TypeOK'
  BY <1>3 DEF Safe, IInv, Coherent, TableOK, TypeOK
<1>6. SessionTypeOK'
  BY <1>1, <1>2, <1>4, <1>5 DEF SessionInv, SessionTypeOK, readerVars
<1> QED BY <1>3, <1>4, <1>6 DEF SessionInv

(* While the registry stands still so does what a snapshot of it shows. *)
LEMMA Standing ==
  ASSUME SessionInv, UNCHANGED <<vars, lineage>>
  PROVE  /\ Safe' /\ TypeOK' /\ SnapshotNow' = SnapshotNow
         /\ SnapshotNow \in Snapshots /\ SnapshotNow # NoSnapshot
         /\ UNCHANGED <<version, validated>>
<1>1. Safe' BY NextSafe DEF SessionInv
<1>2. TypeOK'
  BY <1>1 DEF Safe, IInv, Coherent, TableOK, TypeOK
<1>3. SnapshotNow' = SnapshotNow
  BY DEF vars, state, SnapshotNow, Exposed, IsTombstoned
<1>4. SnapshotNow \in Snapshots /\ SnapshotNow # NoSnapshot
  BY SnapshotSound, SessionAssumption DEF SessionInv, SessionTypeOK
<1> QED BY <1>1, <1>2, <1>3, <1>4 DEF vars

(* Opening, ending and abandoning a bulk edit. *)
LEMMA BulkPreserves ==
  ASSUME SessionInv, (\E which \in {"batch", "commands"} : Begin(which)) \/ End \/ Unwind
  PROVE  SessionInv'
<1>1. UNCHANGED <<vars, readerVars, lineage, backup>> /\ Idle /\ Exclusive
  BY DEF Begin, End, Unwind
<1>2. /\ Safe' /\ TypeOK' /\ SnapshotNow' = SnapshotNow
      /\ UNCHANGED <<version, validated>>
  BY <1>1, Standing
<1>3. bulk_depth \in 0..(MaxDepth + 1) /\ MaxDepth \in Nat /\ bulk_dirty \in BOOLEAN
  BY SessionAssumption DEF SessionInv, SessionTypeOK
<1>4. /\ CacheTracked' /\ DepthSound' /\ session' \in {"none", "batch", "commands"}
      /\ snapshot_cache' \in {snapshot_cache, NoSnapshot}
      /\ bulk_depth' \in 0..(MaxDepth + 1) /\ bulk_dirty' \in BOOLEAN
  <2>1. ASSUME NEW which \in {"batch", "commands"}, Begin(which)
        PROVE  /\ bulk_depth' = bulk_depth + 1 /\ bulk_depth < MaxDepth
               /\ session = "none" /\ session' = which
               /\ UNCHANGED <<snapshot_cache, bulk_dirty, lineage>>
    BY <2>1 DEF Begin
  <2>2. CASE \E which \in {"batch", "commands"} : Begin(which)
    <3>1. CacheTracked'
      BY <1>2, <1>3, <2>1, <2>2 DEF SessionInv, CacheTracked
    <3>2. DepthSound' /\ bulk_depth' \in 0..(MaxDepth + 1)
      BY <1>1, <1>2, <1>3, <2>1, <2>2 DEF SessionInv, DepthSound, DepthCoversSession, Idle
    <3> QED BY <1>3, <2>1, <2>2, <3>1, <3>2
  <2>3. CASE End
    BY <1>1, <1>2, <2>3, EndSound DEF SessionInv, End
  <2>4. CASE Unwind
    BY <1>1, <1>2, <1>3, <2>4 DEF SessionInv, Unwind, cacheVars, CacheTracked, DepthSound,
                                  DepthCoversSession, Idle
  <2> QED BY <2>2, <2>3, <2>4
<1>5. KeptSound'
  <2>1. Kept' \subseteq Kept
    BY <1>1, <1>4 DEF Kept, readerVars
  <2> QED BY <1>1, <2>1, ReadingKeeps DEF SessionInv
<1>6. BackupSound'
  BY <1>1, BackupKept DEF SessionInv
<1>7. SessionTypeOK'
  BY <1>1, <1>2, <1>4 DEF SessionInv, SessionTypeOK, readerVars
<1>8. \A r \in Readers : built'[r] # NoSnapshot => built'[r] = SnapshotNow'
  BY <1>1, <1>2 DEF Exclusive, readerVars
<1> QED BY <1>2, <1>4, <1>5, <1>6, <1>7, <1>8 DEF SessionInv

(* A cached snapshot of the current version is the registry's own: after a
   restored clone, too, the cache only holds snapshots of its lineage.     *)
LEMMA FreshIsCurrent ==
  ASSUME SessionInv, Fresh
  PROVE  snapshot_cache = SnapshotNow
<1>1. snapshot_cache \in Kept
  BY DEF Fresh, Kept
<1>2. SameKey(snapshot_cache, SnapshotNow)
  BY DEF Fresh, SessionInv, CacheTracked, SameKey, SnapshotNow
<1> QED BY <1>1, <1>2 DEF SessionInv, KeptSound, Past

(* Whatever a reader does, it handles the registry as it is. *)
LEMMA ReaderShape ==
  ASSUME SessionInv, NEW r \in Readers, CheckCache(r) \/ PublishSnapshot(r) \/ TakeSnapshot(r)
  PROVE  /\ UNCHANGED <<vars, bulk_depth, bulk_dirty, otherVars>>
         /\ snapshot_cache' \in {snapshot_cache, SnapshotNow}
         /\ \E s \in {held[r], SnapshotNow} : held' = [held EXCEPT ![r] = s]
         /\ \E s \in {built[r], NoSnapshot, SnapshotNow} : built' = [built EXCEPT ![r] = s]
<1>0. built \in [Readers -> Snapshots \cup {NoSnapshot}] /\ held \in [Readers -> Snapshots \cup {NoSnapshot}]
  BY DEF SessionInv, SessionTypeOK
<1>1. Fresh => snapshot_cache = SnapshotNow
  BY FreshIsCurrent
<1>2. built[r] # NoSnapshot => built[r] = SnapshotNow
  BY DEF SessionInv
<1>3. [held EXCEPT ![r] = held[r]] = held /\ [built EXCEPT ![r] = built[r]] = built
  BY <1>0
<1>4. CASE CheckCache(r)
  BY <1>1, <1>3, <1>4 DEF CheckCache, cacheVars
<1>5. CASE PublishSnapshot(r)
  BY <1>1, <1>2, <1>5 DEF PublishSnapshot
<1>6. CASE TakeSnapshot(r)
  BY <1>3, <1>6 DEF TakeSnapshot, cacheVars
<1> QED BY <1>4, <1>5, <1>6

(* Readers, however they interleave. *)
LEMMA ReaderPreserves ==
  ASSUME SessionInv, NEW r \in Readers, CheckCache(r) \/ PublishSnapshot(r) \/ TakeSnapshot(r)
  PROVE  SessionInv'
<1>1. /\ UNCHANGED <<vars, bulk_depth, bulk_dirty, otherVars>>
      /\ snapshot_cache' \in {snapshot_cache, SnapshotNow}
  BY ReaderShape
<1>2. PICK h \in {held[r], SnapshotNow} : held' = [held EXCEPT ![r] = h]
  BY ReaderShape
<1>3. PICK b \in {built[r], NoSnapshot, SnapshotNow} : built' = [built EXCEPT ![r] = b]
  BY ReaderShape
<1>4. UNCHANGED <<lineage, session, backup>>
  BY <1>1 DEF otherVars
<1>5. /\ Safe' /\ TypeOK' /\ SnapshotNow' = SnapshotNow
      /\ SnapshotNow \in Snapshots /\ SnapshotNow # NoSnapshot
      /\ UNCHANGED <<version, validated>>
  BY <1>1, <1>4, Standing
<1>6. SessionTypeOK /\ KeptSound /\ Safe
  BY DEF SessionInv
<1>7. SessionTypeOK'
  BY <1>1, <1>2, <1>3, <1>4, <1>5, <1>6 DEF SessionTypeOK
<1>8. KeptSound'
  <2>1. Kept' \subseteq Kept \cup {SnapshotNow}
    BY <1>1, <1>2, <1>3, <1>6 DEF Kept, SessionTypeOK
  <2> QED BY <1>1, <1>4, <1>6, <2>1, ReadingKeeps
<1>9. CacheTracked'
  BY <1>1, <1>4, <1>5 DEF SessionInv, CacheTracked, SnapshotNow
<1>10. DepthSound'
  BY <1>1, <1>4, <1>5 DEF SessionInv, DepthSound, DepthCoversSession, Idle
<1>11. \A q \in Readers : built'[q] # NoSnapshot => built'[q] = SnapshotNow'
  BY <1>3, <1>5, <1>6 DEF SessionInv, SessionTypeOK
<1>12. BackupSound'
  BY <1>4, BackupKept DEF SessionInv
<1> QED BY <1>5, <1>7, <1>8, <1>9, <1>10, <1>11, <1>12 DEF SessionInv

(* Putting a clone aside and bringing it back. *)
LEMMA ClonesPreserve ==
  ASSUME SessionInv, Clone \/ RestoreClone
  PROVE  SessionInv'
<1>1. CASE Clone
  <2>1. UNCHANGED <<vars, cacheVars, readerVars, lineage, session>>
    BY <1>1 DEF Clone
  <2>2. /\ Safe' /\ TypeOK' /\ SnapshotNow' = SnapshotNow
        /\ UNCHANGED <<version, validated>>
    BY <2>1, Standing
  <2>3. BackupSound'
    BY <1>1, ClonePreserves DEF SessionInv
  <2>4. KeptSound'
    <3>1. Kept' = Kept BY <2>1 DEF Kept, cacheVars, readerVars
    <3> QED BY <2>1, <3>1, ReadingKeeps DEF SessionInv
  <2>5. SessionTypeOK' /\ CacheTracked' /\ DepthSound'
    BY <2>1, <2>2 DEF SessionInv, SessionTypeOK, CacheTracked, DepthSound, DepthCoversSession,
                      Idle, cacheVars, readerVars
  <2>6. \A q \in Readers : built'[q] # NoSnapshot => built'[q] = SnapshotNow'
    BY <2>1, <2>2 DEF SessionInv, readerVars
  <2> QED BY <2>2, <2>3, <2>4, <2>5, <2>6 DEF SessionInv
<1>2. CASE RestoreClone
  <2>1. /\ UNCHANGED <<validated, outcome, readerVars, session>>
        /\ Exclusive /\ session = "none" /\ Idle
        /\ snapshot_cache' = NoSnapshot /\ bulk_depth' = 0 /\ bulk_dirty' = FALSE
        /\ backup' = NoBackup
    BY <1>2 DEF RestoreClone
  <2>2. lineage' = lineage + 1 /\ lineage < MaxLineage /\ lineage \in 1..MaxLineage
    BY <1>2 DEF RestoreClone, SessionInv, BackupSound, SessionTypeOK
  <2>3. Safe'
    BY <1>2, RestorePreserves DEF SessionInv
  <2>4. TypeOK'
    BY <2>3 DEF Safe, IInv, Coherent, TableOK, TypeOK
  <2>5. MaxLineage \in Nat /\ MaxDepth \in Nat
    BY SessionAssumption
  <2>6. SessionTypeOK'
    <3>1. lineage' \in 1..MaxLineage /\ bulk_depth' \in 0..(MaxDepth + 1)
      BY <2>1, <2>2, <2>5
    <3> QED BY <2>1, <2>4, <3>1 DEF SessionInv, SessionTypeOK, readerVars
  <2>7. KeptSound'
    <3>1. Kept' \subseteq Kept BY <2>1 DEF Kept, readerVars
    <3> QED BY <2>2, <3>1, RestoringKeeps DEF SessionInv
  <2>8. CacheTracked' /\ BackupSound'
    BY <2>1 DEF CacheTracked, BackupSound
  <2>9. DepthSound'
    BY <2>1, <2>5 DEF DepthSound, DepthCoversSession, Idle
  <2>10. \A q \in Readers : built'[q] # NoSnapshot => built'[q] = SnapshotNow'
    BY <2>1 DEF Exclusive, readerVars
  <2> QED BY <2>3, <2>6, <2>7, <2>8, <2>9, <2>10 DEF SessionInv
<1> QED BY <1>1, <1>2

-----------------------------------------------------------------------------
(* The results                                                             *)

(* A fresh registry has no snapshots, no clone and no bulk edit. *)
LEMMA SessionInitHolds ==
  ASSUME SessionInit
  PROVE  SessionInv
<1>1. Safe
  BY InitSafe DEF SessionInit
<1>2. TypeOK
  BY <1>1 DEF Safe, IInv, Coherent, TableOK, TypeOK
<1>3. lineage \in 1..MaxLineage /\ bulk_depth \in 0..(MaxDepth + 1) /\ bulk_depth <= MaxDepth
  BY SessionAssumption DEF SessionInit
<1>4. SessionTypeOK
  BY <1>2, <1>3 DEF SessionInit, SessionTypeOK
<1>5. Kept = {}
  BY DEF SessionInit, Kept
<1>6. KeptSound /\ CacheTracked /\ BackupSound
  BY <1>5 DEF SessionInit, KeptSound, CacheTracked, BackupSound
<1>7. DepthSound
  BY <1>3 DEF SessionInit, Init, DepthSound, DepthCoversSession
<1> QED BY <1>1, <1>4, <1>6, <1>7 DEF SessionInit, SessionInv

(* The invariant is inductive. *)
LEMMA SessionNextPreserves ==
  ASSUME SessionInv, [SessionNext]_sessionVars
  PROVE  SessionInv'
<1>1. CASE UNCHANGED sessionVars
  <2>1. UNCHANGED <<vars, cacheVars, readerVars, lineage, session, backup>>
    BY <1>1 DEF sessionVars, otherVars
  <2>2. /\ Safe' /\ TypeOK' /\ SnapshotNow' = SnapshotNow
        /\ UNCHANGED <<version, validated>>
    BY <2>1, Standing
  <2>3. BackupSound'
    BY <2>1, BackupKept DEF SessionInv
  <2>4. KeptSound'
    <3>1. Kept' = Kept BY <2>1 DEF Kept, cacheVars, readerVars
    <3> QED BY <2>1, <3>1, ReadingKeeps DEF SessionInv
  <2>5. SessionTypeOK' /\ CacheTracked' /\ DepthSound'
    BY <2>1, <2>2 DEF SessionInv, SessionTypeOK, CacheTracked, DepthSound, DepthCoversSession,
                      Idle, cacheVars, readerVars
  <2>6. \A q \in Readers : built'[q] # NoSnapshot => built'[q] = SnapshotNow'
    BY <2>1, <2>2 DEF SessionInv, readerVars
  <2> QED BY <2>2, <2>3, <2>4, <2>5, <2>6 DEF SessionInv
<1> QED
  BY <1>1, EditPreserves, ApplyCommandPreserves, BulkPreserves, ReaderPreserves, ClonesPreserve
  DEF SessionNext

(* The registry, its cache, its clones and everything readers hold stay
   sound under edits, bulk edits that end, fail or are abandoned, and races
   to publish.                                                             *)
THEOREM SessionInvariance == SessionSpec => []SessionInv
<1>1. SessionInit => SessionInv BY SessionInitHolds
<1>2. SessionInv /\ [SessionNext]_sessionVars => SessionInv' BY SessionNextPreserves
<1> QED BY <1>1, <1>2, PTL DEF SessionSpec

(* Every variable of the cache and of its readers keeps its type, whatever
   the registry holds: bulk_depth, too, stays within its bound.            *)
THEOREM SessionTypeCorrect == SessionSpec => []SessionTypeOK
<1>1. SessionInv => SessionTypeOK BY DEF SessionInv
<1> QED BY <1>1, SessionInvariance, PTL

(* Whatever bulk edits do, an invalidation is deferred to their end and made
   up for there; outside a bulk edit the cache is never stale.             *)
THEOREM InvalidationIsDeferred == SessionSpec => []DeferredToItsEnd
<1>1. ASSUME SessionInv PROVE DeferredToItsEnd
  <2>1. NoStaleOutsideBulk
    BY <1>1 DEF SessionInv, CacheTracked, NoStaleOutsideBulk
  <2> QED BY <1>1, <2>1 DEF SessionInv, DepthSound, DeferredToItsEnd
<1> QED BY <1>1, SessionInvariance, PTL

(* Lineage and version name one content, for the registry, its cache and all
   that readers hold, also after a clone has replaced the registry: what
   every query cache keyed by them rests on.                               *)
THEOREM KeysIdentify == SessionSpec => []KeyIdentifiesContent
<1>1. ASSUME SessionInv PROVE KeyIdentifiesContent
  <2>1. \A s \in Kept : SameKey(s, SnapshotNow) => s = SnapshotNow
    BY <1>1 DEF SessionInv, KeptSound, Past
  <2>2. \A s, t \in Kept : SameKey(s, t) => s = t
    BY <1>1 DEF SessionInv, KeptSound
  <2>3. ({SnapshotNow, snapshot_cache} \cup {held[r] : r \in Readers}) \ {NoSnapshot}
          \subseteq Kept \cup {SnapshotNow}
    BY DEF Kept
  <2>4. \A s, t \in Kept \cup {SnapshotNow} :
          s.lineage = t.lineage /\ s.version = t.version => s = t
    BY <2>1, <2>2 DEF SameKey
  <2> QED BY <2>3, <2>4 DEF KeyIdentifiesContent
<1> QED BY <1>1, SessionInvariance, PTL

(* No snapshot has an edge to a kind it does not contain. *)
THEOREM SnapshotsAreClosed == SessionSpec => []SnapshotClosed
<1>1. ASSUME SessionInv PROVE SnapshotClosed
  <2>1. \A r \in Readers : held[r] # NoSnapshot => held[r] \in Kept
    BY DEF Kept
  <2> QED BY <1>1, <2>1 DEF SessionInv, KeptSound, Closed, SnapshotClosed
<1> QED BY <1>1, SessionInvariance, PTL

(* Readers are served the registry as it is at that moment, never a snapshot
   of another version or lineage: through races to publish, inside bulk
   edits and after the registry was replaced.                              *)
THEOREM ReadersSeeTheRegistry == SessionSpec => ServedIsCurrent
<1>1. ASSUME SessionInv, SessionNext
      PROVE  \A r \in Readers : held'[r] # held[r] => held'[r] = SnapshotNow'
  <2>1. CASE UNCHANGED held
    BY <2>1
  <2>2. ASSUME NEW q \in Readers, CheckCache(q) \/ PublishSnapshot(q) \/ TakeSnapshot(q)
        PROVE  \A r \in Readers : held'[r] # held[r] => held'[r] = SnapshotNow'
    <3>1. PICK s \in {held[q], SnapshotNow} : held' = [held EXCEPT ![q] = s]
      BY <1>1, <2>2, ReaderShape
    <3>2. UNCHANGED <<vars, lineage>>
      BY <1>1, <2>2, ReaderShape DEF otherVars
    <3>3. SnapshotNow' = SnapshotNow
      BY <1>1, <3>2, Standing
    <3> QED BY <1>1, <3>1, <3>3 DEF SessionInv, SessionTypeOK
  <2> QED BY <1>1, <2>1, <2>2 DEF SessionNext, Edit, Begin, ApplyCommand, End, Unwind,
                                  Clone, RestoreClone, readerVars
<1>2. ASSUME SessionInv, [SessionNext]_sessionVars
      PROVE  [\A r \in Readers : held'[r] # held[r] => held'[r] = SnapshotNow']_sessionVars
  BY <1>1, <1>2
<1> QED BY <1>2, SessionInvariance, PTL DEF SessionSpec, ServedIsCurrent

(* A snapshot lists exactly the kinds that are registered and not tombstoned:
   skipping the filter on a count of zero lets no tombstone through.       *)
ShowsTheLiving ==
  {SnapshotNow.kinds[i].kind : i \in DOMAIN SnapshotNow.kinds}
    = {kinds[j].kind : j \in {i \in DOMAIN kinds : ~IsTombstoned(kinds[i])}}

(* from_registry sees the living kinds, all of them and no others, in every
   state a session reaches.                                                *)
THEOREM SnapshotsShowTheLiving == SessionSpec => []ShowsTheLiving
<1>1. ASSUME SessionInv PROVE ShowsTheLiving
  <2>1. /\ \A i \in DOMAIN Exposed : \E j \in DOMAIN kinds : Exposed[i] = kinds[j] /\ ~IsTombstoned(kinds[j])
        /\ \A j \in DOMAIN kinds : ~IsTombstoned(kinds[j]) => \E i \in DOMAIN Exposed : Exposed[i] = kinds[j]
    BY <1>1, ExposedKinds DEF SessionInv
  <2>2. /\ DOMAIN SnapshotNow.kinds = DOMAIN Exposed
        /\ \A i \in DOMAIN Exposed : SnapshotNow.kinds[i].kind = Exposed[i].kind
    BY DEF SnapshotNow
  <2> QED BY <2>1, <2>2 DEF ShowsTheLiving
<1> QED BY <1>1, SessionInvariance, PTL
=============================================================================
