---------------------------- MODULE SnapshotCache ----------------------------
(***************************************************************************)
(* The registry together with its snapshot cache: bulk edits (batch and    *)
(* apply_commands), concurrent snapshot_cached readers, clones.            *)
(*                                                                         *)
(* Every step of SemanticRegistry happens here together with what          *)
(* bump_version, begin_bulk_edit and end_bulk_edit do to the cache, so an  *)
(* action of this module is the whole handler.  Rust's borrow rules are    *)
(* the scheduling: an edit holds &mut SemanticRegistry and runs alone,     *)
(* readers hold & and interleave with each other, also inside a batch,     *)
(* which dereferences to the registry between its edits.                   *)
(***************************************************************************)
EXTENDS SemanticRegistry

CONSTANTS
  Readers,       \* threads that take snapshots
  NoSnapshot,
  NoBackup,
  MaxLineage,    \* bound on the number of clones
  MaxDepth       \* bound on bulk_depth, which an unwinding command iterator leaks

(* What a reader may hold of an Arc<SemanticSnapshot>. *)
Snapshots == [lineage : 1..MaxLineage, version : 0..(VersionModulus - 1),
              kinds : Seq([kind : Kinds, name : Names, type_id : Types \cup {NoType}]),
              edges : SUBSET Triples]

ASSUME SessionAssumption ==
  /\ NoSnapshot \notin Snapshots
  /\ MaxLineage \in Nat \ {0}
  /\ MaxDepth \in Nat

VARIABLES
  lineage,
  snapshot_cache,
  bulk_depth,
  bulk_dirty,
  session,       \* which bulk edit is open: "none", "batch" or "commands"
  built,         \* the snapshot a reader has built and not yet published
  held,          \* the snapshot each reader was served last, and still holds
  backup         \* a clone of the registry kept aside

cacheVars == <<snapshot_cache, bulk_depth, bulk_dirty>>
readerVars == <<built, held>>
otherVars == <<lineage, session, backup>>
sessionVars == <<vars, cacheVars, readerVars, otherVars>>

(* SemanticSnapshot::from_registry: the tombstone filter is skipped when no
   kind is counted as tombstoned.                                          *)
Exposed ==
  IF tombstoned_count = 0 THEN kinds
  ELSE Retain(kinds, {i \in DOMAIN kinds : ~IsTombstoned(kinds[i])})

SnapshotNow ==
  [lineage |-> lineage, version |-> version,
   kinds |-> [i \in DOMAIN Exposed |-> [kind |-> Exposed[i].kind, name |-> Exposed[i].name,
                                       type_id |-> Exposed[i].type_id]],
   edges |-> edges]

Exclusive == \A r \in Readers : built[r] = NoSnapshot  \* nobody is inside snapshot_cached

-----------------------------------------------------------------------------
DepthAfter_NeverCloses(opens, closes) == IF opens THEN bulk_depth + 1 ELSE bulk_depth
DepthAfter(opens, closes) ==
  CASE opens -> bulk_depth + 1 [] closes -> bulk_depth - 1 [] OTHER -> bulk_depth

(* Edits.  bump_version drops the cached snapshot at once outside a bulk
   edit and only notes the change inside one.  register_consts opens a bulk
   edit of its own around the declarations it registers.                   *)
CacheReaction ==
  LET bumped == version' # version
      opens  == validated = <<>> /\ validated' # <<>>
      closes == validated # <<>> /\ validated' = <<>>
      dirty  == bulk_dirty \/ (bumped /\ bulk_depth > 0)
      commit == closes /\ bulk_depth = 1 /\ dirty
  IN /\ bulk_depth' = DepthAfter(opens, closes)
     /\ bulk_dirty' = (dirty /\ ~commit)
     /\ snapshot_cache' = IF commit \/ (bumped /\ bulk_depth = 0) THEN NoSnapshot
                          ELSE snapshot_cache

(* The operations a SemanticCommand can carry. *)
CommandStep ==
  \/ \E s \in Spellings : RegisterKind(s)
  \/ \E t \in Types, s \in Spellings : TypedKindNamed(t, s)
  \/ UnnamedTypedKind
  \/ \E k \in Kinds : TombstoneKind(k) \/ ReviveKind(k) \/ UnregisterKind(k)
  \/ \E n \in Namespaces : UnregisterNamespace(n)
  \/ \E g \in EdgeGroups : AddEdges(g) \/ RemoveEdges(g)

ConstStep ==
  \/ \E g \in ConstGroups : \E i \in DOMAIN g : RegisterConst(g[i].name, g[i].kind)
  \/ \E g \in ConstGroups : RegisterConsts(g)
  \/ RegisterValidatedConst

BindingStep == \E t \in StaticTypes : RegisterSemanticType(t) \/ BindStaticComponent(t)

NoWrap == version + 2 < VersionModulus   \* the bound on edits: histories stop before 2^64

Edit ==
  /\ Exclusive /\ NoWrap
  /\ \/ session = "none" /\ (CommandStep \/ ConstStep \/ BindingStep)
     \/ session = "batch" /\ (CommandStep \/ ConstStep)
  /\ CacheReaction
  /\ UNCHANGED <<readerVars, otherVars>>

-----------------------------------------------------------------------------
(* Bulk edits                                                              *)

EndBulkEdit_KeepsCache ==
  /\ bulk_depth' = SaturatingDec(bulk_depth)
  /\ bulk_dirty' = (bulk_dirty /\ bulk_depth # 1)
  /\ UNCHANGED snapshot_cache

EndBulkEdit ==
  LET depth == SaturatingDec(bulk_depth)
      commit == bulk_depth = 1 /\ bulk_dirty
  IN /\ bulk_depth' = depth
     /\ bulk_dirty' = (bulk_dirty /\ ~commit)
     /\ snapshot_cache' = IF commit THEN NoSnapshot ELSE snapshot_cache

(* batch and apply_commands begin alike. *)
Begin(which) ==
  /\ Exclusive /\ Idle /\ session = "none"
  /\ bulk_depth < MaxDepth
  /\ session' = which
  /\ bulk_depth' = bulk_depth + 1
  /\ UNCHANGED <<vars, snapshot_cache, bulk_dirty, readerVars, lineage, backup>>

(* One command of apply_commands: the first error ends the bulk edit and
   what the commands before it did stays.                                  *)
ApplyCommand ==
  /\ Exclusive /\ NoWrap /\ session = "commands"
  /\ CommandStep
  /\ IF outcome' \in Errors
     THEN EndBulkEdit /\ session' = "none"
     ELSE CacheReaction /\ UNCHANGED session
  /\ UNCHANGED <<readerVars, lineage, backup>>

(* The batch is dropped or finished, or the commands are used up. *)
End ==
  /\ Exclusive /\ Idle /\ session # "none"
  /\ EndBulkEdit
  /\ session' = "none"
  /\ UNCHANGED <<vars, readerVars, lineage, backup>>

(* The command iterator panics, or the batch is forgotten: end_bulk_edit
   never runs and bulk_depth stays raised.                                 *)
Unwind ==
  /\ Exclusive /\ Idle /\ session # "none"
  /\ session' = "none"
  /\ UNCHANGED <<vars, cacheVars, readerVars, lineage, backup>>

-----------------------------------------------------------------------------
(* Readers                                                                 *)

MayRead == Idle /\ session # "commands"
Fresh_AnyVersion == snapshot_cache # NoSnapshot
Fresh == snapshot_cache # NoSnapshot /\ snapshot_cache.version = version

(* snapshot_cached, under the read lock: a hit is served, a miss releases
   the lock and builds.                                                    *)
CheckCache(r) ==
  /\ MayRead /\ built[r] = NoSnapshot
  /\ \/ Fresh /\ held' = [held EXCEPT ![r] = snapshot_cache] /\ UNCHANGED built
     \/ ~Fresh /\ built' = [built EXCEPT ![r] = SnapshotNow] /\ UNCHANGED held
  /\ UNCHANGED <<vars, cacheVars, otherVars>>

(* ... under the write lock: whoever published first wins. *)
PublishSnapshot(r) ==
  /\ built[r] # NoSnapshot
  /\ IF Fresh
     THEN held' = [held EXCEPT ![r] = snapshot_cache] /\ UNCHANGED snapshot_cache
     ELSE held' = [held EXCEPT ![r] = built[r]] /\ snapshot_cache' = built[r]
  /\ built' = [built EXCEPT ![r] = NoSnapshot]
  /\ UNCHANGED <<vars, bulk_depth, bulk_dirty, otherVars>>

(* snapshot: past the cache. *)
TakeSnapshot(r) ==
  /\ MayRead /\ built[r] = NoSnapshot
  /\ held' = [held EXCEPT ![r] = SnapshotNow]
  /\ UNCHANGED <<vars, cacheVars, built, otherVars>>

-----------------------------------------------------------------------------
(* Clones: a new lineage, the same version, a cache of its own, no bulk edit. *)

NextLineage_Same == lineage
NextLineage == lineage + 1    \* next_lineage_id

Clone ==
  /\ session = "none" /\ Idle /\ bulk_depth = 0
  /\ backup = NoBackup
  /\ backup' = [lineage |-> NextLineage, version |-> version, kinds |-> kinds,
                kind_to_index |-> kind_to_index, name_to_kind |-> name_to_kind,
                type_to_kind |-> type_to_kind, kind_to_type |-> kind_to_type,
                edges |-> edges, tombstoned_count |-> tombstoned_count]
  /\ UNCHANGED <<vars, cacheVars, readerVars, lineage, session>>

(* The clone replaces the registry: an undo, say. *)
RestoreClone ==
  /\ Exclusive /\ session = "none" /\ Idle
  /\ backup # NoBackup /\ lineage < MaxLineage
  /\ lineage' = backup.lineage
  /\ version' = backup.version
  /\ kinds' = backup.kinds
  /\ kind_to_index' = backup.kind_to_index
  /\ name_to_kind' = backup.name_to_kind
  /\ type_to_kind' = backup.type_to_kind
  /\ kind_to_type' = backup.kind_to_type
  /\ edges' = backup.edges
  /\ tombstoned_count' = backup.tombstoned_count
  /\ snapshot_cache' = NoSnapshot /\ bulk_depth' = 0 /\ bulk_dirty' = FALSE
  /\ backup' = NoBackup
  /\ UNCHANGED <<validated, outcome, readerVars, session>>

SessionInit ==
  /\ Init
  /\ lineage = 1
  /\ snapshot_cache = NoSnapshot /\ bulk_depth = 0 /\ bulk_dirty = FALSE
  /\ session = "none"
  /\ built = [r \in Readers |-> NoSnapshot]
  /\ held = [r \in Readers |-> NoSnapshot]
  /\ backup = NoBackup

SessionNext ==
  \/ Edit
  \/ \E which \in {"batch", "commands"} : Begin(which)
  \/ ApplyCommand
  \/ End
  \/ Unwind
  \/ \E r \in Readers : CheckCache(r)
  \/ \E r \in Readers : PublishSnapshot(r)
  \/ \E r \in Readers : TakeSnapshot(r)
  \/ Clone
  \/ RestoreClone

SessionSpec == SessionInit /\ [][SessionNext]_sessionVars

-----------------------------------------------------------------------------
(* Properties                                                              *)

(* Every variable has its type. *)
SessionTypeOK ==
  /\ TypeOK
  /\ lineage \in 1..MaxLineage
  /\ snapshot_cache \in Snapshots \cup {NoSnapshot}
  /\ bulk_depth \in 0..(MaxDepth + 1)
  /\ bulk_dirty \in BOOLEAN
  /\ session \in {"none", "batch", "commands"}
  /\ built \in [Readers -> Snapshots \cup {NoSnapshot}]
  /\ held \in [Readers -> Snapshots \cup {NoSnapshot}]

(* A reader is only ever served the registry as it is at that moment: inside
   a bulk edit that has deferred its invalidation, after a bulk depth has
   leaked, after the registry was replaced by a clone, and when two readers
   race to publish.                                                        *)
ServedIsCurrent ==
  [][\A r \in Readers : held'[r] # held[r] => held'[r] = SnapshotNow']_sessionVars

(* Outside a bulk edit the cache never keeps an outdated snapshot alive: the
   invalidation a bulk edit deferred has been made up for by its end.      *)
NoStaleOutsideBulk == bulk_depth = 0 => snapshot_cache \in {NoSnapshot, SnapshotNow}

(* Lineage and version identify the content: query caches rely on it, also
   for snapshots that outlive later edits, restored clones and each other. *)
KeyIdentifiesContent ==
  LET known == {SnapshotNow, snapshot_cache} \cup {held[r] : r \in Readers}
      taken == known \ {NoSnapshot}
  IN \A s, t \in taken : s.lineage = t.lineage /\ s.version = t.version => s = t

(* A snapshot is closed: its edges only mention kinds it contains, so no
   traversal reaches a kind that was tombstoned or removed when it was taken. *)
SnapshotClosed ==
  \A r \in Readers : held[r] # NoSnapshot =>
    \A e \in held[r].edges : \A j \in 1..3 :
      \E i \in DOMAIN held[r].kinds : held[r].kinds[i].kind = e[j]

(* An open bulk edit is always accounted for, so that its end, and nothing
   before it, can commit; register_consts nests one level deeper.          *)
DepthCoversSession ==
  bulk_depth >= (IF session = "none" THEN 0 ELSE 1) + (IF validated = <<>> THEN 0 ELSE 1)

(* A bulk edit defers invalidation to its own end, neither to an earlier one,
   which an inner bulk edit or an error might bring, nor past it.          *)
DeferredToItsEnd == DepthCoversSession /\ NoStaleOutsideBulk
=============================================================================
