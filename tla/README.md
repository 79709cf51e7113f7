# A TLA+ verification of bevy_semantics

bevy_semantics keeps an ontology for a Bevy application: named *kinds*, static and
dynamic bindings of Rust types to kinds, and directed edges `(subject, relation,
target)` between kinds. Writers edit one mutable registry; readers query immutable
snapshots of it. This directory holds TLA+ modules that model that code, the TLC
configurations that check them, and theorems about them proved with TLAPS.

Paths such as `registry.rs` mean `src/src/registry.rs`; line numbers are those of the
commit in `src/`. `PROJECT.json` maps every definition to the lines it stands for.

## 1. Inventory

| component | code | state | operations | what makes it correct |
|---|---|---|---|---|
| semantic registry | `registry.rs` | vector of kind metadata, three lookup maps and one reverse map, edge set, `tombstoned_count`, `version`, `lineage` | `register_kind`, `register_const(s)`, `typed_kind(_named)`, `register_semantic_type`, `bind_static_component`, `tombstone_kind`, `revive_kind`, `unregister_kind`, `unregister_namespace`, `add_edge(s)`, `remove_edge(s)`, `apply_command` | maps agree with the vector; names, kinds and types are one to one; no dangling edge; counts exact; pinned identities survive; the version tells states apart |
| snapshot cache, bulk edits, clones | `registry.rs` | cached snapshot behind an `RwLock`, `bulk_depth`, `bulk_dirty` | `snapshot`, `snapshot_cached`, `batch`, `apply_commands`, `Clone` | a reader is served the current state; lineage and version identify it |
| snapshot | `snapshot.rs` | kinds, names, types, adjacency rows; `is_a` and query caches | lookups, `neighbors`, `reachable`, `can_reach`, `is_a` | closed under its edges; deterministic answers |
| query builders, compiled queries | `query.rs` | filters, fingerprint, snapshot binding, local cache (`Arc<RwLock<..>>`) | fluent filters, `compile`, `run_*` | an answer fits the query and the snapshot, from whichever cache |
| traversal | `snapshot.rs` | per-thread scratch with generations | `traverse_kinds`, `reachable`, `can_reach` | what is reachable within the depth, each kind once when deduplicating, limits respected |
| edge query evaluation, set sources | `query.rs` | none | `resolve_kind_set`, `run_edge_query` | the edges a query describes |
| Bevy plugin | `plugin.rs` | command queue, playback queue, the `Semantics` resource | `Commands` extensions, `apply_semantic_commands` in `PostUpdate`, `playback`, `SemanticEdit` | staged commands apply once, in order |
| component bindings | `semantic_component.rs` | `SemanticComponents`: kind <-> component id | `try_register_semantic_component` | one to one, and consistent with the registry |
| derive macros | `bevy_semantics_derive` | none (compile time) | code generation | the constant it generates is the hash of the name |
| leaf types | `kind.rs`, `core.rs`, `error.rs`, `direction.rs`, `semantic_type.rs`, `lib.rs` | none | conversions, re-exports | |

How they interact: the plugin's systems and the fluent edits call the registry through
`&mut`; component registration calls `bind_static_component` and then records the
mapping; readers call `snapshot_cached` through `&`, concurrently; query builders and
compiled queries only see `Arc<SemanticSnapshot>`s, which outlive later edits. Rust's
borrow rules are the only writer lock: an edit is alone with the registry, readers
share it. Locks exist around the snapshot cache, each builder's local cache and each
snapshot's query and `is_a` caches. Nothing is persisted and no messages are lost, so
there is no crash recovery to model; what stands in for it is an error or a panic half
way through an operation.

The hard behaviours are long sequences of legal calls that must keep five redundant
tables together, invalidation that is deferred while readers go on reading, versions
and lineages that must tell cached results apart, and results compiled outside a lock.
`PROJECT.json` lists them as hazards, each at its line with the properties that guard it.

## 2. Modules

| module | what it models |
|---|---|
| `SemanticRegistry` | the registry's tables, one action per public operation |
| `Ontology` | the abstract specification: a set of identities and the links between live ones |
| `RegistryRefinement` | the refinement mapping from the registry to `Ontology` |
| `SnapshotCache` | EXTENDS `SemanticRegistry`; bulk edits, the cached snapshot, concurrent readers, clones |
| `QueryCache` | running queries through a builder's local cache and a snapshot's query cache, with their locks |
| `Traversal` | breadth-first search over a snapshot with the reused scratch space: traversal queries, `reachable`, `can_reach` |
| `IsACache` | `is_a` and the ancestor cache that threads race to fill |
| `EdgeQueries` | building, nesting, compiling and evaluating edge queries |
| `CommandPipeline` | EXTENDS `SemanticRegistry`; the Bevy plugin: staging, the drain, playback, fluent edits, frames and panics |
| `ComponentBindings` | EXTENDS `SemanticRegistry`; component registration over two resources of a world |
| `SemanticRegistryProofs` | TLAPS proofs about `SemanticRegistry`, which the proofs about every module that extends it use; and that it implements `Ontology` |
| `SnapshotCacheProofs`, `QueryCacheProofs`, `IsACacheProofs` | proofs about the caches readers go through |
| `TraversalProofs` | what a search finds, on every graph |
| `EdgeQueriesProofs` | what an edge query returns, however queries are nested |
| `ComponentBindingsProofs`, `CommandPipelineProofs` | proofs about the two ways an application reaches the registry |
| `MC<module>` | small instances for TLC; `MCRegistry` and `MCRegistryVector` for the registry |

How the modules compose. `SnapshotCache`, `CommandPipeline` and `ComponentBindings` each
extend `SemanticRegistry` and take its actions, whole, as the edits they order, so an
error a registry operation returns is the error that stops a batch, a drain or a
registration. The readers' side is split by what the caches make independent:
`QueryCache` asks only whether an answer fits its query and snapshot and treats both as
atoms, `EdgeQueries` says what an edge query means on one snapshot, and takes a traversal
source as an atom with its answer, which is what `Traversal` computes. `IsACache` takes
`reachable` as a least fixed point, which is what `Traversal` returns
(`UnboundedIsClosure`).

### SemanticRegistry

Variables have the names of the code's fields; `Vec` indices start at 1. Names are
atoms. `Canon` stands for `canonicalize_name` (several spellings, one name; an empty
spelling yields `NoName`), `Hash` for `hash_canonical_name`, which the model does *not*
assume to be injective. `Members` and `NamespaceFault` stand for the prefix match and
the validation of a namespace. `StaticName` and `StaticKind` are what a
`SemanticType` implementation declares, which may be wrong.

Each public operation is one action whose disjuncts are the early returns and the
success path, in the code's order; `outcome` is what it returned. `Register` is
`register_canonical_kind_with_identity`, the function all registration paths share.
`register_consts` is the one operation that is not a single step: it validates the whole
slice (`RegisterConsts`) and then registers one declaration after the other
(`RegisterValidatedConst`), each of which could fail; `validated` holds the rest of the
slice and every other action is disabled until it is used up, because the caller holds
`&mut SemanticRegistry`. Whether a failure in that loop can happen is a property
(`ConstGroupNeverFails`), not an assumption.

`typed_kind`, `typed_kind_named` and the queued command share one action, and
`add_edge`/`remove_edge` are the one-element slices of `add_edges`/`remove_edges`. Left
out: the wording of errors, `Core` (the record of core handles), lookups (they change
nothing; what they rely on are the invariants).

### SnapshotCache

`Edit` is any registry step *together with* `CacheReaction`, what `bump_version`,
`begin_bulk_edit` and `end_bulk_edit` do to `snapshot_cache`, `bulk_depth` and
`bulk_dirty`. A `batch` or an `apply_commands` is a session around edits. `ApplyCommand`
ends its session at the first error and keeps what the commands before it did. `Unwind`
is the panic of a caller's command iterator, or a forgotten batch: `end_bulk_edit` is
skipped. `snapshot_cached` is two steps, the read-locked check with the build, and the
write-locked publication, and readers interleave between them; edits need `Exclusive`,
because they need `&mut`. A snapshot is what `from_registry` copies (`SnapshotNow`): the live kinds
with their names, types and edges, and of the metadata what it exposes (`Exposed`). Readers may also read between the edits of a batch, which
dereferences to the registry. `Clone` and `RestoreClone` keep a clone and put it in the
registry's place.

### QueryCache

One thread of `compile_cached` is the steps `StartRun` (snapshot binding, local cache),
`LookUp` (read lock), `CopyHit`, `Compile` (no lock), `LockForWriting`, `Publish`; a hit
keeps the read lock while the local cache is written, as the guard's temporary does in
the code. `TypeOK` includes that the locks held are those of the guards the threads are
inside of. The local cache's own lock is no lock in the model: `local_cache` and
`store_local_cache` wait for nothing between taking and releasing it, so each is part of one
step. `EdgeQueryBuilder` and `TraversalQueryBuilder` have the same code here.
Builders are modified by value (`Modify` needs that nobody runs them), cloned with a
shared `Arc` (`cell`), and replaced. `BuilderOps` says which of these a program does;
"modify unshared" is modification while no other builder has the same cell. Queries are
atoms and `Eval` is their meaning.

### Traversal

One thread asks the questions of one of the `Programs`, each chosen from what the program
allows for that call; a step visits one kind. `seen`, `result_seen`, `frontier`,
`next_frontier` are the fields of `TraversalScratch` and survive from call to call; `pending` is what the innermost `for`
has left, taken in dense order. A set of marks is the code's vector of slots with its
generation, and the hash set for kinds the snapshot does not know; `Advance` erases the
slots when the counter wraps. `Start` has the early returns (no seeds, `can_reach` of
itself or to depth 0), `MarkSeed` ... `EndLevel` are the loops, with their returns from
the middle. The reference is `Walk(n)`, the ends of walks of exactly n edges, which
knows neither levels nor marks. `stop_on_match`, `max_results`, `include_start`, `dedup`
and the four kinds of depth are inputs. `should_stop_after_result` is asked after a result was pushed, so
`max_results(Some(0))` returns one kind, as `LimitsCutShort` says. The branch of `with_traversal_scratch` for a
scratch space already borrowed is unreachable: the search calls nothing that traverses.

### IsACache

`is_a` is `Ask` (a kind is itself), `LockForReading` and `Read`, `Compute` under no lock, and
`LockForWriting` and `Insert`, which is `or_insert`. Taking a lock and using what it guards
are steps of their own, and `readers` and `writer` say who holds the guards, so that a
guard dropped too late blocks whoever needs the lock next, its own thread included: the read
guard is a temporary of the `if let` and goes with it, on a hit and on a miss. Clones of a
snapshot share the cache, so a snapshot stands for its allocation. `told` records every
answer.

### EdgeQueries

A program builds one query with the fluent calls, may put it aside as a source (as a
builder, or compiled on the current snapshot), begins another one and feeds it the first;
snapshots move on underneath, to another version and to another lineage. A source owns
its builder (`SetSource::EdgeQuery` boxes it), so nothing changes a builder once it is one:
`queries` keeps these builders in the order they were put aside, and a source names a place.
What running each of them returns is a function over places (`Results`), whose value at a
place rests on earlier ones. `Run` is
`ensure_snapshot` and `compile_uncached`; `Evaluate` is `SetSource::evaluate`; `Resolve` is the loop over sources with its
early exit; `Intersect` is the merge of two lists in dense order; `EdgeMatches` has the
mask of empty lanes. `lanes` records what the program asked for, independently of
`builder`, and `LanesDecideMatches` compares the two. Which adjacency rows are scanned is
abstracted to the edges they hold.

### CommandPipeline

A frame runs `Update`, `PostUpdate` and `Last`. Systems that take `ResMut<Semantics>`
exclude each other, so a drain, a playback or an edit chain runs to its end once begun
(`Free`), one registry operation per step; staging and enqueuing interleave with them.
`Stage` puts a command in a system's buffer, and Bevy (external) flushes the buffers of a
schedule in system order when it ends (`Flush`). `ApplySemanticCommands` takes the whole
queue, `PopBatch` one batch before it is applied, `AfterCommand` drops the rest on an
error; an error of the drain, or `expect` on a chain, panics. The host may catch the panic
and update again (`Recover`); whether buffers of the interrupted schedule were flushed or
are kept depends on Bevy's executor, so both happen. Playback runs only where the app
added a system for it (`AppSystems`), as `examples/task_playback.rs` does. A chain's
`register_consts` takes the registry's several steps and ends with the last.

`Commands` are the `SemanticCommand`s that can be queued, `DirectCalls` what an edit chain may also
call. `RepliesAreTrue` says of playback and of chains that what they report is what the
commands did.

`issued`, `takes`, `done`, `drained`, `interrupted` and `moved` are history: they record
commands and outcomes and guard no action of the program. Left out: the bulk edit
around a drain (`SnapshotCache` has it), a world without the plugin (its
`expect` panics before anything is staged), and systems that stage in `PostUpdate`, whose
commands meet the next frame's drain like those staged in `Last`.

### ComponentBindings

`try_register_semantic_component` is one step, since it holds `&mut World`, with the
disjuncts of its returns: the fast path (`AlreadyMapped`), a wrong declaration, and
`RegisterAndBind`, which initializes the resources, registers the component, validates,
binds in the registry and then in the mapping. `registered` is the world's table of
component ids, which resources and components share (external: Bevy); so `by_component`
is sparse, as in the code. Between calls the app may register the type as a mere component,
edit the registry, replace `Semantics` by a fresh one or remove `SemanticComponents`;
`MaxEvents` bounds these. Two returns of the code are beyond reach of any such history and
stay untaken in the model: `ComponentKindConflict`, and the return behind
`has_static_component_binding`; both need a mapping that was built in another world.

### Definitions named `<name>_<Fault>`

are mutations of `<name>`: a bug the code might have had. No behaviour uses them.
`PROJECT.json` lists, for each property of each run, the mutation that breaks it, so
every property is known to be able to fail.

## 3. Runs

| run | properties | instance and bounds |
|---|---|---|
| `registry` | `TypeOK`, `RegistryCoherent` (index, names, bindings, flags), `TombstoneCountExact`, `EdgesActive`, `ConstGroupNeverFails`, `PinnedIdentities`, `NoSilentRebind`, `VersionTracksState` | two core kinds, a namespace of two names, two names with the same hash, a reserved name, an empty spelling, a name written in two ways, one right and one wrong static identity, `VersionModulus = 3` |
| `registry_vector` | `ImplementsOntology` | one core and three user kinds, of which two share a namespace, so that the vector holds up to four entries and every removal can move another entry |
| `snapshot_cache` | `SessionTypeOK`, `DeferredToItsEnd`, `KeyIdentifiesContent`, `SnapshotClosed`, `ServedIsCurrent` | two readers, one core and one user kind, one clone, `bulk_depth` up to 2 before a session opens, versions below 6 |
| `query_cache` | `TypeOK`, `AnswersFit`, `CachesFit` | two threads, two builders, two queries, two versions of a lineage, three runs; builders are cloned, and modified while no clone shares their cache |
| `query_progress` | `AnswersFit`, `RunFinishes` | one valid and one invalid query, two lineages with one version, three runs, fair threads |
| `query_shared` | *violated*: `AnswersFit` | builders that are cloned and then modified |
| `traversal` | `TypeOK`, `LevelsAreExact`, `ReachesWithinDepth`, `DiscoveryOrder`, `LimitsCutShort`, `CanReachAgrees` | every graph over three kinds and every two-relation graph over two, an unknown kind, depths 0 to 4, limits 0 to 3, one call; and six calls in a row over three snapshots of different sizes; three generations |
| `is_a_cache` | `AnswersFormPreorder`, `CallsReturn` | two threads, three calls in all, two snapshots, one with a cycle and a tail, fair threads |
| `edge_queries` | `TypeOK`, `QueryAsMeant`, `FaultsAreFirst` | four calls, three snapshots (a version and a lineage apart), kinds a snapshot does not know, queries fed to queries |
| `pipeline` | `PipelineTypeOK`, `AppliedOnceOrLost`, `InIssueOrder`, `StagedMissNoDrain`, `RepliesAreTrue`, `EverythingSettles` | three systems, every command and direct call, four commands, frames 0 to 2, playback in `PostUpdate`, fair frames |
| `component_bindings` | `BindingTypeOK`, `MappingsSound`, `MappedKindsPinned`, `BindingsOnlyGrow` | two components with one kind, one with another, one misdeclared, an id space shared with resources, two events |
| `component_pins` | *violated*: `RegistrationPins` | the same with three events: the registry is replaced between two registrations of one component |

Why the bounds are enough. The registry's state is finite for finitely many names, types
and edges, so `registry` and `registry_vector` bound nothing but those sets; a wrapping
version of three values covers the wrap-around of 2^64 and every pair of bumps. In
`snapshot_cache` versions do not wrap (`NoWrap`): cached snapshots are compared by
version only, so serving a snapshot exactly 2^64 edits old is outside the model, as it is
outside any program's life. Two readers are enough for the race to publish, since the cache
has one slot. `MaxDepth` allows a session to open on top of a leaked one. In `QueryCache`
three runs are two that race to compile and publish and one that is served from what they
left, or a result that is compiled, kept and asked again on another snapshot.

In `Traversal` a search over three kinds already has every shape a level can meet (new,
seen in this level, seen before, a cycle, an unknown kind), and a generation counter of
three values wraps within six calls. Three calls of `is_a` are two that race to fill an entry
and one that finds it. `EdgeQueries` needs three calls to nest a query and one to disturb
it. In `CommandPipeline` four commands are two batches of two, so that a failing batch has
one waiting behind it, or a failing command between two others; three frames let a command
staged in `Last` cross a frame boundary, with a panic in between. `StagedMissNoDrain` says
nothing of the frames from `MaxFrame` on, where the counter stands still. Two events (three in
`component_pins`), between any number of registrations, let `ComponentBindings` replace a registry and edit the new
one, or edit the registry and lose the mapping.

Deadlock is checked in every run but those of `Traversal`, `IsACache` and `EdgeQueries`,
where a program makes a bounded number of calls and then is done.

Fairness is stated in three modules, each time of work already begun, never of a
program's decision to begin some. A thread inside `compile_cached` (`QueryCache`) or
`is_a` (`IsACache`) is a running thread that waits for nothing but locks, so weak fairness
of its step is what the operating system gives; nothing is assumed of locks beyond that
a free lock can be taken. `Step` of a thread that waits is enabled only while its lock is
free, so `RunFinishes` and `CallsReturn` rest on what the guards allow: they fail if a guard
outlives its use. They show that threads do not block each other or themselves. They do not
show that a writer gets past an endless stream of readers, which `std`'s `RwLock` leaves to
the platform: runs and calls are bounded, so readers run out. In `FairPipelineSpec` weak fairness of `Run` says that the host
keeps calling `App::update`, also after a panic, and that systems return; staging,
enqueuing and editing are not fair.

### What the violated runs show

`query_shared`. `EdgeQueryBuilder` and `TraversalQueryBuilder` derive `Clone`, and the local
cache is an `Arc`, so a clone shares it. Fluent filters clear it in place and `local_cache`
(`query.rs:679`) accepts an entry for the right snapshot whichever query compiled it. TLC's
shortest behaviour: clone a builder, give the clone another filter, run one and then the
other on the same snapshot; the second returns the result of the first. `spec.md:469`
asks for cache keys of query fingerprint and snapshot. `query_cache` shows that clones are
sound, and modification too, as long as no clone shares the modified builder's cache.

`component_pins`. `spec.md:161` says a registration pins the identity. After the
`Semantics` resource was replaced, the fast path of `try_register_semantic_component`
(`semantic_component.rs:122`) answers from the mapping and returns `Ok`, although the new
registry does not know the kind. `MappedKindsPinned` holds as long as nobody replaces it.

### Where the code differs from its documents

Three more places where a document reads differently; the model follows the code, and the
property named states what holds.

- `spec.md:301` calls `can_reach` the boolean form of `reachable`; `can_reach(a, r, a, d)`
  is true at once (`snapshot.rs:291`), while `reachable` returns `a` only over a cycle.
  `CanReachAgrees` is the document's statement for a start and a target that differ, where
  the code agrees with it; it says nothing of a kind and itself.
- `spec.md:431` lets only set-producing queries feed sources; a source is checked when
  it is evaluated, and `resolve_kind_set` stops at the first empty set (`query.rs:1123`), so
  an invalid source behind an empty one is accepted. `FaultsAreFirst` says what this comes
  to: faults in front of every empty set are reported, first one first, and with
  a fault behind one the query matches nothing.
- `README.md:375` of the repository says "the plugin replays them later";
  `SemanticsPlugin` installs the drain only. `EverythingSettles` holds because the
  instance adds a system that calls `playback`; without one a batch waits forever.

## 4. Proofs

Every safety invariant and action property the passing runs check is a theorem, for every
value of the constants that satisfies the module's assumptions. The theorems without a property of a run in
brackets are the inductive invariants and what else a reader may want to cite.

| module | theorems (property they state) |
|---|---|
| `SemanticRegistryProofs` | `Invariance`; `TypeCorrect` (`TypeOK`), `MapsCoherent` (`RegistryCoherent`), `NoDanglingEdges` (`EdgesActive`), `TombstoneCountIsExact` (`TombstoneCountExact`), `FlagsStayCoherent`, `ConstGroupsAreTransactional` (`ConstGroupNeverFails`), `PinnedForLife` (`PinnedIdentities`), `TypesStayBound` (`NoSilentRebind`), `VersionMoves` (`VersionTracksState`: the version moves exactly when the state does); `RegistryImplementsOntology` (`ImplementsOntology`) |
| `SnapshotCacheProofs` | `SessionInvariance`; `SessionTypeCorrect` (`SessionTypeOK`), `InvalidationIsDeferred` (`DeferredToItsEnd`), `KeysIdentify` (`KeyIdentifiesContent`), `SnapshotsAreClosed` (`SnapshotClosed`), `ReadersSeeTheRegistry` (`ServedIsCurrent`), `SnapshotsShowTheLiving` |
| `QueryCacheProofs` | `CompileInvariance`; `QueryTypeCorrect` (`TypeOK`), `SnapshotCachesSound`; under `NoSharedModification`: `BuilderInvariance`, `AnswersAlwaysFit` (`AnswersFit`), `CachesAlwaysFit` (`CachesFit`) |
| `IsACacheProofs` | `IsAInvariance`; `AnswersArePreorder` (`AnswersFormPreorder`); `SomebodyGoesOn` |
| `TraversalProofs` | `SearchInvariance`; `SearchTypeCorrect` (`TypeOK`), `LevelsAlwaysExact` (`LevelsAreExact`), `FindsWhatIsWithin` (`ReachesWithinDepth`), `NearestFirst` (`DiscoveryOrder`), `LimitsOnlyCut` (`LimitsCutShort`), `CanReachAlwaysAgrees` (`CanReachAgrees`); `HorizonLosesNothing`, `UnboundedIsClosure` |
| `EdgeQueriesProofs` | `EdgeInvariance`; `EdgeTypeCorrect` (`TypeOK`), `QueriesReturnWhatIsMeant` (`QueryAsMeant`), `FirstFaultIsReported` (`FaultsAreFirst`) |
| `ComponentBindingsProofs` | `BindingInvariance`; `BindingTypeCorrect` (`BindingTypeOK`), `MappingsAlwaysSound` (`MappingsSound`), `MappedKindsStayPinned` (`MappedKindsPinned`), `BindingsNeverShrink` (`BindingsOnlyGrow`) |
| `CommandPipelineProofs` | `PipelineIsRegistry` (`PipelineSpec => Spec`), `PipelineInvariance`; `PipelineTypeCorrect` (`PipelineTypeOK`), `EveryCommandOnceOrLost` (`AppliedOnceOrLost`), `RepliesTrue` (`RepliesAreTrue`); `OrderInvariance`, `CommandsInOrder` (`InIssueOrder`); `DrainInvariance`, `StagedMeetsItsDrain` (`StagedMissNoDrain`) |

### The registry

Assumptions: atoms are distinct from the sentinels; `Canon`, `Hash`, `Members` and the
rest are functions on their sets; the hashes of the core names differ (the code's
`expect` in `Default`); seed edges join core kinds; the version has more than two values,
since an operation bumps it at most twice. `Hash` is arbitrary otherwise.

`TypeOK` is not inductive: that swap-removal and the rebuilt maps stay
typed and aligned depends on every table agreeing with the vector. `IInv` therefore joins
`Coherent` (types, index and name maps), `BindingsCoherent` (type maps) and
`PendingConsistent` (what validation guarantees of the declarations still to be
registered: they are canonical, unreserved, hash right, and neither collide with the
registry nor with each other). `NextIsEffect` reduces the fourteen operations to eight
*effects* on the tables (nothing, rewrite a known kind, push a new one, tombstone,
revive, swap-remove, retain, edit edges); one lemma per effect shows that `IInv` is
preserved. Two lemmas about the vector carry the weight: `SwapRemoveCoherent`, and
`RankBijection`/`RetainPlaces`, which show that `retain` numbers the kept places one to
one. `Safe` adds `FlagsCoherent`, `EdgesActive` and `TombstoneCountExact` to
the invariant; the count needs bijections between places before and after a removal.
The action properties follow from the same case split over effects.

The refinement matches each effect with an action of `Ontology` (`Restate`, `Introduce`,
`Retire`, `Forget`, `Relink`) or a stutter. The mapping reads the registry the way lookups
do, through two hash maps; `Reading` says that while the tables are coherent lookups return
what the vector records, so that it suffices to follow the vector. That swap-removal and
`retain` renumber it is invisible to the set of identities.

### What readers get

`SessionInv` joins `Safe` to the cache: every snapshot somebody still has is closed, and is
of an older lineage, an older version, or shows the registry of the moment (`KeptSound`); an outdated
snapshot in the cache is one a bulk edit has yet to drop (`CacheTracked`); what a reader
has built and not published is current, since edits need `&mut`; and a clone put aside
holds a safe registry (`BackupSound`, said with an `INSTANCE` of `SemanticRegistry` for the
clone's tables). `VersionMoves` is what carries `KeysIdentify`: no two states of one
lineage share a version, because versions do not wrap here.

In `QueryCache`, `CompileInv` (types, locks held exactly where the code is inside
their guards, sound entries in the snapshots' caches) is invariant whatever a
program does with its builders. `BuilderInv` (builders that share a local cache ask the
same query; local entries and answers fit) needs `NoSharedModification`: a program does not
both clone builders and modify them while a clone shares their cache. That hypothesis is the exact
complement of what the run `query_shared` shows violated. The assumption of enough cells
says that an allocation is always found.

`IsACache`: an entry, a thread about to insert one, and every answer given are the least set of
ancestors (`CacheExact`, `CallsSound`, `ToldTruly`), which `LeastAncestors` defines as the
intersection of all closed sets; hence answers of one snapshot form a preorder. `GuardsHeld`
says that a guard is held by the threads that are using what it guards, by no other, and that
a writer is alone. Hence `SomebodyGoesOn`: whoever holds a guard can take its next step, which
is the part of `CallsReturn` that does not need fairness, for any number of threads.

### What a search finds

`SearchInv` is about one search in progress, over whatever earlier searches left in the
scratch space. `Typed` holds a fact no property mentions: no slot is ahead of its
generation (`MarksOK`). `AdvanceFacts` turns it into "a new generation has no marks", also
when the counter wraps and when the next snapshot is larger. `Exploring` and `Expanding`
say what is marked between and within levels: everything within the depth behind, what was
found on the way, and for each kind already expanded its neighbours, marked or pending.
`Collecting` says the same of results, which differ by kind of depth: a neighbour is a
result at a matching depth although it was discovered before. `Searching` bounds the depth
by the number of marked kinds, which is why a search ends over a cycle.

The properties speak of walks, a recursive function, and the invariant of levels. `NextLevel`
and `LastLevel` connect them: only kinds first reached at depth `n` need expanding to reach
everything within `n + 1` edges, and after a level that finds nothing new no longer walk
does. Answers are checked where they are returned (`GoodAnswer`), by three lemmas: one for
a search a limit cut short (`CutAnswer`), two for a search that ran out of kinds or depth
(`FullAnswer`, `FinishAnswers`). Assumptions: kinds are finitely many numbers, a snapshot
lists each once, edges join what it lists, questions are of the types of the API,
`usize::MAX` exceeds the number of kinds, and a generation counter has at least two values.

To let TLC evaluate what a transitive query should find, `Found` looks no further than
`Horizon`, the number of kinds. That this loses nothing is a theorem: levels are disjoint and
one that leads nowhere new comes before kinds run out (`LevelsRunOut`), after which no longer
walk leads anywhere else (`NothingBeyondKinds`, `HorizonLosesNothing`). It follows that an
answer without limits to such a depth is the least set closed under the edges asked for
(`UnboundedIsClosure`), which is the definition `IsACache` starts from.

### What an edge query means

`QueryAsMeant` compares two accounts of a query. The code's sorts lists by dense index,
merges them, stops at the first empty set, and marks with a mask which empty lists filter
everything; the property's is one condition on each edge, from `lanes`, which the fluent
calls fill with what was asked for, and from what every source offers.

`DenseKeys` says that dense indices, and the keys of kinds a snapshot does not know, tell
kinds apart, so that a list in dense order holds each member once (`DenseOrder`) and
the merge is intersection (`IntersectionIsExact`, by `SharedIsMerge`: while the merge is at a
pair of places, what it has yet to collect is what the rests of both lists share). `SoFar` is the invariant of the loop
over sources: after each, the set holds what the lane and the sources passed share, or the loop has
stopped at a fault or at an empty set, which no later source enlarges (`ResolveIsExact`), and
whether it failed is decided by the sources it got to. `EndsFail` carries this to the two
ends of a query, for `FaultsAreFirst`.
A nested query contributes what running it returns (`ResultsUnfold`, `EvaluateOffers`), because
a builder owns only builders put aside before it; this is part of `TypeOK`, without which a
result could rest on itself. Later calls change none of it (`RunsStay`).

`EdgeIInv` joins to `TypeOK` that the builder's lists and mask are the lanes as they were
asked for (`LanesAgree`: an empty lane without a mask would match everything, one call after
`cartesian` emptied it), and that an answer is that of the query as it stands. Assumptions:
kinds are finitely many numbers, the absence of a filter is no set of kinds,
and snapshots and the inputs of a program have the types of the API.

### How applications reach the registry

`BindingInv` joins `Safe` to the mappings: they are inverse, lead to the type that declares the
kind, and every mapped kind is pinned in the registry, unless `Semantics` was replaced
after it was mapped. Besides the assumptions of the registry: the crate's own resources implement no
semantic trait (`Types \cap Resources = {}`).

`PipelineIsRegistry` shows that a plugin's step is a step of the registry or leaves it alone, so
every theorem about `Spec` holds in an app. `PipelineInv` says where commands are: each in
one place (`Placed`), what is held is the end of what was taken last (`Holding`), what was
taken is applied, held or behind a failure (`Settled`). `OrderInv` adds where commands come from (`Origins`)
and that every place is sorted by the order in which they may be applied, and everything
taken comes before everything waiting (`Ordering`). `DrainInv` adds what frames did: no
drain passed over what still waits or what it holds (`Unmissed`, `InTime`), where a frame
may be missed only because of a panic before its buffers were flushed (`Buffered`).
Assumptions: systems are distinct, staged in `Update` or `Last`, and none is called as
the model calls the other two sources of commands.

### Two devices

The library's induction theorems take a predicate and cannot be instantiated by the provers;
`IntervalInduction` is induction over an interval said of a set, proved from its least
missing member. `FlattenSeq` (what Bevy does with buffers), a recursive function of the
community modules, is characterised by `Flattens`: what it holds, and in which order.
The recursive functions of `Traversal` and `EdgeQueries` are shown to exist by induction over
the intervals on which they are defined; then they satisfy their equations
(`ResultsExist` and `ResultsUnfold`, for one), which is all that the proofs use.

### Only model-checked

- Liveness, which the provers cannot reach: `RunFinishes`, `CallsReturn`, `EverythingSettles`.
- `depth_exact` together with `include_start`: `ReachesWithinDepth` says nothing of it, so
  neither run nor proof does.

## 5. Not modelled

- Derive macros: they generate constants at compile time and keep no state; their output
  enters as `StaticName` and `StaticKind`, right and wrong ones.
- Leaf types: `Kind` conversions, the wording of errors, `Core`, re-exports.
- Lookups of registry and snapshot (`kind_by_name`, `neighbors`, counts, iterators): reads
  of tables whose coherence the invariants state. Adjacency rows are the edge set.
- Lock poisoning: no code panics while it holds one of the locks.
- Bevy itself: buffers, schedules and component ids are modelled from how the code uses
  them and marked external; parallel execution of systems that do not share `Semantics`
  is the interleaving of `Stage` and `Enqueue`.
- Benches, examples and tests: clients, read as documentation. The playback
  system of `examples/task_playback.rs` is the one of the run `pipeline`.

## 6. Plan

All modules of section 2 are written and checked, and all that their runs
check of safety is proved. What is left is beyond the provers (the liveness properties) or
beyond the model (section 5).
