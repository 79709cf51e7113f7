----------------------------- MODULE QueryCache -----------------------------
(***************************************************************************)
(* Running queries through the two caches of src/src/query.rs: the local   *)
(* cache of a builder (compiled_cache, an Arc that clones of the builder   *)
(* share) and the query cache of a snapshot.  EdgeQueryBuilder and         *)
(* TraversalQueryBuilder run the same steps, compile_cached, modelled here *)
(* per thread with the locks it holds.  A query and what it evaluates to   *)
(* on a snapshot are atoms.                                                *)
(***************************************************************************)
EXTENDS Naturals, FiniteSets

CONSTANTS
  Threads,
  Builders,      \* places a program keeps query builders in
  Cells,         \* allocations of compiled_cache
  Queries,       \* the filters and options a builder describes
  DefaultQuery,  \* what a new builder describes
  BadQueries,    \* queries compile_uncached rejects
  Snapshots,     \* Arc<SemanticSnapshot>s
  KeyOf,         \* the SnapshotKey of each: lineage and version
  None,
  BuilderOps,    \* what the program does: "clone", "modify" or "modify unshared" builders
  MaxRuns        \* bound on the runs of all threads together

ASSUME QueryAssumption ==
  /\ BadQueries \subseteq Queries /\ DefaultQuery \in Queries
  /\ \A s \in Snapshots : KeyOf[s] \in [lineage : Nat, version : Nat]
  /\ BuilderOps \subseteq {"clone", "modify", "modify unshared"}
  /\ None \notin Cells \cup Queries \cup Builders \cup Snapshots \cup Threads
  /\ IsFiniteSet(Builders) /\ IsFiniteSet(Cells)
  /\ Cardinality(Cells) >= Cardinality(Builders)
  /\ MaxRuns \in Nat

VARIABLES
  builders,      \* [query, bound, cell] in every place
  local,         \* cell -> None or [key, result]
  cached,        \* snapshot -> the entries of its query cache
  pc,            \* where each thread is in compile_cached
  run,           \* what the thread is running: [builder, snapshot], or None
  readers,       \* threads that hold a snapshot's query cache for reading
  writer,        \* the thread that holds it for writing, or None
  answer,        \* what the thread's last run was asked and returned
  runs           \* how many runs have begun

vars == <<builders, local, cached, pc, run, readers, writer, answer, runs>>

Keys == {KeyOf[s] : s \in Snapshots}
Compiled == [query : Queries, key : Keys]         \* Arc<CompiledEdgeQuery>
Eval(query, snapshot) == [query |-> query, key |-> KeyOf[snapshot]]
Lookup == [query : Queries, bound : Keys \cup {None}]  \* what PartialEq compares

BuilderOf(t) == builders[run[t].builder]
EntryKey(t) == [query |-> BuilderOf(t).query, bound |-> BuilderOf(t).bound]
Hit(t) == EntryKey(t) \in DOMAIN cached[run[t].snapshot]
Entry(t) == cached[run[t].snapshot][EntryKey(t)]

Borrowed(b) == \E t \in Threads : pc[t] # "idle" /\ run[t].builder = b

KeyFault_LineageOnly(expected, current) ==
  IF expected.lineage # current.lineage THEN "SnapshotLineageMismatch" ELSE "Ok"
KeyFault_VersionOnly(expected, current) ==
  IF expected.version # current.version THEN "StaleCompiledQuery" ELSE "Ok"

(* ensure_snapshot_key: the lineage is compared before the version. *)
KeyFault(expected, current) ==
  IF expected.lineage # current.lineage THEN "SnapshotLineageMismatch"
  ELSE IF expected.version # current.version THEN "StaleCompiledQuery" ELSE "Ok"

-----------------------------------------------------------------------------
(* What a program does with builders.  The fluent methods take the builder
   by value, so nobody is running it; each ends with refresh_fingerprint,
   which clears the builder's local cache in place.                        *)

Shared(b) == \E other \in Builders \ {b} : builders[other].cell = builders[b].cell
MayModify(b) ==
  /\ ~Borrowed(b)
  /\ \/ "modify" \in BuilderOps
     \/ "modify unshared" \in BuilderOps /\ ~Shared(b)

Modify_KeepsLocal(b) ==
  /\ MayModify(b)
  /\ \E q \in Queries : builders' = [builders EXCEPT ![b].query = q]
  /\ UNCHANGED <<local, cached, pc, run, readers, writer, answer, runs>>

Modify(b) ==
  /\ MayModify(b)
  /\ \E q \in Queries : builders' = [builders EXCEPT ![b].query = q]
  /\ local' = [local EXCEPT ![builders[b].cell] = None]
  /\ UNCHANGED <<cached, pc, run, readers, writer, answer, runs>>

(* derive(Clone): the clone shares the Arc of the local cache. *)
CloneBuilder(b, c) ==
  /\ "clone" \in BuilderOps /\ b # c /\ ~Borrowed(c)
  /\ builders' = [builders EXCEPT ![c] = builders[b]]
  /\ local' = IF \E d \in Builders \ {c} : builders[d].cell = builders[c].cell THEN local
              ELSE [local EXCEPT ![builders[c].cell] = None]  \* c's old Arc is freed
  /\ UNCHANGED <<cached, pc, run, readers, writer, answer, runs>>

(* A builder of its own: new allocates an empty local cache. *)
NewBuilder(b, bound) ==
  /\ ~Borrowed(b)
  /\ LET cell == CHOOSE c \in Cells : \A other \in Builders \ {b} : builders[other].cell # c
     IN
       /\ builders' = [builders EXCEPT ![b] = [query |-> DefaultQuery, bound |-> bound, cell |-> cell]]
       /\ local' = [local EXCEPT ![cell] = None]
  /\ UNCHANGED <<cached, pc, run, readers, writer, answer, runs>>

-----------------------------------------------------------------------------
(* compile_cached, step by step                                            *)

Return(t, b, s, fault, result) ==
  /\ answer' = [answer EXCEPT ![t] = [query |-> builders[b].query, snapshot |-> s,
                                      fault |-> fault, result |-> result]]
  /\ run' = [run EXCEPT ![t] = None]
  /\ pc' = [pc EXCEPT ![t] = "idle"]

Goto(t, step) == pc' = [pc EXCEPT ![t] = step] /\ UNCHANGED <<run, answer>>

(* ensure_snapshot, then the local cache under its read lock. *)
StartRun(t, b, s) ==
  /\ pc[t] = "idle" /\ runs < MaxRuns
  /\ runs' = runs + 1
  /\ LET fault == IF builders[b].bound = None THEN "Ok" ELSE KeyFault(builders[b].bound, KeyOf[s])
         kept == local[builders[b].cell]
     IN IF fault # "Ok" THEN Return(t, b, s, fault, None)
        ELSE IF kept # None /\ kept.key = KeyOf[s] THEN Return(t, b, s, "Ok", kept.result)
        ELSE /\ run' = [run EXCEPT ![t] = [builder |-> b, snapshot |-> s]]
             /\ pc' = [pc EXCEPT ![t] = "lookup"]
             /\ UNCHANGED answer
  /\ UNCHANGED <<builders, local, cached, readers, writer>>

(* The snapshot's query cache is locked for reading.  A hit keeps the read
   lock while the entry is copied into the local cache; a miss releases it. *)
LookUp(t) ==
  LET s == run[t].snapshot
  IN /\ pc[t] = "lookup"
     /\ writer[s] = None
     /\ IF Hit(t) THEN readers' = [readers EXCEPT ![s] = @ \cup {t}] /\ Goto(t, "copy")
        ELSE Goto(t, "compile") /\ UNCHANGED readers
     /\ UNCHANGED <<builders, local, cached, writer, runs>>

(* store_local_cache: an entry for the same snapshot key is left alone. *)
StoreLocal(t, result) ==
  LET cell == BuilderOf(t).cell
      key == KeyOf[run[t].snapshot]
  IN local' = IF local[cell] # None /\ local[cell].key = key THEN local
              ELSE [local EXCEPT ![cell] = [key |-> key, result |-> result]]

CopyHit_KeepsLock(t) ==
  /\ pc[t] = "copy"
  /\ StoreLocal(t, Entry(t))
  /\ Return(t, run[t].builder, run[t].snapshot, "Ok", Entry(t))
  /\ UNCHANGED <<builders, cached, readers, writer, runs>>

CopyHit(t) ==
  LET s == run[t].snapshot
  IN /\ pc[t] = "copy"
     /\ StoreLocal(t, Entry(t))
     /\ readers' = [readers EXCEPT ![s] = @ \ {t}]
     /\ Return(t, run[t].builder, s, "Ok", Entry(t))
     /\ UNCHANGED <<builders, cached, writer, runs>>

(* compile_uncached, with no lock held. *)
Compile(t) ==
  /\ pc[t] = "compile"
  /\ IF BuilderOf(t).query \in BadQueries
     THEN Return(t, run[t].builder, run[t].snapshot, "InvalidQueryState", None)
     ELSE Goto(t, "lock")
  /\ UNCHANGED <<builders, local, cached, readers, writer, runs>>

LockForWriting(t) ==
  LET s == run[t].snapshot
  IN /\ pc[t] = "lock"
     /\ writer[s] = None /\ readers[s] = {}
     /\ writer' = [writer EXCEPT ![s] = t]
     /\ Goto(t, "publish")
     /\ UNCHANGED <<builders, local, cached, readers, runs>>

(* Under the write lock: an entry published meanwhile wins over our own. *)
Publish(t) ==
  LET s == run[t].snapshot
      result == IF Hit(t) THEN Entry(t) ELSE Eval(BuilderOf(t).query, s)
  IN /\ pc[t] = "publish"
     /\ cached' = [cached EXCEPT ![s] =
                     [e \in DOMAIN @ \cup {EntryKey(t)} |-> IF e = EntryKey(t) THEN result ELSE @[e]]]
     /\ StoreLocal(t, result)
     /\ writer' = [writer EXCEPT ![s] = None]
     /\ Return(t, run[t].builder, s, "Ok", result)
     /\ UNCHANGED <<builders, readers, runs>>

(* A compiled query kept from the last run is asked about some snapshot. *)
RunCompiled(t, s) ==
  /\ pc[t] = "idle" /\ runs < MaxRuns
  /\ answer[t] # None /\ answer[t].result # None
  /\ runs' = runs + 1
  /\ LET fault == KeyFault(answer[t].result.key, KeyOf[s])
     IN answer' = [answer EXCEPT ![t].snapshot = s, ![t].fault = fault,
                                 ![t].result = IF fault = "Ok" THEN @ ELSE None]
  /\ UNCHANGED <<builders, local, cached, pc, run, readers, writer>>

Init ==
  /\ LET cell == CHOOSE f \in [Builders -> Cells] : \A b, c \in Builders : f[b] = f[c] => b = c
     IN \E q \in Queries :
          builders = [b \in Builders |-> [query |-> q, bound |-> None, cell |-> cell[b]]]
  /\ local = [c \in Cells |-> None]
  /\ cached = [s \in Snapshots |-> [e \in {} |-> None]]
  /\ pc = [t \in Threads |-> "idle"]
  /\ run = [t \in Threads |-> None]
  /\ readers = [s \in Snapshots |-> {}]
  /\ writer = [s \in Snapshots |-> None]
  /\ answer = [t \in Threads |-> None]
  /\ runs = 0

Step(t) == LookUp(t) \/ CopyHit(t) \/ Compile(t) \/ LockForWriting(t) \/ Publish(t)

Next ==
  \/ \E b \in Builders : Modify(b)
  \/ \E b, c \in Builders : CloneBuilder(b, c)
  \/ \E b \in Builders, k \in Keys \cup {None} : NewBuilder(b, k)
  \/ \E t \in Threads, b \in Builders, s \in Snapshots : StartRun(t, b, s)
  \/ \E t \in Threads : Step(t)
  \/ \E t \in Threads, s \in Snapshots : RunCompiled(t, s)

(* A thread inside compile_cached keeps running; the code never waits there
   for anything but the two caches' locks.                                 *)
Spec == Init /\ [][Next]_vars /\ \A t \in Threads : WF_vars(Step(t))

-----------------------------------------------------------------------------
(* Properties                                                              *)

Runs == [builder : Builders, snapshot : Snapshots]
Faults == {"Ok", "SnapshotLineageMismatch", "StaleCompiledQuery", "InvalidQueryState"}
Answers == [query : Queries, snapshot : Snapshots, fault : Faults, result : Compiled \cup {None}]

Typed ==
  /\ builders \in [Builders -> [query : Queries, bound : Keys \cup {None}, cell : Cells]]
  /\ local \in [Cells -> [key : Keys, result : Compiled] \cup {None}]
  /\ DOMAIN cached = Snapshots
  /\ \A s \in Snapshots : cached[s] \in [DOMAIN cached[s] -> Compiled] /\ DOMAIN cached[s] \subseteq Lookup
  /\ pc \in [Threads -> {"idle", "lookup", "copy", "compile", "lock", "publish"}]
  /\ run \in [Threads -> Runs \cup {None}]
  /\ readers \in [Snapshots -> SUBSET Threads]
  /\ writer \in [Snapshots -> Threads \cup {None}]
  /\ answer \in [Threads -> Answers \cup {None}]
  /\ runs \in 0..MaxRuns

(* The locks of the query caches are held where the code is inside their
   guards, and only there; a writer is alone.                              *)
LocksSound ==
  /\ \A s \in Snapshots, t \in Threads :
       /\ t \in readers[s] <=> (pc[t] = "copy" /\ run[t].snapshot = s)
       /\ writer[s] = t <=> (pc[t] = "publish" /\ run[t].snapshot = s)
  /\ \A s \in Snapshots : writer[s] # None => readers[s] = {}

(* Every variable has its type, and the locks the threads hold are those of
   the guards they are inside of: none outlives its guard (compile_cached). *)
TypeOK == Typed /\ LocksSound

(* "Cache keys should be based on: normalized query fingerprint; registry
   lineage and snapshot version" (spec.md:469): a run that succeeds returns
   what its own builder's query evaluates to on its own snapshot, from
   whichever cache it was served, and so does a compiled query later on.   *)
AnswersFit ==
  \A t \in Threads : answer[t] # None /\ answer[t].fault = "Ok" =>
    answer[t].result = Eval(answer[t].query, answer[t].snapshot)

(* A snapshot's query cache only ever holds, under a builder's query and
   binding, the result of that query on that snapshot, although results are
   compiled outside the lock and several threads publish.                  *)
CacheSound ==
  \A s \in Snapshots : \A e \in DOMAIN cached[s] :
    cached[s][e] = Eval(e.query, s) /\ e.bound \in {None, KeyOf[s]}

(* What a builder's local cache remembers is the builder's own query, also
   when a thread still runs the builder's former clones or other builders. *)
LocalFits ==
  \A b \in Builders : LET kept == local[builders[b].cell]
                      IN kept # None => kept.result = [query |-> builders[b].query, key |-> kept.key]

(* Whatever a cache remembers, of either kind, is what it was asked. *)
CachesFit == CacheSound /\ LocalFits

(* Threads that wait for each other's locks on the query caches, across
   snapshots and builders, never wait for ever: every run returns.         *)
RunFinishes == \A t \in Threads : pc[t] # "idle" ~> pc[t] = "idle"
=============================================================================
