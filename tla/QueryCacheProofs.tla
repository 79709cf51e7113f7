--------------------------- MODULE QueryCacheProofs ---------------------------
(***************************************************************************)
(* What QueryCache promises, for any number of threads, builders, queries  *)
(* and snapshots.  The query cache of a snapshot is sound whatever a       *)
(* program does with its builders; the local caches, and with them the     *)
(* answers, are sound for a program that does not both clone builders and  *)
(* modify builders whose cache a clone shares.                             *)
(***************************************************************************)
EXTENDS QueryCache, FiniteSetTheorems, TLAPS

(* A thread inside compile_cached runs a builder that fits the snapshot, and
   nobody else changes that builder; before "copy" it has found its entry. *)
RunsSound ==
  \A t \in Threads : pc[t] # "idle" =>
    /\ run[t] \in Runs
    /\ BuilderOf(t).bound \in {None, KeyOf[run[t].snapshot]}
    /\ pc[t] = "copy" => Hit(t)

(* Holds whatever a program does. *)
CompileInv == Typed /\ RunsSound /\ LocksSound /\ CacheSound

(* The program modifies no builder whose local cache a clone shares. *)
NoSharedModification == "clone" \notin BuilderOps \/ "modify" \notin BuilderOps

(* Builders that share a local cache describe the same query, and there are
   none as long as nobody clones.                                          *)
SharersAgree ==
  /\ \A b, c \in Builders : builders[b].cell = builders[c].cell => builders[b].query = builders[c].query
  /\ "clone" \notin BuilderOps =>
       \A b, c \in Builders : builders[b].cell = builders[c].cell => b = c

(* A run that fails keeps no result to be asked again. *)
FailuresEmpty ==
  \A t \in Threads : answer[t] # None /\ answer[t].fault # "Ok" => answer[t].result = None

(* Holds as long as shared builders are not modified. *)
BuilderInv == SharersAgree /\ LocalFits /\ AnswersFit /\ FailuresEmpty

-----------------------------------------------------------------------------
(* Allocations                                                             *)

(* There are enough allocations for every builder to have its own. *)
LEMMA CellForEach ==
  \E f \in [Builders -> Cells] : \A b, c \in Builders : f[b] = f[c] => b = c
<1>1. /\ IsFiniteSet(Builders) /\ IsFiniteSet(Cells)
      /\ Cardinality(Cells) >= Cardinality(Builders)
  BY QueryAssumption
<1> DEFINE m == Cardinality(Builders)
           n == Cardinality(Cells)
<1>2. m \in Nat /\ n \in Nat /\ ExistsBijection(1..m, Builders) /\ ExistsBijection(1..n, Cells)
  BY <1>1, FS_CardinalityType
<1>3. PICK at \in Bijection(1..m, Builders) : TRUE
  BY <1>2 DEF ExistsBijection
<1>4. PICK cell \in Bijection(1..n, Cells) : TRUE
  BY <1>2 DEF ExistsBijection
<1>5. /\ at \in [1..m -> Builders] /\ \A b \in Builders : \E i \in 1..m : at[i] = b
      /\ cell \in [1..n -> Cells] /\ \A i, j \in 1..n : cell[i] = cell[j] => i = j
  BY <1>3, <1>4 DEF Bijection, Injection, Surjection, IsInjective
<1>6. 1..m \subseteq 1..n
  BY <1>1, <1>2
<1> HIDE DEF m, n
<1> DEFINE place(b) == CHOOSE i \in 1..m : at[i] = b
           f == [b \in Builders |-> cell[place(b)]]
<1>7. \A b \in Builders : place(b) \in 1..m /\ at[place(b)] = b
  BY <1>5
<1>8. f \in [Builders -> Cells]
  BY <1>5, <1>6, <1>7
<1>9. \A b, c \in Builders : f[b] = f[c] => b = c
  BY <1>5, <1>6, <1>7
<1> QED BY <1>8, <1>9

(* An allocation that no other builder uses is always to be had. *)
LEMMA FreeCell ==
  ASSUME Typed, NEW b \in Builders
  PROVE  \E c \in Cells : \A other \in Builders \ {b} : builders[other].cell # c
<1>1. /\ IsFiniteSet(Builders) /\ IsFiniteSet(Cells)
      /\ Cardinality(Cells) >= Cardinality(Builders)
  BY QueryAssumption
<1>2. /\ IsFiniteSet(Builders \ {b})
      /\ Cardinality(Builders \ {b}) = Cardinality(Builders) - 1
      /\ Cardinality(Builders) \in Nat /\ Cardinality(Cells) \in Nat
      /\ Cardinality(Builders \ {b}) \in Nat
  BY <1>1, FS_RemoveElement, FS_CardinalityType
<1>3. SUFFICES ASSUME \A c \in Cells : \E other \in Builders \ {b} : builders[other].cell = c
               PROVE  FALSE
  OBVIOUS
<1> DEFINE user(c) == CHOOSE other \in Builders \ {b} : builders[other].cell = c
           g == [c \in Cells |-> user(c)]
<1>4. \A c \in Cells : user(c) \in Builders \ {b} /\ builders[user(c)].cell = c
  BY <1>3
<1>5. g \in [Cells -> Builders \ {b}]
  BY <1>4
<1>6. \A c, d \in Cells : g[c] = g[d] => c = d
  BY <1>4
<1>7. g \in Injection(Cells, Builders \ {b})
  BY <1>5, <1>6 DEF Injection, IsInjective
<1>8. Cardinality(Cells) <= Cardinality(Builders \ {b})
  BY <1>2, <1>7, FS_Injection
<1> QED BY <1>1, <1>2, <1>8

-----------------------------------------------------------------------------
(* What holds whatever a program does                                      *)

(* A new builder has an allocation to itself. *)
LEMMA NewBuilderShape ==
  ASSUME Typed, NEW b \in Builders, NEW k \in Keys \cup {None}, NewBuilder(b, k)
  PROVE  \E cell \in Cells :
           /\ \A other \in Builders \ {b} : builders[other].cell # cell
           /\ builders' = [builders EXCEPT ![b] = [query |-> DefaultQuery, bound |-> k, cell |-> cell]]
           /\ local' = [local EXCEPT ![cell] = None]
BY FreeCell DEF NewBuilder

(* Steps that handle builders leave the runs in progress alone. *)
LEMMA BuilderStepShape ==
  ASSUME Typed,
         \/ \E b \in Builders : Modify(b)
         \/ \E b, c \in Builders : CloneBuilder(b, c)
         \/ \E b \in Builders, k \in Keys \cup {None} : NewBuilder(b, k)
  PROVE  /\ UNCHANGED <<cached, pc, run, readers, writer, answer, runs>>
         /\ builders' \in [Builders -> [query : Queries, bound : Keys \cup {None}, cell : Cells]]
         /\ local' \in [Cells -> [key : Keys, result : Compiled] \cup {None}]
         /\ \A d \in Builders : Borrowed(d) => builders'[d] = builders[d]
<1>0. /\ builders \in [Builders -> [query : Queries, bound : Keys \cup {None}, cell : Cells]]
      /\ local \in [Cells -> [key : Keys, result : Compiled] \cup {None}]
      /\ DefaultQuery \in Queries
  BY QueryAssumption DEF Typed
<1>1. ASSUME NEW b \in Builders, Modify(b)
      PROVE  /\ UNCHANGED <<cached, pc, run, readers, writer, answer, runs>>
             /\ builders' \in [Builders -> [query : Queries, bound : Keys \cup {None}, cell : Cells]]
             /\ local' \in [Cells -> [key : Keys, result : Compiled] \cup {None}]
             /\ \A d \in Builders : Borrowed(d) => builders'[d] = builders[d]
  BY <1>0, <1>1 DEF Modify, MayModify
<1>2. ASSUME NEW b \in Builders, NEW c \in Builders, CloneBuilder(b, c)
      PROVE  /\ UNCHANGED <<cached, pc, run, readers, writer, answer, runs>>
             /\ builders' \in [Builders -> [query : Queries, bound : Keys \cup {None}, cell : Cells]]
             /\ local' \in [Cells -> [key : Keys, result : Compiled] \cup {None}]
             /\ \A d \in Builders : Borrowed(d) => builders'[d] = builders[d]
  BY <1>0, <1>2 DEF CloneBuilder
<1>3. ASSUME NEW b \in Builders, NEW k \in Keys \cup {None}, NewBuilder(b, k)
      PROVE  /\ UNCHANGED <<cached, pc, run, readers, writer, answer, runs>>
             /\ builders' \in [Builders -> [query : Queries, bound : Keys \cup {None}, cell : Cells]]
             /\ local' \in [Cells -> [key : Keys, result : Compiled] \cup {None}]
             /\ \A d \in Builders : Borrowed(d) => builders'[d] = builders[d]
  <2>1. PICK cell \in Cells :
          /\ builders' = [builders EXCEPT ![b] = [query |-> DefaultQuery, bound |-> k, cell |-> cell]]
          /\ local' = [local EXCEPT ![cell] = None]
    BY <1>3, NewBuilderShape
  <2>2. UNCHANGED <<cached, pc, run, readers, writer, answer, runs>> /\ ~Borrowed(b)
    BY <1>3 DEF NewBuilder
  <2>3. [query |-> DefaultQuery, bound |-> k, cell |-> cell]
          \in [query : Queries, bound : Keys \cup {None}, cell : Cells]
    BY <1>0
  <2> QED BY <1>0, <2>1, <2>2, <2>3
<1> QED BY <1>1, <1>2, <1>3

(* Keys are keys, faults are faults, results are results. *)
LEMMA AtomsTyped ==
  /\ \A s \in Snapshots : KeyOf[s] \in Keys
  /\ \A q \in Queries, s \in Snapshots : Eval(q, s) \in Compiled
  /\ \A x, y : KeyFault(x, y) \in Faults
BY DEF Keys, Eval, Compiled, KeyFault, Faults

(* A thread inside compile_cached: what it looks up is typed. *)
LEMMA RunTyped ==
  ASSUME Typed, RunsSound, NEW t \in Threads, pc[t] # "idle"
  PROVE  /\ run[t].builder \in Builders /\ run[t].snapshot \in Snapshots
         /\ BuilderOf(t) = builders[run[t].builder]
         /\ BuilderOf(t).query \in Queries /\ BuilderOf(t).cell \in Cells
         /\ EntryKey(t) \in Lookup
         /\ Hit(t) => Entry(t) \in Compiled
<1>1. run[t] \in Runs
  BY DEF RunsSound
<1>2. run[t].builder \in Builders /\ run[t].snapshot \in Snapshots
  BY <1>1 DEF Runs
<1>3. BuilderOf(t) \in [query : Queries, bound : Keys \cup {None}, cell : Cells]
  BY <1>2 DEF Typed, BuilderOf
<1>4. EntryKey(t) \in Lookup
  BY <1>3 DEF EntryKey, Lookup
<1>5. Hit(t) => Entry(t) \in Compiled
  BY <1>2 DEF Typed, Hit, Entry
<1> QED BY <1>2, <1>3, <1>4, <1>5 DEF BuilderOf

(* Returning from a run. *)
LEMMA ReturnTyped ==
  ASSUME Typed, NEW t \in Threads, NEW b \in Builders, NEW s \in Snapshots,
         NEW fault \in Faults, NEW result \in Compiled \cup {None},
         Return(t, b, s, fault, result)
  PROVE  /\ answer' \in [Threads -> Answers \cup {None}]
         /\ run' \in [Threads -> Runs \cup {None}]
         /\ pc' \in [Threads -> {"idle", "lookup", "copy", "compile", "lock", "publish"}]
<1>1. builders[b].query \in Queries
  BY DEF Typed
<1>2. [query |-> builders[b].query, snapshot |-> s, fault |-> fault, result |-> result] \in Answers
  BY <1>1 DEF Answers
<1> QED BY <1>2 DEF Typed, Return

(* What a run copies into its builder's local cache is typed. *)
LEMMA StoreTyped ==
  ASSUME Typed, RunsSound, NEW t \in Threads, pc[t] # "idle", NEW result \in Compiled, StoreLocal(t, result)
  PROVE  local' \in [Cells -> [key : Keys, result : Compiled] \cup {None}]
<1>1. BuilderOf(t).cell \in Cells /\ KeyOf[run[t].snapshot] \in Keys
  BY RunTyped, AtomsTyped
<1>2. [key |-> KeyOf[run[t].snapshot], result |-> result] \in [key : Keys, result : Compiled]
  BY <1>1
<1> QED BY <1>1, <1>2 DEF StoreLocal, Typed

(* What publishing stores: the entry that is there already, or the thread's
   own result, under the key of the thread's builder.                      *)
LEMMA PublishShape ==
  ASSUME Typed, RunsSound, NEW t \in Threads, Publish(t)
  PROVE  \E result \in Compiled :
           LET s == run[t].snapshot
           IN /\ IF Hit(t) THEN result = Entry(t) ELSE result = Eval(BuilderOf(t).query, s)
              /\ DOMAIN cached' = Snapshots
              /\ \A x \in Snapshots : x # s => cached'[x] = cached[x]
              /\ DOMAIN cached'[s] = DOMAIN cached[s] \cup {EntryKey(t)}
              /\ \A e \in DOMAIN cached'[s] :
                   cached'[s][e] = IF e = EntryKey(t) THEN result ELSE cached[s][e]
              /\ cached'[s] \in [DOMAIN cached'[s] -> Compiled]
              /\ StoreLocal(t, result)
              /\ Return(t, run[t].builder, s, "Ok", result)
<1> DEFINE s == run[t].snapshot
           result == IF Hit(t) THEN Entry(t) ELSE Eval(BuilderOf(t).query, s)
           entries == [e \in DOMAIN cached[s] \cup {EntryKey(t)} |->
                         IF e = EntryKey(t) THEN result ELSE cached[s][e]]
<1>1. /\ pc[t] # "idle" /\ cached' = [cached EXCEPT ![s] = entries]
      /\ StoreLocal(t, result) /\ Return(t, run[t].builder, s, "Ok", result)
  BY DEF Publish
<1>2. s \in Snapshots /\ BuilderOf(t).query \in Queries /\ (Hit(t) => Entry(t) \in Compiled)
  BY <1>1, RunTyped
<1>3. result \in Compiled
  BY <1>2, AtomsTyped
<1>4. DOMAIN cached = Snapshots /\ cached[s] \in [DOMAIN cached[s] -> Compiled]
  BY <1>2 DEF Typed
<1>5. entries \in [DOMAIN entries -> Compiled]
  BY <1>3, <1>4
<1>6. /\ DOMAIN cached' = Snapshots /\ cached'[s] = entries
      /\ \A x \in Snapshots : x # s => cached'[x] = cached[x]
  BY <1>1, <1>2, <1>4
<1> QED BY <1>1, <1>3, <1>5, <1>6

(* Every variable keeps its type. *)
LEMMA TypeStep ==
  ASSUME Typed, RunsSound, [Next]_vars
  PROVE  Typed'
<1>0. runs < MaxRuns => runs + 1 \in 0..MaxRuns
  <2>1. runs \in 0..MaxRuns /\ MaxRuns \in Nat
    BY QueryAssumption DEF Typed
  <2> QED BY <2>1
<1>1. CASE \/ \E b \in Builders : Modify(b)
           \/ \E b, c \in Builders : CloneBuilder(b, c)
           \/ \E b \in Builders, k \in Keys \cup {None} : NewBuilder(b, k)
  BY <1>1, BuilderStepShape DEF Typed
<1>2. ASSUME NEW t \in Threads, NEW b \in Builders, NEW s \in Snapshots, StartRun(t, b, s)
      PROVE  Typed'
  <2> DEFINE fault == IF builders[b].bound = None THEN "Ok" ELSE KeyFault(builders[b].bound, KeyOf[s])
             kept == local[builders[b].cell]
  <2>1. UNCHANGED <<builders, local, cached, readers, writer>> /\ runs < MaxRuns /\ runs' = runs + 1
    BY <1>2 DEF StartRun
  <2>2. runs' \in 0..MaxRuns
    BY <1>0, <2>1
  <2>3. fault \in Faults
    BY AtomsTyped DEF Faults
  <2>4. kept # None => kept.result \in Compiled
    BY DEF Typed
  <2>5. /\ answer' \in [Threads -> Answers \cup {None}]
        /\ run' \in [Threads -> Runs \cup {None}]
        /\ pc' \in [Threads -> {"idle", "lookup", "copy", "compile", "lock", "publish"}]
    <3>1. CASE fault # "Ok" /\ Return(t, b, s, fault, None)
      BY <2>3, <3>1, ReturnTyped
    <3>2. CASE kept # None /\ Return(t, b, s, "Ok", kept.result)
      BY <2>4, <3>2, ReturnTyped DEF Faults
    <3>3. CASE /\ run' = [run EXCEPT ![t] = [builder |-> b, snapshot |-> s]]
               /\ pc' = [pc EXCEPT ![t] = "lookup"]
               /\ UNCHANGED answer
      BY <3>3 DEF Typed, Runs
    <3> QED BY <1>2, <3>1, <3>2, <3>3 DEF StartRun
  <2> QED BY <2>1, <2>2, <2>5 DEF Typed
<1>3. ASSUME NEW t \in Threads, LookUp(t) PROVE Typed'
  <2>1. run[t].snapshot \in Snapshots
    BY <1>3, RunTyped DEF LookUp
  <2>2. readers' \in [Snapshots -> SUBSET Threads]
    <3>1. readers \in [Snapshots -> SUBSET Threads]
      BY DEF Typed
    <3>2. UNCHANGED readers \/ readers' = [readers EXCEPT ![run[t].snapshot] = @ \cup {t}]
      BY <1>3 DEF LookUp
    <3> QED BY <2>1, <3>1, <3>2
  <2> QED BY <1>3, <2>2 DEF LookUp, Goto, Typed
<1>4. ASSUME NEW t \in Threads, CopyHit(t) PROVE Typed'
  <2>1. pc[t] # "idle" /\ Hit(t)
    BY <1>4 DEF CopyHit, RunsSound
  <2>2. run[t].builder \in Builders /\ run[t].snapshot \in Snapshots /\ Entry(t) \in Compiled
    BY <2>1, RunTyped
  <2>3. local' \in [Cells -> [key : Keys, result : Compiled] \cup {None}]
    BY <1>4, <2>1, <2>2, StoreTyped DEF CopyHit
  <2>4. /\ answer' \in [Threads -> Answers \cup {None}]
        /\ run' \in [Threads -> Runs \cup {None}]
        /\ pc' \in [Threads -> {"idle", "lookup", "copy", "compile", "lock", "publish"}]
    BY <1>4, <2>2, ReturnTyped DEF CopyHit, Faults
  <2>5. readers' \in [Snapshots -> SUBSET Threads]
    BY <1>4, <2>2 DEF CopyHit, Typed
  <2> QED BY <1>4, <2>3, <2>4, <2>5 DEF CopyHit, Typed
<1>5. ASSUME NEW t \in Threads, Compile(t) PROVE Typed'
  <2>1. run[t].builder \in Builders /\ run[t].snapshot \in Snapshots
    BY <1>5, RunTyped DEF Compile
  <2>2. /\ answer' \in [Threads -> Answers \cup {None}]
        /\ run' \in [Threads -> Runs \cup {None}]
        /\ pc' \in [Threads -> {"idle", "lookup", "copy", "compile", "lock", "publish"}]
    <3>1. CASE Return(t, run[t].builder, run[t].snapshot, "InvalidQueryState", None)
      BY <2>1, <3>1, ReturnTyped DEF Faults
    <3>2. CASE Goto(t, "lock")
      BY <3>2 DEF Goto, Typed
    <3> QED BY <1>5, <3>1, <3>2 DEF Compile
  <2> QED BY <1>5, <2>2 DEF Compile, Typed
<1>6. ASSUME NEW t \in Threads, LockForWriting(t) PROVE Typed'
  <2>1. run[t].snapshot \in Snapshots
    BY <1>6, RunTyped DEF LockForWriting
  <2> QED BY <1>6, <2>1 DEF LockForWriting, Goto, Typed
<1>7. ASSUME NEW t \in Threads, Publish(t) PROVE Typed'
  <2> DEFINE s == run[t].snapshot
  <2>1. pc[t] # "idle" /\ UNCHANGED <<builders, readers, runs>> /\ writer' = [writer EXCEPT ![s] = None]
    BY <1>7 DEF Publish
  <2>2. run[t].builder \in Builders /\ s \in Snapshots /\ EntryKey(t) \in Lookup
    BY <2>1, RunTyped
  <2>3. PICK result \in Compiled :
          /\ DOMAIN cached' = Snapshots
          /\ \A x \in Snapshots : x # s => cached'[x] = cached[x]
          /\ DOMAIN cached'[s] = DOMAIN cached[s] \cup {EntryKey(t)}
          /\ cached'[s] \in [DOMAIN cached'[s] -> Compiled]
          /\ StoreLocal(t, result)
          /\ Return(t, run[t].builder, s, "Ok", result)
    BY <1>7, PublishShape
  <2>4. local' \in [Cells -> [key : Keys, result : Compiled] \cup {None}]
    BY <2>1, <2>3, StoreTyped
  <2>5. /\ answer' \in [Threads -> Answers \cup {None}]
        /\ run' \in [Threads -> Runs \cup {None}]
        /\ pc' \in [Threads -> {"idle", "lookup", "copy", "compile", "lock", "publish"}]
    BY <2>2, <2>3, ReturnTyped DEF Faults
  <2>6. /\ DOMAIN cached' = Snapshots
        /\ \A x \in Snapshots : cached'[x] \in [DOMAIN cached'[x] -> Compiled] /\ DOMAIN cached'[x] \subseteq Lookup
    BY <2>2, <2>3 DEF Typed
  <2>7. writer' \in [Snapshots -> Threads \cup {None}]
    BY <2>1, <2>2 DEF Typed
  <2> QED BY <2>1, <2>4, <2>5, <2>6, <2>7 DEF Typed
<1>8. ASSUME NEW t \in Threads, NEW s \in Snapshots, RunCompiled(t, s) PROVE Typed'
  <2> DEFINE fault == KeyFault(answer[t].result.key, KeyOf[s])
             new == [answer[t] EXCEPT !.snapshot = s, !.fault = fault,
                                      !.result = IF fault = "Ok" THEN @ ELSE None]
  <2>1. answer[t] \in Answers
    BY <1>8 DEF RunCompiled, Typed
  <2>2. fault \in Faults
    BY AtomsTyped
  <2>3. new \in Answers
    BY <2>1, <2>2 DEF Answers
  <2>4. answer' = [answer EXCEPT ![t] = new]
    BY <1>8, <2>1 DEF RunCompiled, Typed, Answers
  <2>5. answer' \in [Threads -> Answers \cup {None}]
    BY <2>3, <2>4 DEF Typed
  <2>6. runs' \in 0..MaxRuns
    BY <1>0, <1>8 DEF RunCompiled
  <2> QED BY <1>8, <2>5, <2>6 DEF RunCompiled, Typed
<1>9. CASE UNCHANGED vars
  BY <1>9 DEF vars, Typed
<1> QED BY <1>1, <1>2, <1>3, <1>4, <1>5, <1>6, <1>7, <1>8, <1>9 DEF Next, Step

(* A binding that ensure_snapshot lets pass is the snapshot's own key. *)
LEMMA KeysMatch ==
  ASSUME NEW k \in Keys, NEW s \in Snapshots, KeyFault(k, KeyOf[s]) = "Ok"
  PROVE  k = KeyOf[s]
<1>1. PICK x \in Snapshots : k = KeyOf[x]
  BY DEF Keys
<1>2. k \in [lineage : Nat, version : Nat] /\ KeyOf[s] \in [lineage : Nat, version : Nat]
  BY <1>1, QueryAssumption
<1>3. k.lineage = KeyOf[s].lineage /\ k.version = KeyOf[s].version
  BY DEF KeyFault
<1> QED BY <1>2, <1>3

(* A thread's step moves no other thread, touches no builder and takes no
   entry out of a query cache.                                             *)
ThreadStep(t) ==
  \/ \E b \in Builders, s \in Snapshots : StartRun(t, b, s)
  \/ Step(t)
  \/ \E s \in Snapshots : RunCompiled(t, s)

LEMMA ThreadStepShape ==
  ASSUME Typed, RunsSound, NEW t \in Threads, ThreadStep(t)
  PROVE  /\ UNCHANGED builders
         /\ \A u \in Threads : u # t => pc'[u] = pc[u] /\ run'[u] = run[u]
         /\ \A s \in Snapshots : DOMAIN cached[s] \subseteq DOMAIN cached'[s]
<1>0. pc \in [Threads -> {"idle", "lookup", "copy", "compile", "lock", "publish"}]
      /\ run \in [Threads -> Runs \cup {None}]
  BY DEF Typed
<1>1. ASSUME NEW b \in Builders, NEW s \in Snapshots, StartRun(t, b, s)
      PROVE  /\ UNCHANGED <<builders, cached>>
             /\ \A u \in Threads : u # t => pc'[u] = pc[u] /\ run'[u] = run[u]
  BY <1>0, <1>1 DEF StartRun, Return
<1>2. CASE LookUp(t) \/ CopyHit(t) \/ Compile(t) \/ LockForWriting(t)
  <2>1. /\ UNCHANGED <<builders, cached>>
        /\ \A u \in Threads : u # t => pc'[u] = pc[u] /\ run'[u] = run[u]
    BY <1>0, <1>2 DEF LookUp, CopyHit, Compile, LockForWriting, Goto, Return
  <2> QED BY <2>1
<1>3. CASE Publish(t)
  <2>1. UNCHANGED builders /\ Return(t, run[t].builder, run[t].snapshot, "Ok", IF Hit(t) THEN Entry(t) ELSE Eval(BuilderOf(t).query, run[t].snapshot))
    BY <1>3 DEF Publish
  <2>2. \A u \in Threads : u # t => pc'[u] = pc[u] /\ run'[u] = run[u]
    BY <1>0, <2>1 DEF Return
  <2>3. \A s \in Snapshots : DOMAIN cached[s] \subseteq DOMAIN cached'[s]
    <3>1. /\ \A x \in Snapshots : x # run[t].snapshot => cached'[x] = cached[x]
          /\ DOMAIN cached'[run[t].snapshot] = DOMAIN cached[run[t].snapshot] \cup {EntryKey(t)}
      BY <1>3, PublishShape
    <3> QED BY <3>1
  <2> QED BY <2>1, <2>2, <2>3
<1>4. CASE \E s \in Snapshots : RunCompiled(t, s)
  BY <1>4 DEF RunCompiled
<1> QED BY <1>1, <1>2, <1>3, <1>4 DEF ThreadStep, Step

(* Every step is one of a program with its builders or one of a thread. *)
LEMMA StepsAre ==
  ASSUME [Next]_vars
  PROVE  \/ \/ \E b \in Builders : Modify(b)
            \/ \E b, c \in Builders : CloneBuilder(b, c)
            \/ \E b \in Builders, k \in Keys \cup {None} : NewBuilder(b, k)
         \/ \E t \in Threads : ThreadStep(t)
         \/ UNCHANGED vars
BY DEF Next, ThreadStep

(* Runs in progress keep the builder they were started on. *)
LEMMA RunsStep ==
  ASSUME Typed, RunsSound, [Next]_vars
  PROVE  RunsSound'
<1>1. SUFFICES ASSUME NEW u \in Threads, pc'[u] # "idle"
               PROVE  /\ run'[u] \in Runs
                      /\ BuilderOf(u)'.bound \in {None, KeyOf[run'[u].snapshot]}
                      /\ pc'[u] = "copy" => Hit(u)'
  BY DEF RunsSound
<1>2. ASSUME pc'[u] = pc[u], run'[u] = run[u], builders'[run[u].builder] = builders[run[u].builder],
             \A s \in Snapshots : DOMAIN cached[s] \subseteq DOMAIN cached'[s]
      PROVE  /\ run'[u] \in Runs
             /\ BuilderOf(u)'.bound \in {None, KeyOf[run'[u].snapshot]}
             /\ pc'[u] = "copy" => Hit(u)'
  <2>1. /\ run[u] \in Runs /\ BuilderOf(u).bound \in {None, KeyOf[run[u].snapshot]}
        /\ pc[u] = "copy" => Hit(u)
    BY <1>1, <1>2 DEF RunsSound
  <2>2. run[u].snapshot \in Snapshots
    BY <2>1 DEF Runs
  <2>3. BuilderOf(u)' = BuilderOf(u) /\ EntryKey(u)' = EntryKey(u)
    BY <1>2 DEF BuilderOf, EntryKey
  <2> QED BY <1>2, <2>1, <2>2, <2>3 DEF Hit
<1>3. CASE \/ \E b \in Builders : Modify(b)
           \/ \E b, c \in Builders : CloneBuilder(b, c)
           \/ \E b \in Builders, k \in Keys \cup {None} : NewBuilder(b, k)
  <2>1. /\ UNCHANGED <<cached, pc, run>>
        /\ \A d \in Builders : Borrowed(d) => builders'[d] = builders[d]
    BY <1>3, BuilderStepShape
  <2>2. run[u].builder \in Builders /\ Borrowed(run[u].builder)
    BY <1>1, <2>1, RunTyped DEF Borrowed
  <2> QED BY <1>2, <2>1, <2>2
<1>4. ASSUME NEW t \in Threads, ThreadStep(t), u # t
      PROVE  /\ run'[u] \in Runs
             /\ BuilderOf(u)'.bound \in {None, KeyOf[run'[u].snapshot]}
             /\ pc'[u] = "copy" => Hit(u)'
  BY <1>2, <1>4, ThreadStepShape
<1>5. ASSUME ThreadStep(u)
      PROVE  /\ run'[u] \in Runs
             /\ BuilderOf(u)'.bound \in {None, KeyOf[run'[u].snapshot]}
             /\ pc'[u] = "copy" => Hit(u)'
  <2>0. pc \in [Threads -> {"idle", "lookup", "copy", "compile", "lock", "publish"}]
        /\ run \in [Threads -> Runs \cup {None}]
    BY DEF Typed
  <2>1. ASSUME NEW b \in Builders, NEW s \in Snapshots, StartRun(u, b, s)
        PROVE  /\ run'[u] \in Runs
               /\ BuilderOf(u)'.bound \in {None, KeyOf[run'[u].snapshot]}
               /\ pc'[u] # "copy"
    <3>1. builders' = builders /\ builders[b].bound \in Keys \cup {None}
      BY <2>1 DEF StartRun, Typed
    <3>2. builders[b].bound # None => KeyFault(builders[b].bound, KeyOf[s]) = "Ok"
      BY <1>1, <2>0, <2>1 DEF StartRun, Return
    <3>3. run' = [run EXCEPT ![u] = [builder |-> b, snapshot |-> s]] /\ pc' = [pc EXCEPT ![u] = "lookup"]
      BY <1>1, <2>0, <2>1 DEF StartRun, Return
    <3>4. builders[b].bound \in {None, KeyOf[s]}
      BY <3>1, <3>2, KeysMatch
    <3>5. run'[u] = [builder |-> b, snapshot |-> s] /\ pc'[u] = "lookup"
      BY <2>0, <3>3
    <3> QED BY <3>1, <3>4, <3>5 DEF BuilderOf, Runs
  <2>2. CASE LookUp(u)
    <3>1. UNCHANGED <<builders, cached, run>> /\ pc[u] # "idle" /\ (pc'[u] = "copy" => Hit(u))
      BY <2>0, <2>2 DEF LookUp, Goto
    <3> QED BY <3>1 DEF RunsSound, BuilderOf, Hit, EntryKey
  <2>3. CASE Compile(u) \/ LockForWriting(u)
    <3>1. UNCHANGED <<builders, cached, run>> /\ pc[u] # "idle" /\ pc'[u] # "copy"
      BY <1>1, <2>0, <2>3 DEF Compile, LockForWriting, Goto, Return
    <3> QED BY <3>1 DEF RunsSound, BuilderOf
  <2>4. CASE CopyHit(u) \/ Publish(u)
    BY <1>1, <2>0, <2>4 DEF CopyHit, Publish, Return
  <2>5. CASE \E s \in Snapshots : RunCompiled(u, s)
    BY <1>1, <2>5 DEF RunCompiled
  <2> QED BY <1>5, <2>1, <2>2, <2>3, <2>4, <2>5 DEF ThreadStep, Step
<1>6. CASE UNCHANGED vars
  BY <1>2, <1>6 DEF vars
<1> QED BY <1>3, <1>4, <1>5, <1>6, StepsAre

(* The locks are taken and released where the code enters and leaves their
   guards, and a writer waits until every reader has left.                 *)
LEMMA LocksStep ==
  ASSUME Typed, RunsSound, LocksSound, [Next]_vars
  PROVE  LocksSound'
<1>0. /\ pc \in [Threads -> {"idle", "lookup", "copy", "compile", "lock", "publish"}]
      /\ run \in [Threads -> Runs \cup {None}]
      /\ readers \in [Snapshots -> SUBSET Threads]
      /\ writer \in [Snapshots -> Threads \cup {None}]
      /\ None \notin Threads
  BY QueryAssumption DEF Typed
<1>1. CASE UNCHANGED <<pc, run, readers, writer>>
  BY <1>1 DEF LocksSound
<1>2. CASE \/ \E b \in Builders : Modify(b)
           \/ \E b, c \in Builders : CloneBuilder(b, c)
           \/ \E b \in Builders, k \in Keys \cup {None} : NewBuilder(b, k)
  BY <1>1, <1>2, BuilderStepShape
<1>3. ASSUME NEW t \in Threads, pc[t] \notin {"copy", "publish"}, pc'[t] \notin {"copy", "publish"},
             \A u \in Threads : u # t => pc'[u] = pc[u] /\ run'[u] = run[u],
             UNCHANGED <<readers, writer>>
      PROVE  LocksSound'
  BY <1>3 DEF LocksSound
<1>4. ASSUME NEW t \in Threads, ThreadStep(t) PROVE LocksSound'
  <2>0. \A u \in Threads : u # t => pc'[u] = pc[u] /\ run'[u] = run[u]
    BY <1>4, ThreadStepShape
  <2>1. ASSUME NEW b \in Builders, NEW s \in Snapshots, StartRun(t, b, s) PROVE LocksSound'
    <3>1. pc[t] = "idle" /\ pc'[t] \in {"idle", "lookup"} /\ UNCHANGED <<readers, writer>>
      BY <1>0, <2>1 DEF StartRun, Return
    <3> QED BY <1>3, <2>0, <3>1
  <2>2. CASE LookUp(t)
    <3> DEFINE s == run[t].snapshot
    <3>1. s \in Snapshots /\ writer[s] = None /\ pc[t] = "lookup" /\ UNCHANGED <<run, writer>>
      BY <2>2, RunTyped DEF LookUp, Goto
    <3>2. CASE readers' = [readers EXCEPT ![s] = @ \cup {t}] /\ pc' = [pc EXCEPT ![t] = "copy"]
      <4>1. pc'[t] = "copy" /\ readers'[s] = readers[s] \cup {t}
            /\ \A x \in Snapshots : x # s => readers'[x] = readers[x]
        BY <1>0, <3>1, <3>2
      <4> QED BY <1>0, <2>0, <3>1, <4>1 DEF LocksSound
    <3>3. CASE pc' = [pc EXCEPT ![t] = "compile"] /\ UNCHANGED readers
      BY <1>0, <1>3, <2>0, <3>1, <3>3
    <3> QED BY <2>2, <3>2, <3>3 DEF LookUp, Goto
  <2>3. CASE CopyHit(t)
    <3> DEFINE s == run[t].snapshot
    <3>1. s \in Snapshots /\ pc[t] = "copy" /\ UNCHANGED writer
          /\ readers' = [readers EXCEPT ![s] = @ \ {t}] /\ pc' = [pc EXCEPT ![t] = "idle"]
      BY <2>3, RunTyped DEF CopyHit, Return
    <3>2. pc'[t] = "idle" /\ readers'[s] = readers[s] \ {t}
          /\ \A x \in Snapshots : x # s => readers'[x] = readers[x]
      BY <1>0, <3>1
    <3> QED BY <1>0, <2>0, <3>1, <3>2 DEF LocksSound
  <2>4. CASE Compile(t)
    <3>1. pc[t] = "compile" /\ pc'[t] \in {"idle", "lock"} /\ UNCHANGED <<readers, writer>>
      BY <1>0, <2>4 DEF Compile, Goto, Return
    <3> QED BY <1>3, <2>0, <3>1
  <2>5. CASE LockForWriting(t)
    <3> DEFINE s == run[t].snapshot
    <3>1. s \in Snapshots /\ pc[t] = "lock" /\ writer[s] = None /\ readers[s] = {}
          /\ UNCHANGED <<readers, run>>
          /\ writer' = [writer EXCEPT ![s] = t] /\ pc' = [pc EXCEPT ![t] = "publish"]
      BY <2>5, RunTyped DEF LockForWriting, Goto
    <3>2. pc'[t] = "publish" /\ writer'[s] = t /\ \A x \in Snapshots : x # s => writer'[x] = writer[x]
      BY <1>0, <3>1
    <3> QED BY <1>0, <2>0, <3>1, <3>2 DEF LocksSound
  <2>6. CASE Publish(t)
    <3> DEFINE s == run[t].snapshot
    <3>1. s \in Snapshots /\ pc[t] = "publish" /\ UNCHANGED readers
          /\ writer' = [writer EXCEPT ![s] = None] /\ pc' = [pc EXCEPT ![t] = "idle"]
      BY <2>6, RunTyped DEF Publish, Return
    <3>2. pc'[t] = "idle" /\ writer'[s] = None /\ \A x \in Snapshots : x # s => writer'[x] = writer[x]
      BY <1>0, <3>1
    <3> QED BY <1>0, <2>0, <3>1, <3>2 DEF LocksSound
  <2>7. CASE \E s \in Snapshots : RunCompiled(t, s)
    BY <1>1, <2>7 DEF RunCompiled
  <2> QED BY <1>4, <2>1, <2>2, <2>3, <2>4, <2>5, <2>6, <2>7 DEF ThreadStep, Step
<1>5. CASE UNCHANGED vars
  BY <1>1, <1>5 DEF vars
<1> QED BY <1>2, <1>4, <1>5, StepsAre

(* What a run finds or makes is its builder's query on its snapshot. *)
LEMMA ResultFits ==
  ASSUME Typed, RunsSound, CacheSound, NEW t \in Threads, pc[t] # "idle"
  PROVE  Hit(t) => Entry(t) = Eval(BuilderOf(t).query, run[t].snapshot)
<1>1. run[t].snapshot \in Snapshots /\ EntryKey(t).query = BuilderOf(t).query
  BY RunTyped DEF EntryKey
<1> QED BY <1>1 DEF CacheSound, Hit, Entry

(* Publishing stores nothing else. *)
LEMMA CacheStep ==
  ASSUME Typed, RunsSound, CacheSound, [Next]_vars
  PROVE  CacheSound'
<1>1. CASE UNCHANGED cached
  BY <1>1 DEF CacheSound
<1>2. ASSUME NEW t \in Threads, Publish(t) PROVE CacheSound'
  <2> DEFINE s == run[t].snapshot
  <2>1. PICK result \in Compiled :
          /\ IF Hit(t) THEN result = Entry(t) ELSE result = Eval(BuilderOf(t).query, s)
          /\ \A x \in Snapshots : x # s => cached'[x] = cached[x]
          /\ DOMAIN cached'[s] = DOMAIN cached[s] \cup {EntryKey(t)}
          /\ \A e \in DOMAIN cached'[s] :
               cached'[s][e] = IF e = EntryKey(t) THEN result ELSE cached[s][e]
    BY <1>2, PublishShape
  <2>2. result = Eval(BuilderOf(t).query, s)
    BY <1>2, <2>1, ResultFits DEF Publish
  <2>3. EntryKey(t).query = BuilderOf(t).query /\ EntryKey(t).bound \in {None, KeyOf[s]}
    BY <1>2 DEF EntryKey, RunsSound, Publish
  <2> QED BY <2>1, <2>2, <2>3 DEF CacheSound
<1>3. CASE \/ \E b \in Builders : Modify(b)
           \/ \E b, c \in Builders : CloneBuilder(b, c)
           \/ \E b \in Builders, k \in Keys \cup {None} : NewBuilder(b, k)
  BY <1>1, <1>3, BuilderStepShape
<1>4. ASSUME NEW t \in Threads, ThreadStep(t) PROVE CacheSound'
  BY <1>1, <1>2, <1>4 DEF ThreadStep, Step, StartRun, LookUp, CopyHit, Compile, LockForWriting, RunCompiled
<1>5. CASE UNCHANGED vars
  BY <1>1, <1>5 DEF vars
<1> QED BY <1>3, <1>4, <1>5, StepsAre

(* Every builder starts with an allocation of its own and nothing cached. *)
LEMMA StartsApart ==
  ASSUME Init
  PROVE  /\ builders \in [Builders -> [query : Queries, bound : Keys \cup {None}, cell : Cells]]
         /\ \A b, c \in Builders : builders[b].query = builders[c].query
         /\ \A b, c \in Builders : builders[b].cell = builders[c].cell => b = c
<1> DEFINE cell == CHOOSE f \in [Builders -> Cells] : \A b, c \in Builders : f[b] = f[c] => b = c
<1>1. cell \in [Builders -> Cells] /\ \A b, c \in Builders : cell[b] = cell[c] => b = c
  BY CellForEach
<1>2. PICK q \in Queries : builders = [b \in Builders |-> [query |-> q, bound |-> None, cell |-> cell[b]]]
  BY DEF Init
<1> HIDE DEF cell
<1> QED BY <1>1, <1>2

LEMMA CompileInvInit ==
  ASSUME Init
  PROVE  CompileInv
<1>1. Typed
  <2>1. 0 \in 0..MaxRuns
    <3>1. MaxRuns \in Nat
      BY QueryAssumption
    <3> QED BY <3>1
  <2>2. /\ DOMAIN cached = Snapshots
        /\ \A s \in Snapshots : cached[s] \in [DOMAIN cached[s] -> Compiled] /\ DOMAIN cached[s] \subseteq Lookup
    BY DEF Init
  <2>3. builders \in [Builders -> [query : Queries, bound : Keys \cup {None}, cell : Cells]]
    BY StartsApart
  <2> QED BY <2>1, <2>2, <2>3 DEF Init, Typed
<1>2. RunsSound
  BY DEF Init, RunsSound
<1>3. LocksSound
  BY QueryAssumption DEF Init, LocksSound
<1>4. CacheSound
  BY DEF Init, CacheSound
<1> QED BY <1>1, <1>2, <1>3, <1>4 DEF CompileInv

LEMMA CompileInvStep ==
  ASSUME CompileInv, [Next]_vars
  PROVE  CompileInv'
BY TypeStep, RunsStep, LocksStep, CacheStep DEF CompileInv

(* The inductive invariant of compile_cached, whatever a program does. *)
THEOREM CompileInvariance == Spec => []CompileInv
<1>1. Init => CompileInv
  BY CompileInvInit
<1>2. CompileInv /\ [Next]_vars => CompileInv'
  BY CompileInvStep
<1> QED BY <1>1, <1>2, PTL DEF Spec

(* Every variable of the query caches has its type, in particular a thread
   always returns a compiled query or one of the four documented faults; and
   a lock is held by the threads inside its guard, by no other, and by a
   writer alone.                                                           *)
THEOREM QueryTypeCorrect == Spec => []TypeOK
<1>1. CompileInv => TypeOK
  BY DEF CompileInv, TypeOK
<1> QED BY <1>1, CompileInvariance, PTL

(* A snapshot's query cache never serves a builder something else than its
   query on that snapshot, however many threads compile and publish at once
   (compile_cached, src/src/query.rs), and however builders are cloned and
   modified meanwhile.                                                     *)
THEOREM SnapshotCachesSound == Spec => []CacheSound
<1>1. CompileInv => CacheSound
  BY DEF CompileInv
<1> QED BY <1>1, CompileInvariance, PTL

-----------------------------------------------------------------------------
(* What holds as long as shared builders are not modified                  *)

(* A builder that is modified has its local cache to itself. *)
LEMMA ModifiedAlone ==
  ASSUME NoSharedModification, SharersAgree, NEW b \in Builders, MayModify(b)
  PROVE  \A c \in Builders : builders[c].cell = builders[b].cell => c = b
BY DEF NoSharedModification, SharersAgree, MayModify, Shared

(* Handling builders keeps sharers in agreement and their caches fitting. *)
LEMMA SharersStep ==
  ASSUME NoSharedModification, Typed, SharersAgree, LocalFits,
         \/ \E b \in Builders : Modify(b)
         \/ \E b, c \in Builders : CloneBuilder(b, c)
         \/ \E b \in Builders, k \in Keys \cup {None} : NewBuilder(b, k)
  PROVE  SharersAgree' /\ LocalFits'
<1>0. /\ builders \in [Builders -> [query : Queries, bound : Keys \cup {None}, cell : Cells]]
      /\ local \in [Cells -> [key : Keys, result : Compiled] \cup {None}]
  BY DEF Typed
<1>1. ASSUME NEW b \in Builders, Modify(b) PROVE SharersAgree' /\ LocalFits'
  <2>1. \A c \in Builders : builders[c].cell = builders[b].cell => c = b
    BY <1>1, ModifiedAlone DEF Modify
  <2>2. PICK q \in Queries : builders' = [builders EXCEPT ![b].query = q]
    BY <1>1 DEF Modify
  <2>3. /\ \A c \in Builders : builders'[c].cell = builders[c].cell
        /\ \A c \in Builders : c # b => builders'[c] = builders[c]
    BY <1>0, <2>2
  <2>4. local'[builders[b].cell] = None /\ \A x \in Cells : x # builders[b].cell => local'[x] = local[x]
    BY <1>0, <1>1 DEF Modify
  <2>5. SharersAgree'
    BY <2>1, <2>3 DEF SharersAgree
  <2>6. ASSUME NEW c \in Builders
        PROVE  local'[builders'[c].cell] # None =>
                 local'[builders'[c].cell].result =
                   [query |-> builders'[c].query, key |-> local'[builders'[c].cell].key]
    <3>1. c # b => local'[builders'[c].cell] = local[builders[c].cell] /\ builders'[c] = builders[c]
      BY <1>0, <2>1, <2>3, <2>4
    <3> QED BY <2>3, <2>4, <3>1 DEF LocalFits
  <2> QED BY <2>5, <2>6 DEF LocalFits
<1>2. ASSUME NEW b \in Builders, NEW c \in Builders, CloneBuilder(b, c) PROVE SharersAgree' /\ LocalFits'
  <2>1. /\ "clone" \in BuilderOps /\ b # c
        /\ builders'[c] = builders[b] /\ \A d \in Builders : d # c => builders'[d] = builders[d]
    BY <1>0, <1>2 DEF CloneBuilder
  <2>2. \A d \in Builders : d # c => local'[builders[d].cell] = local[builders[d].cell]
    BY <1>0, <1>2 DEF CloneBuilder
  <2>3. SharersAgree'
    BY <2>1 DEF SharersAgree
  <2>4. ASSUME NEW d \in Builders
        PROVE  local'[builders'[d].cell] # None =>
                 local'[builders'[d].cell].result =
                   [query |-> builders'[d].query, key |-> local'[builders'[d].cell].key]
    <3>1. PICK e \in Builders : e # c /\ builders'[d] = builders[e]
      BY <2>1
    <3>2. local'[builders'[d].cell] = local[builders[e].cell]
      BY <2>2, <3>1
    <3> QED BY <3>1, <3>2 DEF LocalFits
  <2> QED BY <2>3, <2>4 DEF LocalFits
<1>3. ASSUME NEW b \in Builders, NEW k \in Keys \cup {None}, NewBuilder(b, k)
      PROVE  SharersAgree' /\ LocalFits'
  <2>1. PICK cell \in Cells :
          /\ \A other \in Builders \ {b} : builders[other].cell # cell
          /\ builders' = [builders EXCEPT ![b] = [query |-> DefaultQuery, bound |-> k, cell |-> cell]]
          /\ local' = [local EXCEPT ![cell] = None]
    BY <1>3, NewBuilderShape
  <2>2. builders'[b].cell = cell /\ \A d \in Builders : d # b => builders'[d] = builders[d]
    BY <1>0, <2>1
  <2>3. local'[cell] = None /\ \A d \in Builders : d # b => local'[builders[d].cell] = local[builders[d].cell]
    BY <1>0, <2>1
  <2>4. SharersAgree'
    BY <2>1, <2>2 DEF SharersAgree
  <2>5. LocalFits'
    BY <2>2, <2>3 DEF LocalFits
  <2> QED BY <2>4, <2>5
<1> QED BY <1>1, <1>2, <1>3

(* A thread that stores its own result in a local cache stores what every
   builder sharing that cache describes.                                   *)
LEMMA StoreFits ==
  ASSUME Typed, RunsSound, SharersAgree, LocalFits, NEW t \in Threads, pc[t] # "idle", UNCHANGED builders,
         StoreLocal(t, Eval(BuilderOf(t).query, run[t].snapshot))
  PROVE  LocalFits'
<1> DEFINE cell == BuilderOf(t).cell
           key == KeyOf[run[t].snapshot]
           result == Eval(BuilderOf(t).query, run[t].snapshot)
<1>1. run[t].builder \in Builders /\ BuilderOf(t) = builders[run[t].builder] /\ cell \in Cells
  BY RunTyped
<1>2. result = [query |-> BuilderOf(t).query, key |-> key]
  BY DEF Eval
<1>3. CASE local' = local
  BY <1>3 DEF LocalFits
<1>4. CASE local' = [local EXCEPT ![cell] = [key |-> key, result |-> result]]
  <2>1. /\ local'[cell] = [key |-> key, result |-> result]
        /\ \A x \in Cells : x # cell => local'[x] = local[x]
    BY <1>1, <1>4 DEF Typed
  <2>2. ASSUME NEW d \in Builders, builders[d].cell = cell
        PROVE  local'[builders[d].cell].result = [query |-> builders[d].query, key |-> local'[builders[d].cell].key]
    <3>1. builders[d].query = BuilderOf(t).query
      BY <1>1, <2>2 DEF SharersAgree
    <3> QED BY <1>2, <2>1, <2>2, <3>1
  <2>3. \A d \in Builders : builders[d].cell \in Cells
    BY DEF Typed
  <2> QED BY <2>1, <2>2, <2>3 DEF LocalFits
<1> QED BY <1>3, <1>4 DEF StoreLocal

(* A run that ends with its builder's result on its snapshot, or with a
   fault and nothing.                                                      *)
LEMMA ReturnFits ==
  ASSUME Typed, AnswersFit, FailuresEmpty, NEW t \in Threads, NEW b \in Builders, NEW s \in Snapshots,
         NEW fault, NEW result, Return(t, b, s, fault, result),
         IF fault = "Ok" THEN result = Eval(builders[b].query, s) ELSE result = None
  PROVE  AnswersFit' /\ FailuresEmpty'
<1>1. answer'[t] = [query |-> builders[b].query, snapshot |-> s, fault |-> fault, result |-> result]
      /\ \A u \in Threads : u # t => answer'[u] = answer[u]
  BY DEF Return, Typed
<1>2. AnswersFit'
  BY <1>1 DEF AnswersFit
<1>3. FailuresEmpty'
  BY <1>1 DEF FailuresEmpty
<1> QED BY <1>2, <1>3

LEMMA BuilderInvInit ==
  ASSUME Init
  PROVE  BuilderInv
<1>1. SharersAgree
  BY StartsApart DEF SharersAgree
<1>2. LocalFits
  BY StartsApart DEF Init, LocalFits
<1>3. AnswersFit /\ FailuresEmpty
  BY DEF Init, AnswersFit, FailuresEmpty
<1> QED BY <1>1, <1>2, <1>3 DEF BuilderInv

(* Every step keeps what the builders, their caches and the answers say of
   each other.                                                             *)
LEMMA BuilderInvStep ==
  ASSUME NoSharedModification, CompileInv, BuilderInv, [Next]_vars
  PROVE  BuilderInv'
<1>0. Typed /\ RunsSound /\ CacheSound /\ SharersAgree /\ LocalFits /\ AnswersFit /\ FailuresEmpty
  BY DEF CompileInv, BuilderInv
<1>1. CASE \/ \E b \in Builders : Modify(b)
           \/ \E b, c \in Builders : CloneBuilder(b, c)
           \/ \E b \in Builders, k \in Keys \cup {None} : NewBuilder(b, k)
  <2>1. SharersAgree' /\ LocalFits'
    BY <1>0, <1>1, SharersStep
  <2>2. UNCHANGED answer
    BY <1>0, <1>1, BuilderStepShape
  <2> QED BY <1>0, <2>1, <2>2 DEF BuilderInv, AnswersFit, FailuresEmpty
<1>2. ASSUME NEW t \in Threads, ThreadStep(t) PROVE BuilderInv'
  <2>1. UNCHANGED builders
    BY <1>0, <1>2, ThreadStepShape
  <2>2. SharersAgree'
    BY <1>0, <2>1 DEF SharersAgree
  <2>3. UNCHANGED local => LocalFits'
    BY <1>0, <2>1 DEF LocalFits
  <2>4. UNCHANGED answer => AnswersFit' /\ FailuresEmpty'
    BY <1>0 DEF AnswersFit, FailuresEmpty
  <2>5. ASSUME NEW b \in Builders, NEW s \in Snapshots, StartRun(t, b, s)
        PROVE  LocalFits' /\ AnswersFit' /\ FailuresEmpty'
    <3> DEFINE fault == IF builders[b].bound = None THEN "Ok" ELSE KeyFault(builders[b].bound, KeyOf[s])
               kept == local[builders[b].cell]
    <3>1. LocalFits'
      BY <2>3, <2>5 DEF StartRun
    <3>2. CASE fault # "Ok" /\ Return(t, b, s, fault, None)
      BY <1>0, <3>1, <3>2, ReturnFits
    <3>3. CASE kept # None /\ kept.key = KeyOf[s] /\ Return(t, b, s, "Ok", kept.result)
      <4>1. kept.result = [query |-> builders[b].query, key |-> kept.key]
        BY <1>0, <3>3 DEF LocalFits
      <4>2. kept.result = Eval(builders[b].query, s)
        BY <3>3, <4>1 DEF Eval
      <4> QED BY <1>0, <3>1, <3>3, <4>2, ReturnFits
    <3>4. CASE UNCHANGED answer
      BY <2>4, <3>1, <3>4
    <3> QED BY <2>5, <3>2, <3>3, <3>4 DEF StartRun
  <2>6. CASE LookUp(t) \/ LockForWriting(t)
    BY <2>2, <2>3, <2>4, <2>6 DEF LookUp, LockForWriting, Goto, BuilderInv
  <2>7. CASE CopyHit(t)
    <3> DEFINE b == run[t].builder
               s == run[t].snapshot
    <3>1. pc[t] # "idle" /\ Hit(t) /\ StoreLocal(t, Entry(t)) /\ Return(t, b, s, "Ok", Entry(t))
      BY <1>0, <2>7 DEF CopyHit, RunsSound
    <3>2. b \in Builders /\ s \in Snapshots /\ Entry(t) = Eval(builders[b].query, s)
          /\ BuilderOf(t) = builders[b]
      BY <1>0, <3>1, ResultFits, RunTyped
    <3>3. LocalFits'
      BY <1>0, <2>1, <3>1, <3>2, StoreFits
    <3>4. AnswersFit' /\ FailuresEmpty'
      BY <1>0, <3>1, <3>2, ReturnFits
    <3> QED BY <2>2, <3>3, <3>4 DEF BuilderInv
  <2>8. CASE Compile(t)
    <3>1. run[t].builder \in Builders /\ run[t].snapshot \in Snapshots
      BY <1>0, <2>8, RunTyped DEF Compile
    <3>2. SharersAgree' /\ LocalFits'
      BY <2>2, <2>3, <2>8 DEF Compile
    <3>3. CASE Return(t, run[t].builder, run[t].snapshot, "InvalidQueryState", None)
      <4>1. AnswersFit' /\ FailuresEmpty'
        BY <1>0, <3>1, <3>3, ReturnFits
      <4> QED BY <3>2, <4>1 DEF BuilderInv
    <3>4. CASE UNCHANGED answer
      BY <2>4, <3>2, <3>4 DEF BuilderInv
    <3> QED BY <2>8, <3>3, <3>4 DEF Compile, Goto
  <2>9. CASE Publish(t)
    <3> DEFINE b == run[t].builder
               s == run[t].snapshot
               result == Eval(BuilderOf(t).query, s)
    <3>1. pc[t] # "idle"
      BY <2>9 DEF Publish
    <3>2. b \in Builders /\ s \in Snapshots /\ BuilderOf(t) = builders[b]
      BY <1>0, <3>1, RunTyped
    <3>3. StoreLocal(t, result) /\ Return(t, b, s, "Ok", result)
      BY <1>0, <2>9, <3>1, ResultFits, PublishShape
    <3>4. LocalFits'
      BY <1>0, <2>1, <3>1, <3>3, StoreFits
    <3>5. AnswersFit' /\ FailuresEmpty'
      BY <1>0, <3>2, <3>3, ReturnFits
    <3> QED BY <2>2, <3>4, <3>5 DEF BuilderInv
  <2>10. ASSUME NEW s \in Snapshots, RunCompiled(t, s)
         PROVE  LocalFits' /\ AnswersFit' /\ FailuresEmpty'
    <3> DEFINE kept == answer[t].result
               fault == KeyFault(kept.key, KeyOf[s])
    <3>1. answer[t] \in Answers /\ kept # None /\ answer[t] # None
      BY <1>0, <2>10 DEF RunCompiled, Typed
    <3>2. answer[t].fault = "Ok" /\ kept = Eval(answer[t].query, answer[t].snapshot)
      BY <1>0, <3>1 DEF FailuresEmpty, AnswersFit
    <3>3. kept.key \in Keys /\ kept = [query |-> answer[t].query, key |-> kept.key]
      BY <3>1, <3>2, AtomsTyped DEF Answers, Eval
    <3>4. fault = "Ok" => kept = Eval(answer[t].query, s)
      BY <3>3, KeysMatch DEF Eval
    <3>5. /\ answer'[t].query = answer[t].query /\ answer'[t].snapshot = s /\ answer'[t].fault = fault
          /\ answer'[t].result = IF fault = "Ok" THEN kept ELSE None
          /\ \A u \in Threads : u # t => answer'[u] = answer[u]
      BY <1>0, <2>10, <3>1 DEF RunCompiled, Typed, Answers
    <3>6. AnswersFit' /\ FailuresEmpty'
      BY <1>0, <3>4, <3>5 DEF AnswersFit, FailuresEmpty
    <3> QED BY <2>3, <2>10, <3>6 DEF RunCompiled
  <2> QED BY <1>2, <2>2, <2>5, <2>6, <2>7, <2>8, <2>9, <2>10 DEF ThreadStep, Step, BuilderInv
<1>3. CASE UNCHANGED vars
  BY <1>0, <1>3 DEF vars, BuilderInv, SharersAgree, LocalFits, AnswersFit, FailuresEmpty
<1> QED BY <1>1, <1>2, <1>3, StepsAre

(* The two invariants together, for a program that modifies no builder whose
   local cache a clone shares.                                             *)
THEOREM BuilderInvariance ==
  ASSUME NoSharedModification
  PROVE  Spec => [](CompileInv /\ BuilderInv)
<1>1. Init => CompileInv /\ BuilderInv
  BY CompileInvInit, BuilderInvInit
<1>2. CompileInv /\ BuilderInv /\ [Next]_vars => CompileInv' /\ BuilderInv'
  BY CompileInvStep, BuilderInvStep
<1> QED BY <1>1, <1>2, PTL DEF Spec

(* A run that succeeds returns its own builder's query on its own snapshot,
   whichever cache served it, and so does a compiled query that is asked
   again about the same snapshot ("Cache keys should be based on: normalized
   query fingerprint; registry lineage and snapshot version", spec.md:469). *)
THEOREM AnswersAlwaysFit ==
  ASSUME NoSharedModification
  PROVE  Spec => []AnswersFit
<1>1. CompileInv /\ BuilderInv => AnswersFit
  BY DEF BuilderInv
<1> QED BY <1>1, BuilderInvariance, PTL

(* Both kinds of cache remember only what they were asked. *)
THEOREM CachesAlwaysFit ==
  ASSUME NoSharedModification
  PROVE  Spec => []CachesFit
<1>1. CompileInv /\ BuilderInv => CachesFit
  BY DEF CompileInv, BuilderInv, CachesFit
<1> QED BY <1>1, BuilderInvariance, PTL
=============================================================================
