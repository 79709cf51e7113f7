------------------------------ MODULE Traversal ------------------------------
(***************************************************************************)
(* Breadth-first search over a snapshot: traversal queries, reachable and  *)
(* can_reach of src/src/snapshot.rs, one thread with the scratch space it  *)
(* reuses from call to call.  A step visits one kind.  The loops take the  *)
(* seeds and the neighbours of a kind in dense order.                      *)
(***************************************************************************)
EXTENDS Integers, Sequences, FiniteSets

CONSTANTS
  Kinds,
  Snapshots,    \* [kinds, edges]: the kinds in dense order, the edges as triples
  Calls,        \* what a thread may ask, see CallSet
  Programs,     \* sequences: what the thread asks of which snapshot, call by call
  Generations,  \* how many values a generation counter has, 2^32 in the code
  Unbounded,    \* usize::MAX
  None

Directions == {"Outgoing", "Incoming", "Both"}
DepthSpec == {[spec |-> "One"], [spec |-> "Transitive"]}
               \cup [spec : {"Exact", "To"}, hops : Nat]

(* A traversal query, with reachable(kind, relation, direction, depth) the
   query of one seed, one relation and To(depth); or can_reach, whose start
   is its only seed.  No relations at all means every relation.            *)
CallSet ==
  [op : {"traverse"}, seeds : SUBSET Kinds, relations : SUBSET Kinds, direction : Directions,
   depth : DepthSpec, include_start : BOOLEAN, dedup : BOOLEAN, stop_on_match : BOOLEAN,
   max_results : Nat \cup {None}]
  \cup [op : {"can_reach"}, seeds : {{k} : k \in Kinds}, relations : {{r} : r \in Kinds},
        direction : {"Outgoing"}, depth : [spec : {"To"}, hops : Nat], target : Kinds]

Elements(s) == {s[i] : i \in DOMAIN s}

ASSUME TraversalAssumption ==
  /\ Calls \subseteq CallSet /\ Kinds \subseteq Nat /\ IsFiniteSet(Kinds) /\ None \notin Nat
  /\ Generations \in Nat \ {0, 1} /\ Unbounded \in Nat /\ Unbounded > Cardinality(Kinds)
  /\ Programs \in Seq(Seq([snapshots : SUBSET Snapshots, calls : SUBSET Calls]))
  /\ \A s \in Snapshots :
       /\ s.kinds \in Seq(Kinds)
       /\ \A i, j \in DOMAIN s.kinds : s.kinds[i] = s.kinds[j] => i = j
       /\ s.edges \subseteq Elements(s.kinds) \X Elements(s.kinds) \X Elements(s.kinds)

VARIABLES
  seen, result_seen,         \* which kinds this call has discovered, and returned
  frontier, next_frontier,   \* the kinds of this level still to expand, and of the next
  pending,                   \* what the innermost loop has still to visit
  depth, results,
  pc,                        \* "idle", "mark", "start", "level" or "expand"
  snapshot, call, answer,
  program, calls             \* which program runs, and how many calls it has begun

asked == <<program, calls>>
scratch == <<seen, result_seen, frontier, next_frontier, pending>>
vars == <<scratch, depth, results, pc, snapshot, call, answer, asked>>

-----------------------------------------------------------------------------
(* The snapshot                                                            *)

Known(k) == k \in Elements(snapshot.kinds)
DenseIndex(k) == CHOOSE i \in DOMAIN snapshot.kinds : snapshot.kinds[i] = k
DenseKey(k) == IF Known(k) THEN DenseIndex(k) ELSE Len(snapshot.kinds) + 1 + k
Foremost(S) == CHOOSE k \in S : \A j \in S : DenseKey(k) <= DenseKey(j)

(* collect_neighbors_for_traversal_into, sorted and deduplicated. *)
Neighbours(k) ==
  LET followed == {e \in snapshot.edges : call.relations = {} \/ e[2] \in call.relations}
      out == {e[3] : e \in {e \in followed : e[1] = k}}
      in  == {e[1] : e \in {e \in followed : e[3] = k}}
  IN (IF call.direction = "Incoming" THEN {} ELSE out)
     \cup (IF call.direction = "Outgoing" THEN {} ELSE in)

MaxDepth == CASE call.depth.spec = "One" -> 1
              [] call.depth.spec = "Transitive" -> Unbounded
              [] OTHER -> call.depth.hops

ExactDepth == CASE call.depth.spec = "One" -> 1
                [] call.depth.spec = "Exact" -> call.depth.hops
                [] OTHER -> None

-----------------------------------------------------------------------------
(* Marks: a kind of the snapshot is marked when the generation of its slot
   is the current one, another kind when it is in a set.                   *)

NoMarks == [generation |-> 0, marks |-> <<>>, unknown |-> {}]
Fresh(m, k) == IF Known(k) THEN m.marks[DenseIndex(k)] # m.generation ELSE k \notin m.unknown
Mark(m, k) == IF Known(k) THEN [m EXCEPT !.marks[DenseIndex(k)] = m.generation]
              ELSE [m EXCEPT !.unknown = @ \cup {k}]

Advance_NoFill(m, size) ==
  [generation |-> IF m.generation + 1 = Generations THEN 1 ELSE m.generation + 1,
   marks |-> [i \in 1..(IF size > Len(m.marks) THEN size ELSE Len(m.marks)) |->
                IF i <= Len(m.marks) THEN m.marks[i] ELSE 0],
   unknown |-> {}]
Advance_KeepsUnknown(m, size) ==
  LET next == IF m.generation + 1 = Generations THEN 0 ELSE m.generation + 1
  IN [generation |-> IF next = 0 THEN 1 ELSE next,
      marks |-> [i \in 1..(IF size > Len(m.marks) THEN size ELSE Len(m.marks)) |->
                   IF next # 0 /\ i <= Len(m.marks) THEN m.marks[i] ELSE 0],
      unknown |-> m.unknown]

(* TraversalScratch::begin for one of the two: advance_generation, which
   erases the slots when the counter wraps, then resize.                   *)
Advance(m, size) ==
  LET next == IF m.generation + 1 = Generations THEN 0 ELSE m.generation + 1
  IN [generation |-> IF next = 0 THEN 1 ELSE next,
      marks |-> [i \in 1..(IF size > Len(m.marks) THEN size ELSE Len(m.marks)) |->
                   IF next # 0 /\ i <= Len(m.marks) THEN m.marks[i] ELSE 0],
      unknown |-> {}]

-----------------------------------------------------------------------------
Answer(fault, value) == answer' = [fault |-> fault, value |-> value] /\ pc' = "idle"

PushResult_NoDedup(k) == results' = Append(results, k) /\ UNCHANGED result_seen

(* push_traversal_result *)
PushResult(k) ==
  IF call.dedup /\ ~Fresh(result_seen, k) THEN UNCHANGED <<results, result_seen>>
  ELSE /\ results' = Append(results, k)
       /\ result_seen' = IF call.dedup THEN Mark(result_seen, k) ELSE result_seen

EnoughResults_OneMore(n) ==
  (call.stop_on_match /\ n > 0) \/ (call.max_results # None /\ n > call.max_results)

(* should_stop_after_result *)
EnoughResults(n) ==
  (call.stop_on_match /\ n > 0) \/ (call.max_results # None /\ n >= call.max_results)

DepthMatches == ExactDepth = None \/ depth = ExactDepth

MoreLevels_OneLong == frontier # <<>> /\ depth <= MaxDepth
MoreLevels == frontier # <<>> /\ depth < MaxDepth

-----------------------------------------------------------------------------
(* The thread is idle (Next says so, before it chooses a question).  A
   traversal query without seeds is refused before the scratch space is
   touched; can_reach answers some questions at once.                      *)
Start(s, c) ==
  /\ snapshot' = s /\ call' = c /\ calls' = calls + 1 /\ UNCHANGED program
  /\ depth' = 0 /\ results' = <<>>
  /\ CASE c.seeds = {} -> Answer("EmptySeedSet", <<>>) /\ UNCHANGED scratch
       [] c.op = "can_reach" /\ (c.target \in c.seeds \/ c.depth.hops = 0) ->
            Answer("Ok", c.target \in c.seeds) /\ UNCHANGED scratch
       [] OTHER ->
            /\ seen' = Advance(seen, Len(s.kinds))
            /\ result_seen' = Advance(result_seen, Len(s.kinds))
            /\ frontier' = <<>> /\ next_frontier' = <<>>
            /\ pending' = c.seeds
            /\ pc' = "mark" /\ UNCHANGED answer

Discover_Always(k, list) ==
  /\ list' = Append(list, k)
  /\ seen' = Mark(seen, k)
Discover(k, list) ==
  IF Fresh(seen, k) THEN list' = Append(list, k) /\ seen' = Mark(seen, k)
  ELSE UNCHANGED <<list, seen>>

MarkSeed ==
  /\ pc = "mark" /\ pending # {}
  /\ Discover(Foremost(pending), frontier)
  /\ pending' = pending \ {Foremost(pending)}
  /\ UNCHANGED <<result_seen, next_frontier, depth, results, pc, snapshot, call, answer, asked>>

SeedsMarked ==
  /\ pc = "mark" /\ pending = {}
  /\ IF call.op = "traverse" /\ call.include_start
     THEN pc' = "start" /\ pending' = call.seeds
     ELSE pc' = "level" /\ UNCHANGED pending
  /\ UNCHANGED <<seen, result_seen, frontier, next_frontier, depth, results,
                 snapshot, call, answer, asked>>

(* include_start: the seeds are the first results. *)
PushSeed ==
  /\ pc = "start"
  /\ LET seed == Foremost(pending)
     IN PushResult(seed) /\ pending' = pending \ {seed}
  /\ IF EnoughResults(Len(results')) THEN Answer("Ok", results')
     ELSE pc' = (IF pending' = {} THEN "level" ELSE "start") /\ UNCHANGED answer
  /\ UNCHANGED <<seen, frontier, next_frontier, depth, snapshot, call, asked>>

Finish ==
  IF call.op = "can_reach" THEN Answer("Ok", FALSE)
  ELSE Answer("Ok", IF MaxDepth # 0 /\ call.max_results # None /\ Len(results) > call.max_results
                    THEN SubSeq(results, 1, call.max_results) ELSE results)

BeginLevel ==
  /\ pc = "level"
  /\ IF MoreLevels
     THEN /\ depth' = depth + 1 /\ next_frontier' = <<>>
          /\ pc' = "expand" /\ UNCHANGED answer
     ELSE Finish /\ UNCHANGED <<depth, next_frontier>>
  /\ UNCHANGED <<seen, result_seen, frontier, pending, results, snapshot, call, asked>>

NextNode ==
  /\ pc = "expand" /\ pending = {} /\ frontier # <<>>
  /\ pending' = Neighbours(Head(frontier))
  /\ frontier' = Tail(frontier)
  /\ UNCHANGED <<seen, result_seen, next_frontier, depth, results, pc, snapshot, call, answer, asked>>

(* A neighbour may be a result although it was discovered before. *)
VisitTraverse ==
  /\ pc = "expand" /\ pending # {} /\ call.op = "traverse"
  /\ LET kind == Foremost(pending)
     IN /\ pending' = pending \ {kind}
        /\ Discover(kind, next_frontier)
        /\ IF DepthMatches
           THEN /\ PushResult(kind)
                /\ IF EnoughResults(Len(results')) THEN Answer("Ok", results')
                   ELSE UNCHANGED <<pc, answer>>
           ELSE UNCHANGED <<results, result_seen, pc, answer>>
  /\ UNCHANGED <<frontier, depth, snapshot, call, asked>>

VisitCanReach ==
  /\ pc = "expand" /\ pending # {} /\ call.op = "can_reach"
  /\ LET kind == Foremost(pending)
     IN IF kind = call.target
        THEN Answer("Ok", TRUE) /\ UNCHANGED <<seen, next_frontier, pending>>
        ELSE /\ pending' = pending \ {kind}
             /\ Discover(kind, next_frontier)
             /\ UNCHANGED <<pc, answer>>
  /\ UNCHANGED <<result_seen, frontier, depth, results, snapshot, call, asked>>

EndLevel ==
  /\ pc = "expand" /\ pending = {} /\ frontier = <<>>
  /\ IF next_frontier = <<>>
     THEN Finish /\ UNCHANGED <<frontier, next_frontier>>
     ELSE /\ frontier' = next_frontier /\ next_frontier' = frontier
          /\ pc' = "level" /\ UNCHANGED answer
  /\ UNCHANGED <<seen, result_seen, pending, depth, results, snapshot, call, asked>>

Init ==
  /\ seen = NoMarks /\ result_seen = NoMarks
  /\ frontier = <<>> /\ next_frontier = <<>> /\ pending = {}
  /\ depth = 0 /\ results = <<>> /\ pc = "idle"
  /\ snapshot = None /\ call = None
  /\ answer = [fault |-> "None", value |-> <<>>]
  /\ program \in DOMAIN Programs /\ calls = 0

AskNext ==
  /\ pc = "idle" /\ calls < Len(Programs[program])
  /\ LET ask == Programs[program][calls + 1]
     IN \E s \in ask.snapshots, c \in ask.calls : Start(s, c)

Next ==
  \/ AskNext
  \/ MarkSeed \/ SeedsMarked \/ PushSeed
  \/ BeginLevel \/ NextNode \/ VisitTraverse \/ VisitCanReach \/ EndLevel

Spec == Init /\ [][Next]_vars

-----------------------------------------------------------------------------
(* What the call should find, said of walks rather than of levels          *)

Linked(a, b) ==
  \E e \in snapshot.edges :
    /\ call.relations = {} \/ e[2] \in call.relations
    /\ \/ call.direction \in {"Outgoing", "Both"} /\ e[1] = a /\ e[3] = b
       \/ call.direction \in {"Incoming", "Both"} /\ e[1] = b /\ e[3] = a

(* The kinds some walk of exactly n edges leads to from a seed. *)
Walk(n) ==
  LET ends[i \in 0..n] == IF i = 0 THEN call.seeds
                           ELSE {b \in Kinds : \E a \in ends[i - 1] : Linked(a, b)}
  IN ends[n]
Within(n) == UNION {Walk(i) : i \in 0..n}
AtDistance(n) == Walk(n) \ UNION {Walk(i) : i \in 0..(n - 1)}

(* More edges than there are kinds lead nowhere new. *)
Horizon == IF MaxDepth < Cardinality(Kinds) THEN MaxDepth ELSE Cardinality(Kinds)
Found == UNION {Walk(i) : i \in 1..Horizon}

Answered(op) == pc = "idle" /\ calls > 0 /\ call.op = op /\ answer.fault = "Ok"
Unlimited == ~call.stop_on_match /\ call.max_results = None
AllResults == (IF call.include_start THEN call.seeds ELSE {}) \cup Found

(* The scratch space and the loops hold what their types say; a search ends
   after at most one level per kind and a last one that finds nothing, also
   over a cycle and with an unbounded depth.                               *)
TypeOK ==
  /\ \A m \in {seen, result_seen} :
       /\ m.generation \in 0..(Generations - 1) /\ m.unknown \subseteq Kinds
       /\ \A i \in DOMAIN m.marks : m.marks[i] \in 0..(Generations - 1)
  /\ frontier \in Seq(Kinds) /\ next_frontier \in Seq(Kinds) /\ pending \subseteq Kinds
  /\ depth \in 0..(Cardinality(Kinds) + 1) /\ results \in Seq(Kinds)
  /\ pc \in {"idle", "mark", "start", "level", "expand"}
  /\ snapshot \in Snapshots \cup {None} /\ call \in Calls \cup {None}
  /\ program \in DOMAIN Programs /\ calls \in 0..Len(Programs[program])

(* Between two levels the marks are exactly the kinds some walk of at most
   depth edges reaches, and the frontier holds those that no shorter walk
   reaches, each once: no mark of an earlier call, of another snapshot or
   of an earlier lap of the generation counter shows through, and none of
   this call is lost.                                                      *)
LevelsAreExact ==
  pc = "level" =>
    /\ {k \in Kinds : ~Fresh(seen, k)} = Within(depth)
    /\ Elements(frontier) = AtDistance(depth)
    /\ Len(frontier) = Cardinality(AtDistance(depth))

(* Without limits, a query to a depth or transitive returns exactly the
   kinds a walk of at most that many edges reaches: a seed is among them
   when include_start says so or a cycle leads back to it.  depth_exact(n)
   returns every kind at distance n and only kinds a walk of n edges
   reaches; it is neither of the two, as levels past the first visit do not
   expand a kind again.                                                    *)
ReachesWithinDepth ==
  Answered("traverse") /\ Unlimited =>
    LET n == ExactDepth
        found == Elements(answer.value)
    IN /\ n = None => found = AllResults
       /\ n # None /\ ~call.include_start =>
            IF n = 0 THEN found = {} ELSE AtDistance(n) \subseteq found /\ found \subseteq Walk(n)

(* Results come in the order of discovery: nearer kinds before farther
   ones, whatever limit cut the answer; with dedup each comes once.        *)
DiscoveryOrder ==
  Answered("traverse") /\ call.dedup /\ call.depth.spec \in {"To", "Transitive"} =>
    /\ Cardinality(Elements(answer.value)) = Len(answer.value)
    /\ \A n \in 0..Horizon :
         LET ball == UNION {Walk(i) : i \in (IF call.include_start THEN 0 ELSE 1)..n}
         IN \A i \in 1..(Len(answer.value) - 1) :
              answer.value[i + 1] \in ball => answer.value[i] \in ball

(* A limit only cuts an answer short: as many results as the limit allows
   and the graph has, and at least one where there is one.                 *)
LimitsCutShort ==
  Answered("traverse") /\ call.dedup /\ call.depth.spec \in {"To", "Transitive"} /\ ~Unlimited =>
    LET limit == IF call.stop_on_match \/ call.max_results = 0 THEN 1 ELSE call.max_results
        found == Cardinality(AllResults)
    IN /\ Elements(answer.value) \subseteq AllResults
       /\ Len(answer.value) = IF found < limit THEN found ELSE limit

(* "can_reach is the boolean form of reachable" (spec.md:301), although it
   stops in the middle of a row: between two kinds it is true when a full
   search of the same depth returns the target, and only then.  Of a kind
   and itself nothing is said: can_reach is true there at once, reachable
   only over a cycle.                                                      *)
CanReachAgrees ==
  Answered("can_reach") /\ call.target \notin call.seeds =>
    (answer.value <=> call.target \in Found)
=============================================================================
