----------------------------- MODULE EdgeQueries -----------------------------
(***************************************************************************)
(* What an edge query means: src/src/query.rs from the fluent calls on an  *)
(* EdgeQueryBuilder to the edges it matches, with queries nested as the    *)
(* sources of others.  A program builds one query, may put it aside as it  *)
(* is or compiled, and feeds it to the next.  The builders put aside are   *)
(* kept in that order, and a source that owns one names its place: nothing *)
(* changes a builder once a source owns it.  Caches are QueryCache's       *)
(* business and what a traversal finds is Traversal's: here an evaluation  *)
(* is one step and a traversal source is an atom with its answer.          *)
(***************************************************************************)
EXTENDS Naturals, Sequences, FiniteSets, SequencesExt

CONSTANTS
  Kinds,
  Snapshots,         \* a sequence of [key, kinds, edges], in the order a program takes them
  KindSets,          \* the collections a program passes
  Products,          \* the lanes it passes to cartesian, as triples of sets
  TraversalSources,  \* [tag, key, fault, kinds]: a traversal and what it answers
  None,
  AnyKind,               \* no filter
  MaxCalls           \* bound on the calls on builders

Keys == [lineage : Nat, version : Nat]

ASSUME EdgeQueryAssumption ==
  /\ Kinds \subseteq Nat /\ IsFiniteSet(Kinds) /\ (\A S \in SUBSET Kinds : S # AnyKind)
  /\ Len(Snapshots) > 0
  /\ Snapshots \in Seq([key : Keys, kinds : Seq(Kinds), edges : SUBSET (Kinds \X Kinds \X Kinds)])
  /\ KindSets \subseteq SUBSET Kinds
  /\ Products \subseteq (SUBSET Kinds) \X (SUBSET Kinds) \X (SUBSET Kinds)
  /\ TraversalSources \subseteq
       [tag : {"Traversal"}, key : {None} \cup Keys, fault : STRING, kinds : SUBSET Kinds]
  /\ MaxCalls \in Nat

VARIABLES
  builder,   \* the query being built
  lanes,     \* what the calls asked of each lane: AnyKind or the kinds it lists
  queries,   \* the builders put aside, in that order
  kept,      \* the source put aside, or None
  at,        \* which snapshot the program is using
  answer,    \* what the last run returned, or None
  calls

vars == <<builder, lanes, queries, kept, at, answer, calls>>

snapshot == Snapshots[at]
Lanes == {"subjects", "relations", "targets"}
Sides == {"subjects", "targets"}
Directions == {"Outgoing", "Incoming", "Both"}
Selections == {"Edges", "Subjects", "Targets"}

New(bound) ==
  [bound |-> bound, lists |-> [l \in Lanes |-> {}], empty_lanes |-> {}, direction |-> "Outgoing",
   selection |-> "Edges", sources |-> [side \in Sides |-> <<>>]]

-----------------------------------------------------------------------------
(* The fluent calls.  A lane without kinds filters nothing, unless
   cartesian left it empty: the mask tells the two apart.                  *)

Extend_KeepsMask(b, lane, S) == [b EXCEPT !.lists[lane] = @ \cup S]

(* subject(s), relation(s), target(s) *)
Extend(b, lane, S) ==
  [b EXCEPT !.lists[lane] = @ \cup S,
            !.empty_lanes = IF b.lists[lane] \cup S # {} THEN @ \ {lane} ELSE @]

(* cartesian: replaces all three lanes *)
WithProduct(b, s, r, t) ==
  LET given == [subjects |-> s, relations |-> r, targets |-> t]
  IN [b EXCEPT !.lists = given, !.empty_lanes = {l \in Lanes : given[l] = {}}]

(* What cartesian_edges materializes. *)
CartesianEdges(s, r, t) == s \X r \X t

-----------------------------------------------------------------------------
(* Sets of kinds, as lists in dense order                                  *)

DenseKey(k) ==
  IF k \in ToSet(snapshot.kinds) THEN CHOOSE i \in DOMAIN snapshot.kinds : snapshot.kinds[i] = k
  ELSE Len(snapshot.kinds) + 1 + k

InDenseOrder(S) ==
  [i \in 1..Cardinality(S) |->
     CHOOSE k \in S : Cardinality({j \in S : DenseKey(j) < DenseKey(k)}) = i - 1]

Merge(left, right) ==
  LET merge[p \in (1..(Len(left) + 1)) \X (1..(Len(right) + 1))] ==
        LET i == p[1]
            j == p[2]
        IN IF i > Len(left) \/ j > Len(right) THEN {}
           ELSE IF DenseKey(left[i]) < DenseKey(right[j]) THEN merge[<<i + 1, j>>]
           ELSE IF DenseKey(left[i]) > DenseKey(right[j]) THEN merge[<<i, j + 1>>]
           ELSE {left[i]} \cup merge[<<i + 1, j + 1>>]
  IN merge[<<1, 1>>]

Intersect_MissesLast(S, R) ==
  IF R = {} THEN {} ELSE Merge(InDenseOrder(S), Front(InDenseOrder(R)))
(* intersect_kind_sets: a merge of two lists in dense order. *)
Intersect(S, R) == Merge(InDenseOrder(S), InDenseOrder(R))

-----------------------------------------------------------------------------
(* Evaluation.  A source evaluates to a fault and a set of kinds.          *)

KeyFault(key) ==
  IF key = None THEN "Ok"
  ELSE IF key.lineage # snapshot.key.lineage THEN "SnapshotLineageMismatch"
  ELSE IF key.version # snapshot.key.version THEN "StaleCompiledQuery" ELSE "Ok"

Faulty(fault) == [fault |-> fault, set |-> {}]
Selected(fault, selection, result) ==
  IF fault # "Ok" THEN Faulty(fault)
  ELSE [fault |-> "Ok", set |-> IF selection = "Subjects" THEN result.subjects ELSE result.targets]
SelectedOf(result, selection) == Selected(result.fault, selection, result)

KindMatches(filter, k) == filter = AnyKind \/ k \in filter

EdgeMatches(b, e, subject_filter, target_filter) ==
  /\ b.empty_lanes = {}
  /\ b.lists["relations"] = {} \/ e[2] \in b.lists["relations"]
  /\ \/ b.direction # "Incoming"
        /\ KindMatches(subject_filter, e[1]) /\ KindMatches(target_filter, e[3])
     \/ b.direction # "Outgoing"
        /\ KindMatches(subject_filter, e[3]) /\ KindMatches(target_filter, e[1])

Narrow(current, values) == IF current = AnyKind THEN values ELSE Intersect(current, values)

NextSource_SwallowsFault(current, value) ==
  IF current.fault # "Ok" \/ current.set = {} THEN current
  ELSE [fault |-> "Ok", set |-> Narrow(current.set, value.set)]

(* resolve_kind_set: an empty set ends the loop over the sources, and what
   those behind it evaluate to does not count.                             *)
NextSource(current, value) ==
  IF current.fault # "Ok" \/ current.set = {} THEN current
  ELSE IF value.fault # "Ok" THEN value
  ELSE [fault |-> "Ok", set |-> Narrow(current.set, value.set)]
Resolve(direct, values) ==
  LET after[i \in 0..Len(values)] ==
        IF i = 0 THEN [fault |-> "Ok", set |-> IF direct = {} THEN AnyKind ELSE direct]
        ELSE NextSource(after[i - 1], values[i])
  IN after[Len(values)]

FirstFault_TargetsFirst(key_fault, subjects, targets) ==
  IF key_fault # "Ok" THEN key_fault ELSE IF targets # "Ok" THEN targets ELSE subjects
(* ensure_snapshot, then the subject sources, then the target sources. *)
FirstFault(key_fault, subjects, targets) ==
  IF key_fault # "Ok" THEN key_fault ELSE IF subjects # "Ok" THEN subjects ELSE targets

Result(fault, matches) ==
  [fault |-> fault, matches |-> matches,
   subjects |-> {e[1] : e \in matches}, targets |-> {e[3] : e \in matches}]
Matching(b, fault, subject_filter, target_filter) ==
  Result(fault, IF fault # "Ok" THEN {}
                ELSE {e \in snapshot.edges : EdgeMatches(b, e, subject_filter, target_filter)})
CompileUncached(b, subjects, targets) ==
  Matching(b, FirstFault(KeyFault(b.bound), subjects.fault, targets.fault), subjects.set, targets.set)

(* SetSource::evaluate.  results holds what the builders put aside return. *)
EvaluateWith(results, source) ==
  CASE source.tag = "Kinds" -> [fault |-> "Ok", set |-> source.kinds]
    [] source.tag = "Traversal" ->
         IF KeyFault(source.key) # "Ok" THEN Faulty(KeyFault(source.key))
         ELSE IF source.fault # "Ok" THEN Faulty(source.fault)
         ELSE [fault |-> "Ok", set |-> source.kinds]
    [] source.tag = "Edge" ->
         IF queries[source.query].selection = "Edges" THEN Faulty("InvalidQueryState")
         ELSE SelectedOf(results[source.query], queries[source.query].selection)
    [] source.tag = "Compiled" ->
         IF source.selection = "Edges" THEN Faulty("InvalidQueryState")
         ELSE Selected(KeyFault(source.key), source.selection, source)

Values(results, sources) == [i \in DOMAIN sources |-> EvaluateWith(results, sources[i])]
EndsWith(results, b, side) == Resolve(b.lists[side], Values(results, b.sources[side]))
(* ensure_snapshot, then compile_uncached *)
RunWith(results, b) ==
  CompileUncached(b, EndsWith(results, b, "subjects"), EndsWith(results, b, "targets"))

(* A builder's sources are builders put aside before it. *)
Results ==
  LET results[q \in DOMAIN queries] == RunWith(results, queries[q]) IN results

Evaluate(source) == EvaluateWith(Results, source)
Ends(b, side) == EndsWith(Results, b, side)
Run(b) == RunWith(Results, b)

-----------------------------------------------------------------------------
Call == calls < MaxCalls /\ calls' = calls + 1 /\ answer' = None

(* The lanes as the program meant them. *)
Meant(lane, S) == IF lanes[lane] = AnyKind THEN (IF S = {} THEN AnyKind ELSE S) ELSE lanes[lane] \cup S

AddToLane(lane, S) ==
  /\ Call
  /\ builder' = Extend(builder, lane, S)
  /\ lanes' = [lanes EXCEPT ![lane] = Meant(lane, S)]
  /\ UNCHANGED <<queries, kept, at>>

Cartesian(p) ==
  /\ Call
  /\ builder' = WithProduct(builder, p[1], p[2], p[3])
  /\ lanes' = [subjects |-> p[1], relations |-> p[2], targets |-> p[3]]
  /\ UNCHANGED <<queries, kept, at>>

SetDirection(d) == Call /\ builder' = [builder EXCEPT !.direction = d] /\ UNCHANGED <<lanes, queries, kept, at>>
Select(s) == Call /\ builder' = [builder EXCEPT !.selection = s] /\ UNCHANGED <<lanes, queries, kept, at>>

From(side, source) ==
  /\ Call
  /\ builder' = [builder EXCEPT !.sources[side] = Append(@, source)]
  /\ UNCHANGED <<lanes, queries, kept, at>>

(* The query is put aside as a source, as a builder or compiled, and the
   next one is begun, bound to the snapshot or not.                        *)
Begin(bound) == builder' = New(bound) /\ lanes' = [l \in Lanes |-> AnyKind]

Keep(bound) ==
  /\ Call /\ Begin(bound)
  /\ queries' = Append(queries, builder)
  /\ kept' = [tag |-> "Edge", query |-> Len(queries) + 1]
  /\ UNCHANGED at

KeepCompiled(bound) ==
  LET result == Run(builder)
  IN /\ result.fault = "Ok"
     /\ Call /\ Begin(bound)
     /\ kept' = [tag |-> "Compiled", key |-> snapshot.key, selection |-> builder.selection,
                 subjects |-> result.subjects, targets |-> result.targets]
     /\ UNCHANGED <<queries, at>>

NextSnapshot == at < Len(Snapshots) /\ at' = at + 1 /\ answer' = None /\ UNCHANGED <<builder, lanes, queries, kept, calls>>

RunEdges == answer = None /\ answer' = Run(builder) /\ UNCHANGED <<builder, lanes, queries, kept, at, calls>>

Init ==
  /\ \E bound \in {None, Snapshots[1].key} : builder = New(bound)
  /\ lanes = [l \in Lanes |-> AnyKind]
  /\ queries = <<>> /\ kept = None /\ at = 1 /\ answer = None /\ calls = 0

KindSources == {[tag |-> "Kinds", kinds |-> S] : S \in KindSets}

Next ==
  \/ \E lane \in Lanes, S \in KindSets : AddToLane(lane, S)
  \/ \E p \in Products : Cartesian(p)
  \/ \E d \in Directions : SetDirection(d)
  \/ \E s \in Selections : Select(s)
  \/ \E side \in Sides, source \in KindSources \cup TraversalSources : From(side, source)
  \/ \E side \in Sides : kept # None /\ From(side, kept)
  \/ \E bound \in {None, snapshot.key} :
       Keep(bound) \/ KeepCompiled(bound)
  \/ NextSnapshot \/ RunEdges

Spec == Init /\ [][Next]_vars

-----------------------------------------------------------------------------
Ran(fault) == answer # None /\ answer.fault = fault

(* What a source offers, by itself. *)
Offers(source, k) ==
  CASE source.tag \in {"Kinds", "Traversal"} -> k \in source.kinds
    [] source.tag = "Edge" ->
         LET query == queries[source.query]
         IN \E e \in Run(query).matches :
              \/ query.selection = "Subjects" /\ e[1] = k
              \/ query.selection = "Targets" /\ e[3] = k
    [] source.tag = "Compiled" ->
         \/ source.selection = "Subjects" /\ k \in source.subjects
         \/ source.selection = "Targets" /\ k \in source.targets

(* What the query asks of one end of an edge: its lane, and every source. *)
Admits(side, k) ==
  /\ lanes[side] = AnyKind \/ k \in lanes[side]
  /\ \A i \in DOMAIN builder.sources[side] : Offers(builder.sources[side][i], k)

(* Sources and builders; the builders that sources own stand at places. *)
Sources(places) ==
  [tag : {"Kinds"}, kinds : SUBSET Kinds] \cup TraversalSources \cup [tag : {"Edge"}, query : places]
    \cup [tag : {"Compiled"}, key : Keys, selection : Selections, subjects : SUBSET Kinds, targets : SUBSET Kinds]
Builders(places) ==
  [bound : {None} \cup Keys, lists : [Lanes -> SUBSET Kinds], empty_lanes : SUBSET Lanes,
   direction : Directions, selection : Selections, sources : [Sides -> Seq(Sources(places))]]

(* A lane that cartesian left empty has no kinds since. *)
MaskOK(b) == \A l \in b.empty_lanes : b.lists[l] = {}

(* The query being built, those put aside and what the program meant by the
   lanes are well formed, and a query owns queries put aside before it: none
   is nested in itself.                                                    *)
TypeOK ==
  /\ queries \in Seq(Builders(Nat))
  /\ \A q \in DOMAIN queries : queries[q] \in Builders(1..(q - 1)) /\ MaskOK(queries[q])
  /\ builder \in Builders(DOMAIN queries) /\ MaskOK(builder)
  /\ kept # None => kept \in Sources(DOMAIN queries)
  /\ at \in DOMAIN Snapshots /\ calls \in 0..MaxCalls
  /\ lanes \in [Lanes -> {AnyKind} \cup SUBSET Kinds]

(* However the calls were mixed, and for kinds the snapshot does not know,
   a query that runs returns the edges whose ends are in the lanes the
   program listed and in every source: the order of the calls, the merge
   and the early exits show nowhere.                                       *)
LanesDecideMatches ==
  Ran("Ok") =>
    answer.matches =
      {e \in snapshot.edges :
         /\ lanes["relations"] = AnyKind \/ e[2] \in lanes["relations"]
         /\ \/ builder.direction \in {"Outgoing", "Both"} /\ Admits("subjects", e[1]) /\ Admits("targets", e[3])
            \/ builder.direction \in {"Incoming", "Both"} /\ Admits("subjects", e[3]) /\ Admits("targets", e[1])}

(* A cartesian query without sources selects those of the edges
   cartesian_edges would materialize for the same lanes that exist, also
   when a lane is empty: what a caller removes is what it just listed.     *)
ProductSelectsItsEdges ==
  Ran("Ok") /\ builder.direction = "Outgoing" /\ (\A l \in Lanes : lanes[l] # AnyKind)
    /\ (\A side \in Sides : builder.sources[side] = <<>>) =>
    answer.matches =
      snapshot.edges \cap CartesianEdges(lanes["subjects"], lanes["relations"], lanes["targets"])

(* A query returns what its caller meant by it. *)
QueryAsMeant == LanesDecideMatches /\ ProductSelectsItsEdges

(* What stands in front of a source has no fault and leaves a kind for it
   to select from.                                                         *)
InReach(side, i) ==
  LET ahead == {builder.sources[side][j] : j \in 1..(i - 1)}
  IN /\ \A source \in ahead : Evaluate(source).fault = "Ok"
     /\ i > 1 => \E k \in Kinds :
                   /\ lanes[side] \in {AnyKind, {}} \/ k \in lanes[side]
                   /\ \A source \in ahead : Offers(source, k)

Faults(side) == {i \in DOMAIN builder.sources[side] : Evaluate(builder.sources[side][i]).fault # "Ok"}
FaultsInReach(side) == {i \in Faults(side) : InReach(side, i)}

(* A run fails exactly when the query's own binding does or a faulty source
   is in reach, and reports the binding's fault before that of a source and
   a fault of the subjects before one of the targets.                      *)
FirstInReachIsReported ==
  answer # None =>
    /\ answer.fault = "Ok" <=> KeyFault(builder.bound) = "Ok" /\ \A side \in Sides : FaultsInReach(side) = {}
    /\ KeyFault(builder.bound) # "Ok" => answer.fault = KeyFault(builder.bound)
    /\ answer.fault \notin {"Ok", KeyFault(builder.bound)} =>
         \E side \in Sides : \E i \in FaultsInReach(side) :
           /\ answer.fault = Evaluate(builder.sources[side][i]).fault
           /\ side = "targets" => FaultsInReach("subjects") = {}

(* A faulty source behind an empty set goes unreported, and then the query
   matches nothing: no answer with an edge rests on a stale, foreign or
   invalid source.                                                         *)
HiddenFaultsMatchNothing ==
  Ran("Ok") /\ (\E side \in Sides : Faults(side) # {}) => answer.matches = {}

(* The early exit over the sources decides which faults are reported, and
   nothing else.                                                           *)
FaultsAreFirst == FirstInReachIsReported /\ HiddenFaultsMatchNothing
=============================================================================
