----------------------------- MODULE MCTraversal -----------------------------
(***************************************************************************)
(* Two programs.  The first asks every graph over three kinds and every    *)
(* graph over two kinds with two relations one question of each family;    *)
(* kind 4 is one no snapshot knows.  The second asks a few snapshots of    *)
(* different sizes six questions in every order, while the generation      *)
(* counters wrap.                                                          *)
(***************************************************************************)
EXTENDS Traversal

MCKinds == 1..4

OneRelation == {[kinds |-> <<1, 3, 2>>, edges |-> {<<e[1], 1, e[2]>> : e \in g}] :
                  g \in SUBSET ((1..3) \X (1..3))}
TwoRelations == {[kinds |-> <<2, 1, 3>>, edges |-> g] : g \in SUBSET ((2..3) \X (1..2) \X (2..3))}
AllGraphs == OneRelation \cup TwoRelations

Query(seeds, relations, direction, spec, include_start, dedup, stop, max) ==
  [op |-> "traverse", seeds |-> seeds, relations |-> relations, direction |-> direction,
   depth |-> spec, include_start |-> include_start, dedup |-> dedup,
   stop_on_match |-> stop, max_results |-> max]
CanReach(start, target, hops) ==
  [op |-> "can_reach", seeds |-> {start}, relations |-> {1}, direction |-> "Outgoing",
   depth |-> [spec |-> "To", hops |-> hops], target |-> target]

Exact(n) == [spec |-> "Exact", hops |-> n]
To(n) == [spec |-> "To", hops |-> n]
Transitive == [spec |-> "Transitive"]
One == [spec |-> "One"]

Unlimiteds ==
  {Query({2}, {1}, direction, spec, start, TRUE, FALSE, None) :
     direction \in Directions, spec \in {Transitive, To(2)}, start \in BOOLEAN}
  \cup {Query({2, 3}, {}, direction, Transitive, FALSE, TRUE, FALSE, None) : direction \in Directions}
  \cup {Query({2, 4}, {1, 2}, "Outgoing", To(1), TRUE, FALSE, FALSE, None),
        Query({3}, {2}, "Both", Transitive, FALSE, FALSE, FALSE, None),
        Query({2}, {1}, "Outgoing", To(0), TRUE, TRUE, FALSE, None),
        Query({}, {}, "Outgoing", Transitive, TRUE, TRUE, FALSE, None)}
Exacts ==
  {Query({2}, {1}, direction, spec, FALSE, dedup, FALSE, None) :
     direction \in {"Outgoing", "Both"}, spec \in {Exact(0), One, Exact(2), Exact(3)},
     dedup \in BOOLEAN}
Limited ==
  {Query({2, 3}, {1}, "Outgoing", Transitive, start, TRUE, FALSE, max) :
     start \in BOOLEAN, max \in 0..3}
  \cup {Query({2}, {1}, "Incoming", To(2), start, TRUE, TRUE, None) : start \in BOOLEAN}
Reaches == {CanReach(2, target, hops) : target \in 2..4, hops \in {0, 1, 2, 4}}

FirstCalls == Unlimiteds \cup Exacts \cup Limited \cup Reaches

-----------------------------------------------------------------------------
Small == [kinds |-> <<1>>, edges |-> {<<1, 1, 1>>}]
Cycle == [kinds |-> <<1, 3, 2>>, edges |-> {<<2, 1, 3>>, <<3, 1, 2>>}]
Chain == [kinds |-> <<2, 1, 3>>, edges |-> {<<3, 1, 2>>, <<2, 1, 1>>}]
FewSnapshots == {Small, Cycle, Chain}

ScratchCalls ==
  {Query({2}, {1}, "Outgoing", Transitive, TRUE, TRUE, FALSE, None),
   Query({3, 4}, {}, "Both", To(2), FALSE, TRUE, FALSE, None),
   Query({4}, {}, "Outgoing", Transitive, TRUE, TRUE, TRUE, None),
   CanReach(3, 1, 4)}

MCSnapshots == AllGraphs \cup FewSnapshots
MCCalls == FirstCalls \cup ScratchCalls
MCPrograms ==
  <<<<[snapshots |-> AllGraphs, calls |-> FirstCalls]>>,
    [i \in 1..6 |-> [snapshots |-> FewSnapshots, calls |-> ScratchCalls]]>>
=============================================================================
