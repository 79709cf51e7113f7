---------------------------- MODULE MCEdgeQueries ----------------------------
(***************************************************************************)
(* Kinds 3 and 4 are unknown to the first snapshot; the second is the next *)
(* version, where 3 is registered, and the third one of a clone.           *)
(***************************************************************************)
EXTENDS EdgeQueries

MCKinds == 1..4
Key(l, v) == [lineage |-> l, version |-> v]
MCSnapshots ==
  <<[key |-> Key(1, 1), kinds |-> <<2, 1>>, edges |-> {<<1, 1, 2>>, <<2, 1, 1>>, <<2, 2, 2>>}],
    [key |-> Key(1, 2), kinds |-> <<2, 1, 3>>, edges |-> {<<1, 1, 2>>, <<3, 2, 1>>, <<2, 1, 3>>}],
    [key |-> Key(2, 2), kinds |-> <<2, 1>>, edges |-> {<<1, 1, 2>>}]>>
MCKindSets == {{}, {2, 3}}
MCProducts == {<<{1, 2}, {1}, {1, 2, 4}>>, <<{}, {1}, {2}>>, <<{3, 2}, {1, 2}, {}>>}
MCTraversals ==
  {[tag |-> "Traversal", key |-> None, fault |-> "EmptySeedSet", kinds |-> {}],
   [tag |-> "Traversal", key |-> Key(1, 1), fault |-> "Ok", kinds |-> {2, 4}]}
=============================================================================
