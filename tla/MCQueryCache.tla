---------------------------- MODULE MCQueryCache ----------------------------
(***************************************************************************)
(* Two threads, two builders and three queries, of which one is invalid,   *)
(* over two versions of one registry and a clone of it.                    *)
(***************************************************************************)
EXTENDS QueryCache, TLC

CONSTANTS old, new, forked

MCKeyOf == [s \in {old, new, forked} |->
              IF s = old THEN [lineage |-> 1, version |-> 1]
              ELSE IF s = new THEN [lineage |-> 1, version |-> 2]
              ELSE [lineage |-> 2, version |-> 1]]
ThreadSymmetry == Permutations(Threads)
MCVersions == [s \in {old, new} |-> MCKeyOf[s]]
MCLineages == [s \in {old, forked} |-> MCKeyOf[s]]
=============================================================================
