----------------------------- MODULE MCIsACache -----------------------------
(***************************************************************************)
(* Two threads, a snapshot whose taxonomy has a cycle with a tail and one  *)
(* of the next version, where a link is gone.                              *)
(***************************************************************************)
EXTENDS IsACache

CONSTANTS T1, T2

MCThreads == {T1, T2}
MCKinds == 1..3
MCIsA == <<{<<1, 2>>, <<2, 1>>, <<2, 3>>}, {<<1, 2>>, <<2, 3>>}>>
=============================================================================
