------------------------ MODULE MCComponentBindings ------------------------
(***************************************************************************)
(* Two components that declare the same kind, one that declares another,   *)
(* and one whose declaration is wrong.                                     *)
(***************************************************************************)
EXTENDS ComponentBindings

CONSTANTS T1, T2, T3, T4

MCTypes == {T1, T2, T3, T4}
MCCanon == [s \in {"a", "b"} |-> s]
MCHash == [n \in {"is_a", "a", "b"} |-> CASE n = "is_a" -> 1 [] n = "a" -> 2 [] n = "b" -> 3]
MCCore == <<"is_a">>
MCMembers == [n \in {"n"} |-> {"b"}]
MCFault == [n \in {"n"} |-> "Ok"]
MCStaticName == [t \in MCTypes |-> CASE t \in {T1, T2} -> "a" [] t = T3 -> "b" [] t = T4 -> "b"]
MCStaticKind == [t \in MCTypes |-> CASE t \in {T1, T2, T4} -> 2 [] t = T3 -> 3]
=============================================================================
