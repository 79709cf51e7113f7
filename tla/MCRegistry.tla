----------------------------- MODULE MCRegistry -----------------------------
(***************************************************************************)
(* A small registry for TLC: two core kinds, a namespace with two names,   *)
(* one name outside it, one name whose hash collides with a::x, one        *)
(* reserved name, and the empty spelling.                                  *)
(***************************************************************************)
EXTENDS SemanticRegistry

CONSTANTS T1, T2

MCNames == {"Relation", "is_a", "a::x", "a::y", "b", "z", "core::q"}
MCHash == [n \in MCNames |-> CASE n = "Relation" -> 1 [] n = "is_a" -> 2
                               [] n \in {"a::x", "z"} -> 3 [] n = "a::y" -> 4
                               [] n = "b" -> 5 [] n = "core::q" -> 6]
MCKinds == 1..6
MCReserved == {"core::q"}
MCCore == <<"Relation", "is_a">>
MCSeed == {<<1, 2, 1>>, <<2, 2, 1>>}

MCCanon == [s \in {"is_a", "a::x", " a::x ", "b", "z", "core::q", "  "} |->
              IF s = " a::x " THEN "a::x" ELSE IF s = "  " THEN NoName ELSE s]
MCSpellings == DOMAIN MCCanon

MCMembers == [n \in {"a", "core", ""} |-> IF n = "a" THEN {"a::x", "a::y"} ELSE {}]
MCFault == [n \in {"a", "core", ""} |-> CASE n = "a" -> "Ok" [] n = "" -> "InvalidName"
                                       [] n = "core" -> "CannotUseReservedNamespace"]
MCNamespaces == DOMAIN MCMembers

MCTypes == {T1, T2}
MCStaticName == [t \in MCTypes |-> IF t = T1 THEN "a::x" ELSE "b"]
MCStaticKind == [t \in MCTypes |-> IF t = T1 THEN 3 ELSE 6]

Decl(s, k) == [name |-> s, kind |-> k]
MCGroups == {<<Decl("a::x", 3), Decl("b", 5)>>, <<Decl("a::x", 3), Decl("z", 3)>>,
             <<Decl("b", 5), Decl("core::q", 6)>>, <<Decl("b", 6)>>}
MCEdgeGroups == {<<<<3, 2, 5>>, <<5, 3, 1>>>>, <<<<3, 2, 5>>>>}
=============================================================================
