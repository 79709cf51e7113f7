-------------------------- MODULE MCRegistryVector --------------------------
(***************************************************************************)
(* A registry whose vector grows to four: one core kind, and three user    *)
(* names of which two share a namespace, so that swap-removals and         *)
(* namespace removals rearrange every order of them.  One type has a       *)
(* static component identity.                                              *)
(***************************************************************************)
EXTENDS RegistryRefinement

CONSTANTS T1

MCNames == {"is_a", "a::x", "a::y", "b"}
MCHash == [n \in MCNames |-> CASE n = "is_a" -> 1 [] n = "a::x" -> 2
                               [] n = "a::y" -> 3 [] n = "b" -> 4]
MCKinds == 1..4
MCReserved == {}
MCCore == <<"is_a">>
MCSeed == {<<1, 1, 1>>}
MCSpellings == {"a::x", "a::y", "b"}
MCCanon == [s \in MCSpellings |-> s]
MCNamespaces == {"a"}
MCMembers == [n \in MCNamespaces |-> {"a::x", "a::y"}]
MCFault == [n \in MCNamespaces |-> "Ok"]
MCTypes == {T1}
MCStaticName == [t \in MCTypes |-> "a::y"]
MCStaticKind == [t \in MCTypes |-> 3]
MCGroups == {}
MCEdgeGroups == {<<<<2, 1, 4>>>>, <<<<3, 2, 4>>>>}
=============================================================================
