------------------------- MODULE MCCommandPipeline -------------------------
(***************************************************************************)
(* A registry with one core kind and two free names, two systems in Update *)
(* and one in Last, and commands that depend on each other: an edge needs  *)
(* its kind, a removal undoes it.                                          *)
(***************************************************************************)
EXTENDS CommandPipeline

CONSTANTS T1

MCCanon == [s \in {"a", "b"} |-> s]
MCHash == [n \in {"is_a", "a", "b"} |-> CASE n = "is_a" -> 1 [] n = "a" -> 2 [] n = "b" -> 3]
MCMembers == [n \in {"n"} |-> {"b"}]
MCFault == [n \in {"n"} |-> "Ok"]
MCDeclaration == [name |-> "b", kind |-> 3]

MCCore == <<"is_a">>
MCStaticName == [t \in {T1} |-> "a"]
MCStaticKind == [t \in {T1} |-> 2]
MCGroups == {<<MCDeclaration, MCDeclaration>>}
MCEdgeGroups == {<<<<2, 1, 1>>>>}

MCSystems == <<"s1", "s2", "s3">>
MCSystemPhase == [s \in {"s1", "s2", "s3"} |-> IF s = "s3" THEN "last" ELSE "update"]

AddA == [op |-> "RegisterKind", name |-> "a"]
DropA == [op |-> "UnregisterKind", kind |-> 2]
Link == [op |-> "AddEdges", edges |-> <<<<2, 1, 1>>>>]
Unlink == [op |-> "RemoveEdges", edges |-> <<<<2, 1, 1>>>>]
Bury == [op |-> "TombstoneKind", kind |-> 2]
Raise == [op |-> "ReviveKind", kind |-> 2]
TypeA == [op |-> "RegisterTypedKind", type |-> T1, name |-> "a"]
Nameless == [op |-> "RegisterTypedKind", type |-> T1]
Purge == [op |-> "UnregisterNamespace", namespace |-> "n"]
ConstB == [op |-> "register_const", name |-> "b", kind |-> 3]
ConstsB == [op |-> "register_consts", group |-> <<MCDeclaration, MCDeclaration>>]
StaticA == [op |-> "register_semantic_type", type |-> T1]

MCStageable == {AddA, Link}
MCBatches == {<<TypeA, AddA>>, <<Link, Nameless>>}
MCChains == {<<DropA, AddA>>, <<ConstsB, ConstB, Purge>>, <<StaticA, Bury, Raise, Unlink>>}
=============================================================================
