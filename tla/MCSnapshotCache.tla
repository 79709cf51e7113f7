--------------------------- MODULE MCSnapshotCache ---------------------------
(***************************************************************************)
(* Two readers over a registry with one core kind and one user kind, enough *)
(* to register, link, tombstone, revive and remove around each other.       *)
(***************************************************************************)
EXTENDS SnapshotCache, TLC

CONSTANTS R1, R2

MCNames == {"is_a", "b"}
MCHash == [n \in MCNames |-> IF n = "is_a" THEN 1 ELSE 2]
MCKinds == 1..2
MCReserved == {}
MCCore == <<"is_a">>
MCSeed == {}
MCSpellings == {"b"}
MCCanon == [s \in MCSpellings |-> s]
MCNamespaces == {}
MCMembers == [n \in MCNamespaces |-> {}]
MCFault == [n \in MCNamespaces |-> "Ok"]
MCTypes == {}
MCStaticName == [t \in MCTypes |-> "b"]
MCStaticKind == [t \in MCTypes |-> 2]
MCGroups == {<<[name |-> "b", kind |-> 2]>>}
MCEdgeGroups == {<<<<2, 1, 1>>>>}
MCReaders == {R1, R2}
Symmetry == Permutations(MCReaders)
=============================================================================
