------------------------- MODULE RegistryRefinement -------------------------
(***************************************************************************)
(* The registry implements the ontology it promises.  An identity is what  *)
(* the lookups return: the metadata found through kind_to_index, with the  *)
(* type found through kind_to_type.                                        *)
(***************************************************************************)
EXTENDS SemanticRegistry

IdentityOf(k) ==
  [kind |-> k, name |-> MetaOf(k).name,
   type |-> IF k \in DOMAIN kind_to_type THEN kind_to_type[k] ELSE NoType,
   pinned |-> PinFault(MetaOf(k)) # "Ok",
   live |-> ~IsTombstoned(MetaOf(k))]

Promised == INSTANCE Ontology WITH
  identities <- {IdentityOf(k) : k \in DOMAIN kind_to_index},
  links <- edges

(* Every step of the registry is a step its callers were promised: lookups
   never mix up identities however the vector was rearranged, a pinned one is
   never forgotten, and links only ever join live kinds.                   *)
ImplementsOntology == Promised!OntologySpec
=============================================================================
