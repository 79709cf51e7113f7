------------------------------ MODULE Ontology ------------------------------
(***************************************************************************)
(* What the registry promises its callers, without vectors, indices, maps  *)
(* or counters: a set of identities, each one kind with one name and at    *)
(* most one Rust type, and a graph over the identities that are live.      *)
(* The public contract of SemanticRegistry in src/src/registry.rs;         *)
(* RegistryRefinement.tla relates the two.                                 *)
(***************************************************************************)
EXTENDS FiniteSets

CONSTANTS Kinds, Names, Types, NoType

VARIABLES
  identities,   \* the registered identities
  links         \* the edges between live kinds

ontologyVars == <<identities, links>>

Identity == [kind : Kinds, name : Names, type : Types \cup {NoType},
             pinned : BOOLEAN, live : BOOLEAN]

LiveKinds == {id.kind : id \in {i \in identities : i.live}}
LinksWithout(S) == {l \in links : l[1] \notin S /\ l[2] \notin S /\ l[3] \notin S}

(* Nothing an identity is known by is shared with another one. *)
Apart(id, other) ==
  /\ id.kind # other.kind
  /\ id.name # other.name
  /\ id.type # NoType => id.type # other.type

(* The registry starts with live, pinned, untyped core identities. *)
OntologyInit ==
  /\ identities \subseteq {id \in Identity : id.pinned /\ id.live /\ id.type = NoType}
  /\ \A id, other \in identities : id # other => Apart(id, other)
  /\ links \subseteq LiveKinds \X LiveKinds \X LiveKinds

(* A new identity is live and takes nothing that is in use. *)
Introduce ==
  \E id \in Identity :
    /\ id.live
    /\ \A other \in identities : Apart(id, other)
    /\ identities' = identities \cup {id}
    /\ UNCHANGED links

(* Registering again: kind and name stay, a type is only ever added, pins
   stay, a retired identity may come back; no link comes back with it.     *)
Restate ==
  \E id \in identities, new \in Identity :
    /\ new.kind = id.kind /\ new.name = id.name
    /\ id.type # NoType => new.type = id.type
    /\ id.pinned => new.pinned
    /\ id.live => new.live
    /\ \A other \in identities \ {id} : Apart(new, other)
    /\ identities' = (identities \ {id}) \cup {new}
    /\ UNCHANGED links

(* Tombstoning keeps the identity and drops its links. *)
Retire ==
  \E id \in identities :
    /\ id.live
    /\ identities' = (identities \ {id}) \cup {[id EXCEPT !.live = FALSE]}
    /\ links' = LinksWithout({id.kind})

(* Only identities that are not pinned are ever forgotten, with their links. *)
Forget ==
  \E gone \in SUBSET {id \in identities : ~id.pinned} :
    /\ identities' = identities \ gone
    /\ links' = LinksWithout({id.kind : id \in gone})

Relink ==
  /\ \/ links \subseteq links' /\ links' \subseteq links \cup (LiveKinds \X LiveKinds \X LiveKinds)
     \/ links' \subseteq links
  /\ UNCHANGED identities

OntologyNext == Introduce \/ Restate \/ Retire \/ Forget \/ Relink

OntologySpec == OntologyInit /\ [][OntologyNext]_ontologyVars
=============================================================================
