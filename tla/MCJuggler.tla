----------------------------- MODULE MCJuggler -----------------------------
(***************************************************************************)
(* Instances of Juggler for TLC, cut out of the catalogue.                 *)
(***************************************************************************)
EXTENDS Juggler, Components

\* Crossplane with the provider that needs it and the policy that gates the
\* provider: one component for each way in which a hook ties two together.
CrossplaneStack == {"Crossplane", "CrossplaneProvider", "Policy"}
CrossplanePair == {"Crossplane", "CrossplaneProvider"}

MCFluxType     == FluxTypes \cap Component
MCObjectType   == ObjectTypes \cap Component
MCDependencies == [c \in Component |-> Catalogue[c].needs \cap Component]
MCGuarded      == {c \in Component : Catalogue[c].guarded}
MCGuards       == [c \in Component |-> Catalogue[c].guards \cap Component]
MCGates        == [c \in Component |-> Catalogue[c].gates \cap Component]
MCKeep         == {c \in Component : Catalogue[c].keep}
MCDetected     == {c \in Component : Catalogue[c].detected}
MCVersioned    == {c \in Component : Catalogue[c].versioned}
MCTouched      == UserTypes \cap Component
MCRank         == [c \in Component |-> RankOf(c)]

=============================================================================
