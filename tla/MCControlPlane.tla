--------------------------- MODULE MCControlPlane ---------------------------
(***************************************************************************)
(* Instances of ControlPlane for TLC, cut out of the catalogue.            *)
(***************************************************************************)
EXTENDS ControlPlane, Components

CrossplaneStack == {"Crossplane", "CrossplaneProvider", "Policy"}

\* Components no hook ties together: a chart, one that is kept and a copied secret.
LooseStack == {"Flux", "ClusterRoleAdmin", "Secret"}

MCFluxType     == FluxTypes \cap Component
MCObjectType   == ObjectTypes \cap Component
MCDependencies == [c \in Component |-> Catalogue[c].needs \cap Component]
MCGuarded      == {c \in Component : Catalogue[c].guarded}
MCGuards       == [c \in Component |-> Catalogue[c].guards \cap Component]
MCGates        == [c \in Component |-> Catalogue[c].gates \cap Component]
MCKeep         == {c \in Component : Catalogue[c].keep}
MCDetected     == {c \in Component : Catalogue[c].detected}
MCVersioned    == {c \in Component : Catalogue[c].versioned}
MCTouched      == UserTypes \cap Component
MCRank         == [c \in Component |-> RankOf(c)]
MCNested       == NestedTypes \cap Component

=============================================================================
