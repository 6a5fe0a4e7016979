-------------------------- MODULE MCReleaseChannel --------------------------
(***************************************************************************)
(* Instances of ReleaseChannel for TLC.                                    *)
(***************************************************************************)
EXTENDS ReleaseChannel

OneChannel == {"stable"}
OneVersion == {"v1"}

=============================================================================
