---------------------------- MODULE MCSecretSync ----------------------------
(***************************************************************************)
(* Instances of SecretSync for TLC.                                        *)
(***************************************************************************)
EXTENDS SecretSync

CONSTANTS a, b, x, y, d, e

OneSource     == {a}
TwoSources    == {a, b}
OneNamespace  == {x}
TwoNamespaces == {x, y}
OneDatum      == {d}
TwoData       == {d, e}

=============================================================================
