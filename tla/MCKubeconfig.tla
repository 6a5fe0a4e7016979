---------------------------- MODULE MCKubeconfig ----------------------------
(***************************************************************************)
(* An instance of Kubeconfig for TLC.  A tick stands for five minutes: the *)
(* default lifetime of an hour is twelve of them, the default period of a  *)
(* minute is rounded up to one.                                            *)
(***************************************************************************)
EXTENDS Kubeconfig

CONSTANTS t1, t2
MCTarget == {t1, t2}

=============================================================================
