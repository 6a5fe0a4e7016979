---------------------------- MODULE MCConditions ----------------------------
(***************************************************************************)
(* An instance of Conditions for TLC: a cluster role, which is kept, and   *)
(* two pull secrets of one name from two namespaces, which share a         *)
(* condition type.                                                         *)
(***************************************************************************)
EXTENDS Conditions

MCComponent == {"ClusterRoleAdmin", "SecretOfA", "SecretOfB"}
MCTypeOf == [c \in MCComponent |->
                IF c = "ClusterRoleAdmin" THEN "clusterRoleAdminReady" ELSE "secretRegistryReady"]

\* One status of each kind the code tells apart (ready, not ready, gone, going) for one
\* of the secrets, and for the others those that differ from it.
MCSeen == [c \in MCComponent |->
              CASE c = "ClusterRoleAdmin" -> {"Healthy", "Uninstalled"}
                [] c = "SecretOfA"        -> {"Healthy", "Unhealthy", "Disabled", "Uninstalled"}
                [] c = "SecretOfB"        -> {"Healthy", "Disabled"}]

=============================================================================
