----------------------------- MODULE Components -----------------------------
(***************************************************************************)
(* The catalogue of the components the operator knows                      *)
(* (pkg/controlplane/components): which reconciler handles them, the order *)
(* in which newJuggler registers them, and of each type what the engine    *)
(* can tell apart.  Manifests, values and policy rules are contents.  One  *)
(* provider, one pull secret and one CRD stand for the many of their kind. *)
(***************************************************************************)
EXTENDS Naturals, FiniteSets, Sequences, TLC

\* clusterroles.RegisterAsComponents
ClusterRoles == {"ClusterRoleAdmin", "ClusterRoleView"}

\* registerReconcilers: the types of the flux reconciler ...
FluxTypes == {"BTPServiceOperator", "CertManager", "Crossplane",
              "ExternalSecretsOperator", "Flux", "Kyverno"}

\* ... and the objects of the types of the object reconciler.
ObjectTypes == ClusterRoles \cup
    {"Secret", "CrossplaneProvider", "DeploymentRuntimeConfig", "CRD",
     "PackageRestriction", "Policy", "PolicyBinding",
     "RuntimeConfigPolicy", "RuntimeConfigPolicyBinding"}

\* newJuggler and controlPlaneComponents, in order.
RegistrationOrder ==
    <<"Secret", "Crossplane", "CrossplaneProvider", "DeploymentRuntimeConfig",
      "CertManager", "BTPServiceOperator", "ExternalSecretsOperator", "Kyverno",
      "Flux", "ClusterRoleAdmin", "ClusterRoleView", "CRD", "PackageRestriction",
      "Policy", "PolicyBinding", "RuntimeConfigPolicy", "RuntimeConfigPolicyBinding">>

RankOf(c) == CHOOSE i \in 1..Len(RegistrationOrder) : RegistrationOrder[i] = c

\* A component as its methods describe it.
\*   needs      GetDependencies
\*   guarded    Hooks().PreUninstall looks for resources of some kinds ...
\*   guards     ... and those of these kinds that are components themselves
\*   gates      Hooks().PreInstall and PreUpdate: components that must be in force
\*   keep       KeepOnUninstall
\*   versioned  IsInstallable asks the release channels
\*   detected   an orphan detector finds it if a pass has not listed it
GenericObjectComponent ==
    [needs |-> {}, guarded |-> FALSE, guards |-> {}, gates |-> {},
     keep |-> FALSE, versioned |-> FALSE, detected |-> FALSE]

\* What the charts have in common: a version, and kinds that only users create.
Chart == [GenericObjectComponent EXCEPT !.versioned = TRUE, !.guarded = TRUE]

Crossplane == [Chart EXCEPT !.guards = {"CrossplaneProvider"}]
CertManager == Chart
BTPServiceOperator == [Chart EXCEPT !.needs = {"CertManager"}]
ExternalSecretsOperator == Chart
Kyverno == Chart
Flux == Chart

CrossplaneProvider ==
    [GenericObjectComponent EXCEPT !.needs = {"Crossplane"}, !.versioned = TRUE,
                                   !.gates = {"Policy", "PolicyBinding"},
                                   !.detected = TRUE]

CrossplaneDeploymentRuntimeConfig ==
    [GenericObjectComponent EXCEPT !.needs = {"Crossplane"},
                                   !.gates = {"Policy", "PolicyBinding"},
                                   !.detected = TRUE]

Secret == [GenericObjectComponent EXCEPT !.detected = TRUE]

\* The detector of cluster roles has nothing to find: both are always listed.
ClusterRole == [GenericObjectComponent EXCEPT !.keep = TRUE]

\* crds.RegisterAsComponents sets the keep flag of its generic objects.
CRD == [GenericObjectComponent EXCEPT !.keep = TRUE]

Catalogue ==
    [c \in FluxTypes \cup ObjectTypes |->
        CASE c = "Crossplane"              -> Crossplane
          [] c = "CertManager"             -> CertManager
          [] c = "BTPServiceOperator"      -> BTPServiceOperator
          [] c = "ExternalSecretsOperator" -> ExternalSecretsOperator
          [] c = "Kyverno"                 -> Kyverno
          [] c = "Flux"                    -> Flux
          [] c = "CrossplaneProvider"      -> CrossplaneProvider
          [] c = "DeploymentRuntimeConfig" -> CrossplaneDeploymentRuntimeConfig
          [] c = "Secret"                  -> Secret
          [] c \in ClusterRoles            -> ClusterRole
          [] c = "CRD"                     -> CRD
          [] OTHER                         -> GenericObjectComponent]

\* Crossplane's part of the spec lists these.
NestedTypes == {"CrossplaneProvider", "DeploymentRuntimeConfig"}

\* Objects of the target cluster whose API groups the users' roles cover.
UserTypes == {"CrossplaneProvider", "DeploymentRuntimeConfig"}

=============================================================================
