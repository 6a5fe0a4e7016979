---------------------------- MODULE ControlPlane ----------------------------
(***************************************************************************)
(* ControlPlaneReconciler.Reconcile for one ControlPlane, around the       *)
(* component engine of Juggler: it prepares the namespace, the access of   *)
(* flux to the target cluster and the finalizer, runs a pass over the      *)
(* components and, once the ControlPlane is deleted, tears everything down *)
(* in the reverse order.  Users create, edit and delete the ControlPlane   *)
(* at any time; every pass works on the snapshot it has read, against the  *)
(* target cluster that this snapshot names.                                *)
(***************************************************************************)
EXTENDS Juggler

CONSTANTS
    Nested,     \* components listed inside spec.crossplane: the providers
    MayMove     \* may users edit spec.target?

ASSUME NestedAssumption == Nested \subseteq Detected /\ MayMove \in BOOLEAN

Copied == Detected \ Nested     \* copies of the available pull secrets
Base   == Component \ (FluxType \cup Detected)  \* always registered objects
Choice == FluxType \cup Nested                  \* what the spec may ask for

\* Cluster roles and CRDs are kept, the policies gate providers and runtime
\* configs: both are objects that every pass registers.
ASSUME KeptAssumption == Keep \subseteq Base
ASSUME PoliciesAssumption ==
    \A c \in Component : Gates[c] \subseteq Base /\ (Gates[c] # {} => c \in Nested)

Access == {"ServiceAccount", "ClusterRoleBinding"}

VARIABLES
    cp,         \* the ControlPlane object
    spec,       \* the components its spec asks for
    available,  \* the pull secrets that exist on the operator's cluster
    queued,     \* its key is in the work queue, or a timer will add it
    step,       \* the next step of Reconcile
    snap,       \* the copy of the ControlPlane that Reconcile works on
    access,     \* flux's ServiceAccount and ClusterRoleBinding on the target
    namespace,  \* does the tenant namespace exist?
    kubeconfig  \* the flux-kubeconfig secret in it: none, for the target
                \* cluster ("here"), or for one the passes have left ("left")

outer == <<cp, spec, available, queued, step, snap, access, namespace, kubeconfig>>
vars  == <<jvars, outer>>

\* What Reconcile reads of a ControlPlane, and the copy that it works on.
ControlPlanes == [present : BOOLEAN, deleted : BOOLEAN, own : BOOLEAN, other : BOOLEAN]
Snapshots == [deleted : BOOLEAN, own : BOOLEAN, spec : SUBSET Choice, current : BOOLEAN]
NoControlPlane == [present |-> FALSE, deleted |-> FALSE, own |-> FALSE, other |-> FALSE]
NoSnapshot == [deleted |-> FALSE, own |-> FALSE, spec |-> {}, current |-> FALSE]

Steps == {"idle", "namespace", "account", "binding", "kubeconfig", "branch", "juggle",
          "unbind", "unaccount", "release"}

----------------------------------------------------------------------------
Init ==
    /\ JInit
    /\ cp = NoControlPlane /\ spec = {} /\ available = {}
    /\ queued = FALSE /\ step = "idle" /\ snap = NoSnapshot
    /\ access = {} /\ namespace = FALSE /\ kubeconfig = "none"

Advance(next) ==
    /\ step' = next
    /\ UNCHANGED <<cp, spec, available, queued, snap, access, namespace, kubeconfig>>

\* Reconcile returns: with an error or a RequeueAfter the key comes back.
Return(requeue) ==
    /\ step' = "idle" /\ snap' = NoSnapshot
    /\ queued' = (queued \/ requeue)

\* ... and with it spec.target, to which all remote calls of the pass go, those
\* that clean up included.  Users may have edited it since the last pass, while
\* the ControlPlane is being deleted, too; nothing remembers the old one.
SameTarget == UNCHANGED <<jvars, access, kubeconfig>>
OtherTarget ==
    /\ MayMove /\ ~calm /\ cp.present
    /\ Retarget
    /\ access' = {}
    /\ kubeconfig' = IF kubeconfig = "here" THEN "left" ELSE kubeconfig

\* Reconcile takes the key and reads the ControlPlane ...
Get ==
    /\ step = "idle" /\ queued
    /\ queued' = FALSE
    /\ IF cp.present
         THEN /\ step' = "namespace"
              /\ snap' = [deleted |-> cp.deleted, own |-> cp.own, spec |-> spec,
                          current |-> TRUE]
         ELSE UNCHANGED <<step, snap>>
    /\ SameTarget \/ OtherTarget
    /\ UNCHANGED <<cp, spec, available, namespace>>

ensureNamespace ==
    /\ step = "namespace"
    /\ step' = "account" /\ namespace' = TRUE
    /\ UNCHANGED <<jvars, cp, spec, available, queued, snap, access, kubeconfig>>

\* targetrbac.Apply: the ServiceAccount, then the ClusterRoleBinding
ApplyAccount ==
    /\ step = "account"
    /\ step' = "binding" /\ access' = access \cup {"ServiceAccount"}
    /\ UNCHANGED <<jvars, cp, spec, available, queued, snap, namespace, kubeconfig>>

ApplyBinding ==
    /\ step = "binding"
    /\ step' = "kubeconfig" /\ access' = access \cup {"ClusterRoleBinding"}
    /\ UNCHANGED <<jvars, cp, spec, available, queued, snap, namespace, kubeconfig>>

\* The secret lives in the tenant namespace and is refused without it.  One that
\* is there is kept, whichever cluster it is for, until its token is to be
\* renewed (module Kubeconfig).
ensureKubeconfig ==
    /\ step = "kubeconfig"
    /\ IF namespace
         THEN /\ kubeconfig' \in {"here"} \cup ({kubeconfig} \ {"none"})
              /\ step' = "branch" /\ UNCHANGED <<queued, snap>>
         ELSE Return(TRUE) /\ UNCHANGED kubeconfig
    /\ UNCHANGED <<jvars, cp, spec, available, access, namespace>>

\* deleteControlPlane stops when the finalizer is gone already.  The deferred
\* status update, if it changes anything, brings the key back.
NothingToDelete ==
    /\ step = "branch" /\ snap.deleted /\ ~snap.own
    /\ \E changed \in BOOLEAN : Return(changed)
    /\ UNCHANGED <<jvars, cp, spec, available, access, namespace, kubeconfig>>

\* Variant: a refused Update is not an error.
ensureFinalizer_IgnoresConflict ==
    /\ step = "branch" /\ ~snap.deleted
    /\ \/ (snap.own \/ ~snap.current) /\ Advance("juggle")
       \/ /\ ~snap.own /\ snap.current
          /\ cp' = [cp EXCEPT !.own = TRUE]
          /\ snap' = [snap EXCEPT !.own = TRUE]
          /\ queued' = TRUE /\ step' = "juggle"
          /\ UNCHANGED <<spec, available, access, namespace, kubeconfig>>
    /\ UNCHANGED jvars

\* ensureFinalizer; the Update carries the resource version of the snapshot and
\* is refused when the ControlPlane has changed since or is gone.
ensureFinalizer ==
    /\ step = "branch" /\ ~snap.deleted
    /\ \/ snap.own /\ Advance("juggle")
       \/ /\ ~snap.own /\ snap.current
          /\ cp' = [cp EXCEPT !.own = TRUE]
          /\ snap' = [snap EXCEPT !.own = TRUE]
          /\ queued' = TRUE /\ step' = "juggle"
          /\ UNCHANGED <<spec, available, access, namespace, kubeconfig>>
       \/ /\ ~snap.own /\ ~snap.current
          /\ Return(TRUE)
          /\ UNCHANGED <<cp, spec, available, access, namespace, kubeconfig>>
    /\ UNCHANGED jvars

\* Variant: flux loses its access before the components are deleted.
DeleteComponents_AccessFirst ==
    /\ step = "branch" /\ snap.deleted /\ snap.own
    /\ Advance("unbind")
    /\ UNCHANGED jvars

DeleteComponents ==
    /\ step = "branch" /\ snap.deleted /\ snap.own
    /\ Advance("juggle")
    /\ UNCHANGED jvars

\* Variant: components that are not enabled are not registered.
ListedIn_EnabledOnly(s) == IF s.deleted THEN {} ELSE Base \cup s.spec

\* Variant: policies are only enabled together with some chart.
EnabledIn_PolicyWithChart(s) ==
    IF s.deleted \/ s.spec \cap FluxType = {} THEN {}
    ELSE Base \cup available \cup (s.spec \cap FluxType)
         \cup {c \in s.spec \cap Nested : Dependencies[c] \subseteq s.spec}

\* Variant: every provider counts as enabled when Crossplane is.
EnabledIn_AllProviders(s) ==
    IF s.deleted THEN {}
    ELSE Base \cup available \cup (s.spec \cap FluxType)
         \cup {c \in Nested : Dependencies[c] \subseteq s.spec}

\* What newJuggler registers.  deleteControlPlaneComponents empties the
\* ComponentsConfig first, so that no provider is listed and no chart enabled.
ListedIn(s) == (Component \ Detected) \cup available
               \cup (IF s.deleted THEN {} ELSE s.spec \cap Nested)
EnabledIn(s) ==
    IF s.deleted THEN {}
    ELSE Base \cup available \cup (s.spec \cap FluxType)
         \cup {c \in s.spec \cap Nested : Dependencies[c] \subseteq s.spec}

newJuggler ==
    /\ step = "juggle"
    /\ StartPass(ListedIn(snap), EnabledIn(snap))
    /\ snap' = [snap EXCEPT !.spec = {}]      \* not read again
    /\ UNCHANGED <<cp, spec, available, queued, step, access, namespace, kubeconfig>>

Juggle ==
    /\ step = "juggle"
    /\ Reconciling
    /\ UNCHANGED outer

\* updateControlPlaneComponents has its results: conditions, next period.
Updated ==
    /\ step = "juggle" /\ EndPass
    /\ ~snap.deleted
    /\ Return(TRUE)
    /\ UNCHANGED <<cp, spec, available, access, namespace, kubeconfig>>

\* Variant: no RequeueAfter while components remain.
ComponentsDeleted_NoRequeue ==
    /\ step = "juggle" /\ EndPass
    /\ snap.deleted
    /\ IF AllDisabled THEN Advance("unbind")
       ELSE Return(FALSE) /\ UNCHANGED <<cp, spec, available, access, namespace, kubeconfig>>

\* Variant: the finalizer is removed before flux's access.
ComponentsDeleted_ReleaseFirst ==
    /\ step = "juggle" /\ EndPass
    /\ snap.deleted
    /\ IF AllDisabled THEN Advance("release")
       ELSE Return(TRUE) /\ UNCHANGED <<cp, spec, available, access, namespace, kubeconfig>>

\* deleteControlPlaneComponents: errComponentRemaining unless all are Disabled.
ComponentsDeleted ==
    /\ step = "juggle" /\ EndPass
    /\ snap.deleted
    /\ IF AllDisabled THEN Advance("unbind")
       ELSE Return(TRUE) /\ UNCHANGED <<cp, spec, available, access, namespace, kubeconfig>>

\* targetrbac.Delete: the ClusterRoleBindings, then the ServiceAccounts
DeleteBindings ==
    /\ step = "unbind"
    /\ step' = "unaccount" /\ access' = access \ {"ClusterRoleBinding"}
    /\ UNCHANGED <<jvars, cp, spec, available, queued, snap, namespace, kubeconfig>>

DeleteAccounts ==
    /\ step = "unaccount"
    /\ step' = "release" /\ access' = access \ {"ServiceAccount"}
    /\ UNCHANGED <<jvars, cp, spec, available, queued, snap, namespace, kubeconfig>>

\* A ControlPlane without finalizers that is being deleted disappears.
Stored(c) == IF c.deleted /\ ~c.own /\ ~c.other THEN NoControlPlane ELSE c

removeFinalizer ==
    /\ step = "release"
    /\ IF snap.current
         THEN /\ cp' = Stored([cp EXCEPT !.own = FALSE])
              /\ Return(TRUE)
         ELSE Return(TRUE) /\ UNCHANGED cp
    /\ UNCHANGED <<jvars, spec, available, access, namespace, kubeconfig>>

\* Any other call of Reconcile may fail: the error brings the key back.
ReconcileFails ==
    /\ ~calm /\ step # "idle" /\ pc = "idle"
    /\ Return(TRUE)
    /\ UNCHANGED <<jvars, cp, spec, available, access, namespace, kubeconfig>>

\* The process dies; the new one lists all ControlPlanes.
Restart ==
    /\ Crash
    /\ step' = "idle" /\ snap' = NoSnapshot /\ queued' = cp.present
    /\ UNCHANGED <<cp, spec, available, access, namespace, kubeconfig>>

----------------------------------------------------------------------------
(* The environment.                                                         *)

\* A write to the ControlPlane: the watch queues its key and the snapshot of a
\* running Reconcile is no longer current.
Written == queued' = TRUE /\ snap' = [snap EXCEPT !.current = FALSE]

\* A ControlPlane comes back under its name once the namespace of its
\* predecessor has been collected, and starts on the cluster of that one.
UserCreates ==
    /\ ~calm /\ ~cp.present /\ ~namespace
    /\ spec' \in SUBSET Choice
    /\ cp' = [NoControlPlane EXCEPT !.present = TRUE]
    /\ Written
    /\ UNCHANGED <<jvars, available, step, access, namespace, kubeconfig>>

\* Any write of somebody else: to the components, to spec.target, which Get
\* looks at, or to what no pass reads.  Of the spec of a deleted ControlPlane
\* only the target is read.
UserEditsSpec ==
    /\ ~calm /\ cp.present
    /\ spec' \in IF cp.deleted THEN {{}} ELSE SUBSET Choice
    /\ Written
    /\ UNCHANGED <<jvars, cp, available, step, access, namespace, kubeconfig>>

\* The finalizer of another controller may be on the ControlPlane by then.
UserDeletesControlPlane ==
    /\ ~calm /\ cp.present /\ ~cp.deleted
    /\ \E o \in BOOLEAN : cp' = Stored([cp EXCEPT !.deleted = TRUE, !.other = o])
    /\ spec' = {}
    /\ Written
    /\ UNCHANGED <<jvars, available, step, access, namespace, kubeconfig>>

OtherFinalizerRemoved ==
    /\ cp.present /\ cp.deleted /\ cp.other
    /\ cp' = Stored([cp EXCEPT !.other = FALSE])
    /\ Written
    /\ UNCHANGED <<jvars, spec, available, step, access, namespace, kubeconfig>>

PullSecretToggled(c) ==
    /\ ~calm
    /\ available' = IF c \in available THEN available \ {c} ELSE available \cup {c}
    /\ UNCHANGED <<jvars, cp, spec, queued, step, snap, access, namespace, kubeconfig>>

\* The namespace is owned by the ControlPlane and collected after it.
NamespaceCollected ==
    /\ ~cp.present /\ namespace
    /\ \A c \in FluxType : store[c] = "absent" /\ source[c] = "absent"
    /\ namespace' = FALSE /\ kubeconfig' = "none"
    /\ UNCHANGED <<jvars, cp, spec, available, queued, step, snap, access>>

\* Flux uninstalls a release with the kubeconfig of its ServiceAccount: without
\* access to the cluster it opens the HelmRelease keeps its finalizer.  Nobody
\* takes flux's access to a cluster that has been left.
CanUninstall == kubeconfig = "left" \/ (kubeconfig = "here" /\ access = Access)
ClusterStep ==
    /\ \/ \E c \in FluxType : Terminated(c) /\ CanUninstall
       \/ \E c \in Component \ FluxType : Terminated(c)
       \/ \E c \in FluxType : SourceTerminated(c) \/ SyncCache(c)
    /\ UNCHANGED outer

TargetUsers == Users /\ UNCHANGED outer

\* Nothing is left to do for a ControlPlane that is gone, for good.
Rest == calm /\ ~cp.present /\ ~queued /\ step = "idle" /\ UNCHANGED vars

----------------------------------------------------------------------------
Reconcile ==
    \/ Get \/ ensureNamespace \/ ApplyAccount \/ ApplyBinding \/ ensureKubeconfig
    \/ NothingToDelete \/ ensureFinalizer \/ DeleteComponents \/ newJuggler \/ Juggle
    \/ Updated \/ ComponentsDeleted \/ DeleteBindings \/ DeleteAccounts
    \/ removeFinalizer \/ ReconcileFails

Environment ==
    \/ Restart \/ UserCreates \/ UserEditsSpec
    \/ UserDeletesControlPlane \/ OtherFinalizerRemoved \/ NamespaceCollected \/ ClusterStep \/ TargetUsers \/ Rest
    \/ \E c \in Copied : PullSecretToggled(c)

Next == Reconcile \/ Environment

\* The controller's workers never starve a queued key, and the finalizers of
\* deleted resources complete once their controllers can work.
Fairness ==
    /\ WF_vars(Reconcile)
    /\ \A c \in Component : WF_vars(ClusterStep /\ store'[c] # store[c])
    /\ \A c \in FluxType : WF_vars(ClusterStep /\ source'[c] # source[c])

Spec == Init /\ [][Next]_vars
FairSpec == Spec /\ Fairness

----------------------------------------------------------------------------
(* Properties.                                                              *)

\* Every variable of Reconcile stays within its type, and so does the engine's.
ReconcilerTypeOK ==
    /\ cp \in ControlPlanes /\ snap \in Snapshots
    /\ spec \subseteq Choice /\ available \subseteq Copied
    /\ queued \in BOOLEAN /\ step \in Steps
    /\ access \subseteq Access
    /\ namespace \in BOOLEAN /\ kubeconfig \in {"none", "here", "left"}
ControlPlaneTypeOK == TypeOK /\ ReconcilerTypeOK

Remains(c) == store[c] # "absent" \/ source[c] # "absent"

\* A resource of a component that is not kept and not read through a lagging
\* cache exists, on the operator's cluster or on the target cluster the passes
\* work on, only while the ControlPlane exists and carries the operator's
\* finalizer, whichever calls fail and whatever users do, unless they have
\* taken the labels off it.  It says nothing of a cluster that an edit of
\* spec.target has left behind: no pass looks there again.
NothingLeaks ==
    \A c \in Component \ Keep :
        Remains(c) /\ ~Lags(c) => (cp.present /\ cp.own) \/ c \in unlabelled

\* As long as a HelmRelease exists, terminating ones included, flux has what it
\* needs to install and uninstall it: a kubeconfig in the tenant namespace and
\* access to the cluster that this kubeconfig opens.
ReleasesAreServed ==
    \A c \in FluxType : store[c] # "absent" => CanUninstall /\ namespace

\* A provider that is not being deleted runs under its admission policies for
\* as long as the ControlPlane is not deleted, unless the users took its labels
\* off: then it may have survived an earlier ControlPlane and its policies.
ProvidersArePoliced ==
    ~cp.deleted =>
        \A c \in Component : store[c] = "live" => GatesOpen(c) \/ c \in unlabelled

\* The finalizer is the last thing to go: the step that removes it finds no
\* access of flux to the target cluster of its pass any more.
FinalizerGoesLast == [][cp.own /\ ~cp'.own => access = {}]_vars

\* A deleted ControlPlane is released once users leave it alone and no resource
\* of theirs blocks the uninstallation of a component.  One of the operator's
\* own that they took the labels off blocks it like theirs: the hook finds it,
\* the detector does not.
DeletionCompletes ==
    (/\ calm /\ cp.deleted /\ foreign = {}
     /\ \A c \in FluxType : Guards[c] \cap unlabelled = {}) ~> ~cp.own

\* Once users leave the system alone, the clusters converge to the spec and
\* stay there: what is enabled together with its dependencies is live and has
\* its desired content unless it is annotated, what is not enabled is gone
\* unless it is kept, blocked, annotated or lost to the operator: not listed
\* and without labels.
Listed == ListedIn([deleted |-> cp.deleted, spec |-> spec])
Enabled == EnabledIn([deleted |-> cp.deleted, spec |-> spec])
Lost == unlabelled \ Listed
Settled ==
    /\ \A c \in Enabled : Dependencies[c] \subseteq Enabled =>
          store[c] = "live" /\ (c \in FluxType => source[c] = "live")
    /\ \A c \in Component \ (Enabled \cup Keep) :
          Remains(c) => Blocked(c) \/ c \in skipped \cup Lost
    /\ drifted \subseteq skipped \cup Lost
Converges == (calm /\ cp.present) ~> [](cp.present /\ ~cp.deleted => Settled)

\* Reconcile drives the component engine as Juggler allows, so that what is
\* proved of the engine holds here.
EngineSpec == JSpec

=============================================================================
