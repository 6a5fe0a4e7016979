------------------------------ MODULE Juggler ------------------------------
(***************************************************************************)
(* The component engine of the operator (pkg/juggler): one pass walks the  *)
(* registered components in order, observes each one in its cluster and    *)
(* installs, updates or uninstalls it, one API call per step.  The steps   *)
(* of a pass interleave with the environment: finalizers that complete,    *)
(* users who annotate, edit or delete objects, an informer cache that      *)
(* lags, API calls that fail and the operator process that crashes.        *)
(***************************************************************************)
EXTENDS Naturals

CONSTANTS
    Component,      \* the components that can be registered, by object name
    FluxType,       \* those whose type the FluxReconciler knows
    ObjectType,     \* those whose type the ObjectReconciler knows
    Dependencies,   \* c -> the components GetDependencies() names
    Guarded,        \* those whose PreUninstall hook looks for remaining resources
    Guards,         \* c -> the components among the resources that hook looks for
    Gates,          \* c -> the components c's PreInstall/PreUpdate hook requires
    Keep,           \* those with KeepOnUninstall() = true
    Detected,       \* those whose type has an orphan detector
    Versioned,      \* those whose IsInstallable asks a release channel
    Touched,        \* objects that users annotate, edit or delete themselves
    Rank,           \* c -> its place in the registration order
    StaleReads,     \* does the cached client of the flux reconciler lag?
    MayCalm         \* may faults, crashes and users stop for good?

ASSUME TypesAssumption ==
    /\ FluxType \subseteq Component
    /\ ObjectType \subseteq Component
    /\ Guarded \subseteq FluxType \ ObjectType
    /\ Keep \subseteq Component
    /\ Detected \subseteq ObjectType \ FluxType
    /\ Versioned \subseteq Component
    /\ Touched \subseteq ObjectType \ FluxType
    /\ Rank \in [Component -> Nat]
    /\ StaleReads \in BOOLEAN /\ MayCalm \in BOOLEAN
ASSUME HooksAssumption ==
    /\ Dependencies \in [Component -> SUBSET Component]
    /\ Guards \in [Component -> SUBSET Component]
    /\ Gates \in [Component -> SUBSET Component]
\* The admission policies that gate a provider are out of reach of the users
\* of the target cluster: their roles cover the components' own API groups.
ASSUME GatesAssumption == \A c \in Component : Gates[c] \cap Touched = {}
\* The resources a hook looks for are objects on the target cluster.
ASSUME GuardsAssumption == \A c \in Component : Guards[c] \cap FluxType = {}

VARIABLES
    \* ---- the operator's cluster and the target cluster of the passes
    store,      \* the object (flux: the HelmRelease) of each component
    source,     \* the flux source of each component ("absent" if not flux)
    cache,      \* what the informer cache shows of the two
    foreign,    \* flux components some guarded resource of a user exists for
    skipped,    \* objects that carry the skip-reconciliation annotation
    drifted,    \* objects whose content differs from the desired content
    unlabelled, \* those of them that lack the labels the operator finds its own by
    calm,       \* faults, crashes and users have stopped for good
    \* ---- the pass, in the memory of the operator
    listed,     \* components registered from the spec
    orphans,    \* components registered by the orphan detectors
    on,         \* the registered components that are enabled
    todo,       \* registered components the loop has not reached
    cur,        \* the component being reconciled
    pc,         \* the next API call of reconcileComponent
    exists,     \* did the last Observe find a resource of cur?
    result,     \* the ComponentResult of cur: is it Installed?
    disabled    \* the components whose result of this pass is Disabled

world == <<store, source, cache, foreign, skipped, drifted, unlabelled>>
pass  == <<listed, orphans, on, todo, cur, pc, exists, result, disabled>>
jvars == <<store, source, cache, foreign, skipped, drifted, unlabelled, calm,
           listed, orphans, on, todo, cur, pc, exists, result, disabled>>

Nobody == "nobody"      \* no component is being reconciled
ASSUME NobodyAssumption == Nobody \notin Component

Phase  == {"absent", "live", "terminating"}
Verdict == {"installable", "notAllowed", "versionNotFound", "error"}
Step == {"idle", "next", "observe", "preUninstall", "deleteSource", "delete",
         "installable", "preApply", "applySource", "apply", "reobserve"}

Observation == [exists : BOOLEAN, healthy : BOOLEAN]

----------------------------------------------------------------------------
(* Reads.  The flux reconciler observes through mgr.GetClient(), which is   *)
(* cached; the object reconciler and all hooks use the uncached client of   *)
(* the target cluster.                                                      *)

Lags(c) == StaleReads /\ c \in FluxType
CachedStore(c)  == IF Lags(c) THEN cache[c].store ELSE store[c]
CachedSource(c) == IF Lags(c) THEN cache[c].source ELSE source[c]

Registered == listed \cup orphans

\* juggler.go findReconcilerFor: exactly one reconciler knows the type.
HasReconciler(c) == (c \in FluxType) # (c \in ObjectType)

\* juggler.go checkDependencies: registered and enabled, nothing more.
checkDependencies(c) == \A d \in Dependencies[c] : d \in Registered /\ d \in on

\* Variant: terminating resources are overlooked.
Blocked_LiveOnly(c) == c \in foreign \/ \E g \in Guards[c] : store[g] = "live"

\* hooks/orphans.go checkForResources: any object of a guarded kind, whether
\* the operator or a user created it.
Blocked(c) == c \in foreign \/ \E g \in Guards[c] : store[g] # "absent"

\* Variant: a terminating policy counts as installed.
GatesOpen_Exists(c) == \A g \in Gates[c] : store[g] # "absent"

\* crossplane/policies.go CheckIfPolicyIsInstalled: there and not terminating.  A
\* policy whose status still lags behind is a failing hook (CallFails).
GatesOpen(c) == \A g \in Gates[c] : store[g] = "live"

\* Registration order; orphans are appended after the listed components, in
\* the order in which the API server lists them.
Before(c, d) == \/ c \in listed /\ d \notin listed
                \/ c \in listed /\ d \in listed /\ Rank[c] < Rank[d]

\* object_reconciler.go DetectOrphanedComponents: the objects that exist, carry
\* the managed-by and component labels the List call selects, and that no
\* configured component stands for.
OrphansOf(L) == {c \in Detected \ L : store[c] # "absent" /\ c \notin unlabelled}

----------------------------------------------------------------------------
JInit ==
    /\ store = [c \in Component |-> "absent"]
    /\ source = [c \in Component |-> "absent"]
    /\ cache = [c \in FluxType |-> [store |-> "absent", source |-> "absent"]]
    /\ foreign = {} /\ skipped = {} /\ drifted = {} /\ unlabelled = {}
    /\ calm = FALSE
    /\ listed = {} /\ orphans = {} /\ on = {} /\ todo = {}
    /\ cur = Nobody /\ pc = "idle" /\ exists = FALSE
    /\ result = "none" /\ disabled = {}

\* newJuggler registers the components of the spec and then the orphans,
\* which are always disabled.
StartPass(L, E) ==
    /\ pc = "idle"
    /\ listed' = L /\ orphans' = OrphansOf(L) /\ on' = E
    /\ todo' = L \cup OrphansOf(L)
    /\ pc' = "next"
    /\ UNCHANGED <<world, calm, cur, exists, result, disabled>>

\* The result of cur is recorded and the loop goes on.  Of the earlier results
\* only who is Disabled is told apart later, of the last one whether it is
\* Installed.
Finish(status) ==
    /\ pc' = "next" /\ exists' = FALSE
    /\ result' = IF status = "Installed" THEN status ELSE "none"
    /\ disabled' = IF status = "Disabled" THEN disabled \cup {cur} ELSE disabled
    /\ UNCHANGED <<listed, orphans, on, todo, cur>>

\* Of an observation only the existence is asked for again later.
GotoWith(next, found) ==
    /\ pc' = next /\ exists' = found
    /\ UNCHANGED <<listed, orphans, on, todo, cur, result, disabled>>
Goto(next) == GotoWith(next, exists)

\* Juggler.Reconcile takes the next component and findReconcilerFor it.
Pick(c) ==
    /\ pc = "next" /\ c \in todo
    /\ \A d \in todo \ {c} : ~Before(d, c)
    /\ todo' = todo \ {c}
    /\ cur' = c /\ exists' = FALSE /\ result' = "none"
    /\ pc' = IF HasReconciler(c) THEN "observe" ELSE "next"     \* ReconcilerNotFound
    /\ UNCHANGED <<world, calm, listed, orphans, on, disabled>>

\* Variant: the source is not looked at.
FluxObservations_ReleaseOnly(c) ==
    {o \in Observation : o.exists = (CachedStore(c) # "absent")}

\* Does one of the Get calls of a flux component fail?
MayFail == IF calm THEN {FALSE} ELSE BOOLEAN

\* What one Observe call can return.  A flux component exists when its source
\* or its HelmRelease does; a Get that fails with anything but NotFound counts
\* as an existing, unhealthy resource, and so does a missing half.
FluxObservations(c) ==
    {o \in Observation : \E failed \in MayFail :
        /\ o.exists = (failed \/ CachedSource(c) # "absent" \/ CachedStore(c) # "absent")
        /\ o.healthy => ~failed /\ CachedSource(c) # "absent" /\ CachedStore(c) # "absent"}

ObjectObservations(c) ==
    {o \in Observation : /\ o.exists = (store[c] # "absent")
                         /\ o.healthy => o.exists}

Observations(c) == IF c \in FluxType THEN FluxObservations(c) ELSE ObjectObservations(c)

\* Variant: KeepOnUninstall is not asked.
Observe_NoKeep ==
    /\ pc = "observe"
    /\ \E o \in Observations(cur) :
        IF cur \in on THEN GotoWith("installable", o.exists)
        ELSE IF ~o.exists THEN Finish("Disabled")
        ELSE GotoWith("preUninstall", o.exists)
    /\ UNCHANGED <<world, calm>>

\* reconciler.Observe and the branches on its answer: uninstall, keep,
\* disabled, or on to the installation.
Observe ==
    /\ pc = "observe"
    /\ \E o \in Observations(cur) :
        IF cur \in on THEN GotoWith("installable", o.exists)
        ELSE IF ~o.exists THEN Finish("Disabled")
        ELSE IF cur \in Keep THEN Finish("Uninstalled")
        ELSE GotoWith("preUninstall", o.exists)
    /\ UNCHANGED <<world, calm>>

\* The PreUninstall hook; it fails while guarded resources remain.
PreUninstall ==
    /\ pc = "preUninstall"
    /\ IF Blocked(cur) THEN Finish("UninstallFailed")
       ELSE Goto(IF cur \in FluxType THEN "deleteSource" ELSE "delete")
    /\ UNCHANGED <<world, calm>>

\* A DELETE call marks a live object; NotFound is ignored.  As with every
\* write, the answer may get lost after the write has taken effect.
Deleted(phase) == IF phase = "live" THEN "terminating" ELSE phase

\* FluxReconciler.Uninstall deletes the source first ...
DeleteSource ==
    /\ pc = "deleteSource"
    /\ source' = [source EXCEPT ![cur] = Deleted(source[cur])]
    /\ Goto("delete") \/ (~calm /\ Finish("UninstallFailed"))
    /\ UNCHANGED <<store, cache, foreign, skipped, drifted, unlabelled, calm>>

\* ... and then the HelmRelease; ObjectReconciler.Uninstall deletes the object,
\* whether or not it carries the skip annotation.
Delete ==
    /\ pc = "delete"
    /\ store' = [store EXCEPT ![cur] = Deleted(store[cur])]
    /\ Finish("Uninstalled") \/ (~calm /\ Finish("UninstallFailed"))
    /\ UNCHANGED <<source, cache, foreign, skipped, drifted, unlabelled, calm>>

\* component.IsInstallable and checkDependencies.  Unversioned components are
\* always installable.
CheckInstallable ==
    /\ pc = "installable"
    /\ \E v \in IF cur \in Versioned /\ ~calm THEN Verdict ELSE {"installable"} :
        \/ v = "versionNotFound" /\ exists /\ Finish("Healthy")
        \/ v = "versionNotFound" /\ ~exists /\ Finish("InstallFailed")
        \/ v = "error" /\ Finish("InstallFailed")
        \/ v = "notAllowed" /\ Finish("ComponentNotAllowed")
        \/ /\ v = "installable"
           /\ IF checkDependencies(cur) THEN Goto("preApply")
              ELSE Finish("DependencyCheckFailed")
    /\ UNCHANGED <<world, calm>>

ApplyFailed == IF exists THEN "UpdateFailed" ELSE "InstallFailed"

\* Variant: no hook before an update.
PreApply_InstallOnly ==
    /\ pc = "preApply"
    /\ IF exists \/ GatesOpen(cur)
         THEN Goto(IF cur \in FluxType THEN "applySource" ELSE "apply")
         ELSE Finish(ApplyFailed)
    /\ UNCHANGED <<world, calm>>

\* The PreInstall or PreUpdate hook.
PreApply ==
    /\ pc = "preApply"
    /\ IF GatesOpen(cur) THEN Goto(IF cur \in FluxType THEN "applySource" ELSE "apply")
       ELSE Finish(ApplyFailed)
    /\ UNCHANGED <<world, calm>>

\* controllerutil.CreateOrUpdate of a resource in phase "actual" that the client
\* reads as "read": Create fails when the resource is there after all, Update of
\* a resource that has changed since fails or was not needed.
CreateOrUpdate(actual, read) == IF actual = "absent" /\ read = "absent" THEN "live" ELSE actual
CanWrite(actual, read) == actual = read
NoWriteNeeded(read) == read # "absent"

\* Variant: the error of the source is dropped.
ApplySource_IgnoresError ==
    /\ pc = "applySource"
    /\ \/ source' = [source EXCEPT ![cur] = CreateOrUpdate(source[cur], CachedSource(cur))]
       \/ ~calm /\ UNCHANGED source
    /\ Goto("apply")
    /\ UNCHANGED <<store, cache, foreign, skipped, drifted, unlabelled, calm>>

\* installOrUpdateSource
ApplySource ==
    /\ pc = "applySource"
    /\ source' = [source EXCEPT ![cur] = CreateOrUpdate(source[cur], CachedSource(cur))]
    /\ \/ /\ CanWrite(source[cur], CachedSource(cur)) \/ NoWriteNeeded(CachedSource(cur))
          /\ Goto("apply")
       \/ /\ ~calm \/ ~CanWrite(source[cur], CachedSource(cur))
          /\ Finish(ApplyFailed)
    /\ UNCHANGED <<store, cache, foreign, skipped, drifted, unlabelled, calm>>

\* Variant: what exists is not written again.
Restored_CreateOnly(S) == S

\* installOrUpdateManifesto and applyObject.  An annotated object is read but
\* not written; a write restores the desired content, labels included.
Restored(S) == IF cur \in skipped \/ ~CanWrite(store[cur], CachedStore(cur))
                 THEN S ELSE S \ {cur}
Apply ==
    /\ pc = "apply"
    /\ store' = [store EXCEPT ![cur] = CreateOrUpdate(store[cur], CachedStore(cur))]
    /\ drifted' = Restored(drifted) /\ unlabelled' = Restored(unlabelled)
    /\ \/ /\ CanWrite(store[cur], CachedStore(cur)) \/ NoWriteNeeded(CachedStore(cur))
          /\ IF exists THEN Goto("reobserve") ELSE Finish("Installed")
       \/ /\ ~calm \/ ~CanWrite(store[cur], CachedStore(cur))
          /\ Finish(ApplyFailed)
    /\ UNCHANGED <<source, cache, foreign, skipped, calm>>

\* The second Observe, which decides the final status.
Reobserve ==
    /\ pc = "reobserve"
    /\ \E o \in Observations(cur) :
        LET skip == cur \in skipped
        IN  Finish(IF o.healthy
                     THEN IF skip THEN "HealthyReconciliationSkipped" ELSE "Healthy"
                     ELSE IF skip THEN "UnhealthyReconciliationSkipped" ELSE "Unhealthy")
    /\ UNCHANGED <<world, calm>>

\* Any API call or hook of reconcileComponent may fail instead.
CallFails ==
    /\ ~calm
    /\ \/ pc \in {"observe", "reobserve"} /\ Finish("ObservationFailed")
       \/ pc \in {"preUninstall", "deleteSource", "delete"} /\ Finish("UninstallFailed")
       \/ pc \in {"preApply", "applySource", "apply"} /\ Finish(ApplyFailed)
    /\ UNCHANGED <<world, calm>>

\* Variant: the components not reached yet survive the pass.
Forget_KeepsTodo ==
    /\ listed' = {} /\ orphans' = {} /\ on' = {} /\ todo' = todo
    /\ cur' = Nobody /\ pc' = "idle" /\ exists' = FALSE
    /\ result' = "none" /\ disabled' = {}

Forget ==
    /\ listed' = {} /\ orphans' = {} /\ on' = {} /\ todo' = {}
    /\ cur' = Nobody /\ pc' = "idle" /\ exists' = FALSE
    /\ result' = "none" /\ disabled' = {}

\* The results are turned into conditions and the juggler is dropped.
PassDone == pc = "next" /\ todo = {}
EndPass == PassDone /\ Forget /\ UNCHANGED <<world, calm>>

\* The operator process dies; the new one starts with a fresh cache.
Crash ==
    /\ ~calm
    /\ Forget
    /\ cache' = IF StaleReads
                  THEN [c \in FluxType |-> [store |-> store[c], source |-> source[c]]]
                  ELSE cache
    /\ UNCHANGED <<store, source, foreign, skipped, drifted, unlabelled, calm>>

----------------------------------------------------------------------------
(* The environment.                                                         *)

\* The finalizers of a deleted resource complete and it disappears.
Terminated(c) ==
    /\ store[c] = "terminating"
    /\ store' = [store EXCEPT ![c] = "absent"]
    /\ skipped' = skipped \ {c} /\ drifted' = drifted \ {c}
    /\ unlabelled' = unlabelled \ {c}
    /\ UNCHANGED <<source, cache, foreign, calm, pass>>

SourceTerminated(c) ==
    /\ source[c] = "terminating"
    /\ source' = [source EXCEPT ![c] = "absent"]
    /\ UNCHANGED <<store, cache, foreign, skipped, drifted, unlabelled, calm, pass>>

\* The watch delivers the current state of c's resources to the cache.
SyncCache(c) ==
    /\ StaleReads
    /\ cache[c] # [store |-> store[c], source |-> source[c]]
    /\ cache' = [cache EXCEPT ![c] = [store |-> store[c], source |-> source[c]]]
    /\ UNCHANGED <<store, source, foreign, skipped, drifted, unlabelled, calm, pass>>

UserAnnotates(c) ==
    /\ ~calm /\ store[c] # "absent"
    /\ skipped' = IF c \in skipped THEN skipped \ {c} ELSE skipped \cup {c}
    /\ UNCHANGED <<store, source, cache, foreign, drifted, unlabelled, calm, pass>>

UserEdits(c) ==
    /\ ~calm /\ store[c] # "absent" /\ c \notin drifted
    /\ drifted' = drifted \cup {c}
    /\ UNCHANGED <<store, source, cache, foreign, skipped, unlabelled, calm, pass>>

\* Users remove labels; they do not forge them where they are missing.
UserRemovesLabels(c) ==
    /\ ~calm /\ store[c] # "absent" /\ c \notin unlabelled
    /\ drifted' = drifted \cup {c} /\ unlabelled' = unlabelled \cup {c}
    /\ UNCHANGED <<store, source, cache, foreign, skipped, calm, pass>>

UserDeletes(c) ==
    /\ ~calm /\ store[c] = "live"
    /\ store' = [store EXCEPT ![c] = "terminating"]
    /\ UNCHANGED <<source, cache, foreign, skipped, drifted, unlabelled, calm, pass>>

\* Users create and remove resources of the kinds a component's hook guards.
ToggleForeign(c) ==
    /\ ~calm
    /\ foreign' = IF c \in foreign THEN foreign \ {c} ELSE foreign \cup {c}
    /\ UNCHANGED <<store, source, cache, skipped, drifted, unlabelled, calm, pass>>

\* The spec names another target cluster from the next pass on.  Releases and
\* sources live on the operator's cluster and stay; the objects of the cluster
\* that is left are nobody's any more.  The new one is taken to be empty.
Retarget ==
    /\ pc = "idle"
    /\ store' = [c \in Component |-> IF c \in FluxType THEN store[c] ELSE "absent"]
    /\ foreign' = {} /\ skipped' = {} /\ drifted' = {} /\ unlabelled' = {}
    /\ UNCHANGED <<source, cache, calm, pass>>

CalmDown == MayCalm /\ ~calm /\ calm' = TRUE /\ UNCHANGED <<world, pass>>

----------------------------------------------------------------------------
Reconciling == \/ \E c \in Component : Pick(c)
               \/ Observe \/ PreUninstall \/ DeleteSource \/ Delete
               \/ CheckInstallable \/ PreApply \/ ApplySource \/ Apply
               \/ Reobserve \/ CallFails

Users == \/ \E c \in Touched : \/ UserAnnotates(c) \/ UserDeletes(c)
                               \/ UserEdits(c) \/ UserRemovesLabels(c)
         \/ \E c \in Guarded : ToggleForeign(c)
         \/ CalmDown

Cluster == \/ \E c \in Component : Terminated(c)
           \/ \E c \in FluxType : SourceTerminated(c) \/ SyncCache(c)

\* Any list of components that keeps the undetectable ones registered.
Registration == {L \in SUBSET Component : Component \ Detected \subseteq L}

JNext == \/ \E L \in Registration : \E E \in SUBSET L : StartPass(L, E)
         \/ Reconciling \/ EndPass \/ Crash \/ Users \/ Cluster \/ Retarget

JSpec == JInit /\ [][JNext]_jvars

----------------------------------------------------------------------------
(* Properties.                                                              *)

\* Every variable stays within its type; the sets of the pass stay within the
\* registered components.
WorldTypeOK ==
    /\ store \in [Component -> Phase]
    /\ source \in [Component -> Phase]
    /\ cache \in [FluxType -> [store : Phase, source : Phase]]
    /\ foreign \subseteq Guarded
    /\ skipped \subseteq Touched
    /\ unlabelled \subseteq drifted /\ drifted \subseteq Touched
    /\ calm \in BOOLEAN
PassTypeOK ==
    /\ listed \subseteq Component /\ orphans \subseteq Detected
    /\ on \subseteq listed /\ todo \subseteq Registered
    /\ cur \in Registered \cup {Nobody}
    /\ pc \in Step
    /\ exists \in BOOLEAN
    /\ result \in {"none", "Installed"}
    /\ disabled \subseteq Registered
TypeOK == WorldTypeOK /\ PassTypeOK

\* A component reported as Disabled has neither a HelmRelease, object nor
\* source left (controlplane_controller.go drops its condition because it "has
\* been successfully uninstalled (or has never been installed)").
DisabledMeansGone ==
    \A c \in disabled : store[c] = "absent" /\ source[c] = "absent"

\* What deleteControlPlaneComponents relies on before the finalizer goes: when
\* a pass ends with every component that is not kept Disabled, the clusters
\* hold no resource of any component that is not kept.  What the pass had not
\* registered is gone, too, unless users have taken the labels off it: then no
\* detector finds it and the pass ends as if it were not there.
AllDisabled == Registered \ Keep \subseteq disabled
CleanSweep ==
    PassDone /\ AllDisabled =>
        \A c \in Component \ Keep :
            \/ store[c] = "absent" /\ source[c] = "absent"
            \/ c \notin Registered /\ c \in unlabelled

\* A component reported as Installed by a flux reconciler is complete: both the
\* source and the HelmRelease are there, although they are written by two calls
\* that can fail one by one.
InstalledMeansComplete ==
    result = "Installed" /\ cur \in FluxType =>
        store[cur] = "live" /\ source[cur] = "live"

\* The operator never starts to tear down a release while a component that
\* needs it remains, not even one that is already terminating (the
\* PreventOrphanedResources hook).
GuardedTeardown ==
    [][\A c \in FluxType :
         \/ store[c] = "live" /\ store'[c] = "terminating"
         \/ source[c] = "live" /\ source'[c] = "terminating"
         => \A g \in Guards[c] : store[g] = "absent"]_jvars

\* A gated package (a Crossplane Provider) appears only under admission policies
\* that are in force at that very moment (CheckIfPolicyIsInstalled).
GatedInstall ==
    [][\A c \in Component :
         store[c] = "absent" /\ store'[c] # "absent" => GatesOpen(c)]_jvars

\* What is kept on uninstall never goes away once it exists, unless a user
\* deletes it: neither disabling nor deletion of the ControlPlane removes it,
\* and moving on to another target cluster leaves it where it is.
KeptForever ==
    [][~Retarget => \A c \in Keep \ Touched :
                       store[c] = "live" => store'[c] = "live"]_jvars

\* "When this annotation is present, the operator skips reconciliation for that
\* resource entirely" (README.md:148): it does not delete the object either.
AnnotatedIsLeftAlone ==
    [][pc = "delete" /\ cur \in skipped /\ pc' # pc => store'[cur] = store[cur]]_jvars

\* Seen from outside every component lives the life that Lifecycle describes,
\* although it may consist of two resources that are written, deleted and
\* finalized one by one, by calls that fail and passes that die in between:
\* it comes only while it is wanted and its gates are there, and goes only
\* while it is not wanted, not kept and everything it guards is gone, or with
\* the whole cluster it was placed on.
PhaseOf(c) ==
    IF store[c] = "absent" /\ source[c] = "absent" THEN "absent"
    ELSE IF store[c] = "live" \/ source[c] = "live" THEN "installed"
    ELSE "leaving"
Life == INSTANCE Lifecycle WITH wanted <- on, Placed <- Component \ FluxType,
                                phase <- [c \in Component |-> PhaseOf(c)]
LivesLifecycle == Life!Spec

=============================================================================
