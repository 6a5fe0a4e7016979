# A TLA+ model of the control-plane-operator

The operator watches `ControlPlane` objects on its own cluster and, for each of
them, installs a set of components (Crossplane and its providers, cert-manager,
External Secrets, Kyverno, Flux, the BTP service operator) on a target cluster:
charts through Flux resources in a tenant namespace of its own cluster, plain
objects directly. When a `ControlPlane` is deleted it takes everything back.
This directory holds a model of that behaviour, the TLC configurations that
check it on small instances, and proofs that TLAPS checks for all instances.

## 1. Inventory

| Component | State it keeps | Operations | Hard because | What makes it correct |
|---|---|---|---|---|
| Component engine, `pkg/juggler` | the registered components of one pass, in memory; everything else is read back from the clusters | register, detect orphans, `reconcileComponent` per component | the pass is a chain of API calls; each may fail, the process may die between any two, users and finalizers act in between | Disabled means gone; Installed means complete; guards and gates hold at the moment of the write; kept things stay |
| Flux reconciler, `pkg/juggler/fluxcd` | a source and a HelmRelease per chart | observe (cached), apply both, delete both | two resources, two calls, a lagging cache | no half is forgotten |
| Object reconciler, `pkg/juggler/object` | one object per component on the target cluster | observe, apply, delete, find orphans by label | users edit, annotate and delete the same objects, and remove the labels they are found by | drift is repaired unless annotated; orphans that carry their labels are found |
| Hooks, `pkg/juggler/hooks`, `pkg/controlplane/crossplane` | none | PreUninstall guard, PreInstall/PreUpdate gate | check and act are separate calls | no teardown under a guarded component, no provider without policy |
| ControlPlane reconciler, `internal/controller` | finalizer, tenant namespace, flux access, snapshot of the spec | `Reconcile`, `deleteControlPlane` | edits and deletion during a pass, a target cluster that changes, conflicts, restarts, order of the clean-up | nothing leaks; flux keeps its access as long as it needs it; deletion ends; the clusters converge |
| Secret reconciler, `internal/controller` | finalizer on the source, copies in the tenant namespaces | `handleSync`, `handleDeletion` | namespaces come and go, sources share a name, the cache lags | no copy outlives its source's finalizer; copies converge |
| Release channels and OCM lookup, `internal/ocm` | versions in `ReleaseChannel.status` | periodic listing, lookup by name and version | registries change and fail silently; one pass looks up twice, each time from the current state; charts of users bypass the look-up | what the operator picks has been offered, packages have a version; statuses and versions catch up |
| Kubeconfig and RBAC of flux | ServiceAccount, binding, token secret with expiry | apply, renew, delete | passes come late and fail, grants are cut, accounts and targets change under a token that is still young | flux never finds an expired token; a kubeconfig that fits nothing goes within a bounded time |
| Conditions and status | `status.conditions`, counters | results to conditions, merge, prune, deferred update | partial results, components that share a condition type, conflicts, lost updates, updates that wake the reconciler up | the status is the report of one pass; it comes to rest on the latest one; transition times survive |
| Manifests, adapters, API types, options, schemes, webhooks, events | none | building and comparing contents | contents only | not modelled |

How they interact: `ControlPlaneReconciler.Reconcile` prepares namespace, access
and finalizer and calls the engine; the engine calls the two reconcilers and the
hooks; the reconcilers talk to two API servers. The secret reconciler works in
the tenant namespaces that the ControlPlane reconciler creates. The engine asks
the release channels whether a version may be installed. Nothing else is shared:
one key is reconciled by one worker at a time (controller-runtime's work queue).

`PROJECT.json` lists the hazards at their source lines, with the properties that
would catch them.

## 2. Modules

| Module | Models | Notes |
|---|---|---|
| `Lifecycle` | what the engine promises: the phases of a component and what its steps depend on | abstract; `Juggler!LivesLifecycle` is the refinement |
| `Juggler` | engine, both reconcilers, hooks, orphan detection, and the two clusters around them | one action per API call of a pass |
| `Components` | the catalogue: reconciler and order of the types, and of each type a record with its dependencies, guards, gates, keep flag, version and orphan detector | constant definitions, cut down by the MC modules |
| `ControlPlane` | `ControlPlaneReconciler` around `Juggler` (EXTENDS) | finalizer, snapshot, access, namespace, queue |
| `SecretSync` | `SecretReconciler` | one worker, several sources |
| `ReleaseChannel` | `ReleaseChannelReconciler`, the listing of OCM registries, the look-ups of a pass | one chart and one package stand for the components |
| `Kubeconfig` | `ensureKubeconfig`, `ForServiceAccount` and the account, over time | one tenant, several targets |
| `Conditions` | statuses, conditions, counters and the deferred status update | the engine is a free choice of results |
| `MCJuggler`, `MCControlPlane`, `MCSecretSync`, `MCReleaseChannel`, `MCKubeconfig`, `MCConditions` | instances | |
| `JugglerProofs`, `LifecycleProofs`, `ControlPlaneProofs`, `SecretSyncProofs`, `ReleaseChannelProofs`, `KubeconfigProofs`, `ConditionsProofs` | theorems and proofs | `ControlPlaneProofs` EXTENDS the proofs of the engine |

### Juggler

`store[c]` is the object of component `c` on the target cluster or, for a chart,
its HelmRelease; `source[c]` is the flux source. Both are `absent`, `live` or
`terminating`. `cache` is what the informer shows of them: `FluxReconciler` uses
the manager's cached client, the object reconciler and the hooks an uncached one
that `Reconcile` builds. `StaleReads` turns the lag on.

A pass is `StartPass` (`newJuggler` with `RegisterOrphanedComponents`), then
`Pick` for each component in registration order and the steps of
`reconcileComponent`: `Observe`, `PreUninstall`, `DeleteSource`, `Delete` on the
way down; `CheckInstallable`, `PreApply`, `ApplySource`, `Apply`, `Reobserve` on
the way up; `EndPass`. `CallFails` makes any of these calls fail; writes may in
addition take effect and have their answer lost. `Crash` drops the pass.
`IsInstallable` is a free choice among its outcomes for versioned components.
Health is a free choice too, except where the code fixes it (a missing half or a
failed Get is unhealthy). A Get of a chart that fails with anything but NotFound
counts as an existing resource, as in the code.

Of the earlier results of a pass the model keeps only who is Disabled, of the
last one whether it is Installed, and of an observation whether something exists.

Around it, `Terminated` and `SourceTerminated` let deleted resources disappear,
`SyncCache` updates the cache, users annotate, edit and delete the objects their
cluster role covers, and create resources of the kinds the guards look for
(`foreign`). They also remove the labels by which the operator finds its own
(`UserRemovesLabels`): `OrphansOf` lists what exists *and* still carries them, as the
`List` call of `object_reconciler.go:76` does. `unlabelled` is what has lost them;
`Apply` puts them back on what is registered, enabled and not annotated. `Retarget` is
a pass that begins with another `spec.target`: charts, which live on the operator's
cluster, stay; the objects of the old cluster are out of everybody's sight, and the new
cluster is empty. `calm` is a prophecy for the liveness properties: once it is set,
users, failures and crashes have stopped.

### Lifecycle

The abstract view of the engine: a component is `absent`, `installed` or
`leaving`. It is installed only when it is wanted and its gates are there, removed
only when it is not wanted, not kept and its guards are gone; users may remove what
they can touch; a pass decides anew what is wanted; a move to another target cluster
leaves behind what stood on the old one. `Juggler` implements it with
`PhaseOf`: two resources make up one phase, `installed` while either is live. What
the mapping hides is the point: a half-written chart, an update of a terminating
release, a delete of one half are no steps of the abstract life, or exactly one.

### ControlPlane

`cp` is the object with its deletion mark, the operator's finalizer and possibly
another one; `spec` is the set of components asked for. A provider may be listed
while Crossplane itself has no version, and is then registered and disabled.
`Get` takes a snapshot; `snap.current` says whether a write that carries its
resource version would be accepted. The steps are those of `Reconcile` in their
order: namespace, ServiceAccount, binding, kubeconfig, then either finalizer and
pass, or pass over an emptied spec, RBAC removal and finalizer removal.
`ReconcileFails` returns an error at any step, `Restart` queues every existing
key. A HelmRelease can only finish its deletion while flux has its access
(`CanUninstall`); the namespace is collected after the ControlPlane is gone.

`UserEditsSpec` is any write of somebody else. The components it asks for are in `spec`;
`spec.target` has no variable, because all that a pass ever does with it is to talk to
the cluster it names: `Get` reads it, and finds the cluster of the last pass
(`SameTarget`) or another one (`OtherTarget`, while `MayMove` allows it), also when the
ControlPlane is being deleted. On the new cluster flux has no access yet, and the stored
kubeconfig opens the one that was left (`kubeconfig = "left"`). `ensureKubeconfig` keeps
it or, when its token is old enough, writes one for the new cluster; module `Kubeconfig`
says when. `store`, `access`, `skipped`, `drifted`, `unlabelled` and the kubeconfig
`"here"` always speak of the cluster of the last pass.

### SecretSync

`src` are secrets of one name in different namespaces, the worst case, because
their copies share a name. `seen` is the informer cache of secrets, one earlier
value of sources and copies together, since they are of one kind and arrive over
one watch. Equality of the snapshot with the stored secret stands for equality
of resource versions: if the secret changed and changed back, the accepted write
is the one a later read would have made.

### ReleaseChannel

`registry[c][v]` says what the registry of channel `c` has of version `v`:
nothing, an offer, a version that the listing skips (ignore label, no resources)
or one that fails it. `work` is the reconciliation that is under way: the versions
still to look up, those found, and whether the channel has changed since it was
read. `ListVersions`, `LookupVersion` and `UpdateStatus` are its calls; every error
ends in `Retry`. The key comes back after the interval and on events that
`SetupWithManager` lets through; a changed registry sends none.

A pass of a ControlPlane is cut down to the look-ups of one component. A chart
takes its version from the look-up in `BuildSourceRepository`, whose error is
ignored, and is then checked by the look-up of `IsInstallable`. If the spec contains a
chart of its own (`custom`: with a version, with none, or `"nil"`), that look-up is
made but not used (`Chart`, `kyverno_component.go:201`), while `IsInstallable` still
asks for `spec.version`. A provider is
checked first and looked up again in `ReconcileObject`, which does return the
error. The rest of the pass is `Juggler`'s business, where `IsInstallable` is a
free choice, so neither module restricts the other. `offered` and `named` are
history variables: what any registry has ever offered, and which versions users have
given to charts of their own.

### Kubeconfig

`account` is the set of targets on which flux's ServiceAccount exists, `secret` the
kubeconfig with the target it is for, the ticks its token has left and whether the
account it was issued to still lives. A pass is `Get`, `ApplyAccount`, then
`StillValid` or `NeedsToken`, `ForServiceAccount`, `Save`; between any two of them a
user may edit the target, an administrator may delete the account (and with it the
validity of its tokens) or the secret, and time may pass. The API server grants
between `Shortest` and `Lifetime`. `since` counts the ticks since a pass last got
past `ensureKubeconfig`; `Gap` is the longest such time, the period plus `Delay` for
queueing and failed passes. `quiet` counts how long the kubeconfig has not fitted
without a further disturbance.

### Conditions

`ComponentStatus` is the table of `component.go`, `Result` what the engine can
return. `Update` and `Delete` are the two ways to collect conditions, `Fails` the way
on which none are collected; the deferred `UpdateStatus` merges them into the copy of
the status that the pass has read and writes it with that copy's resource version.
Its error is only logged. Every write of the status queues the key, because the
controller watches ControlPlanes without a predicate. `report` and `written` are
history variables: what the pass has to say, and what the pass of the stored status
had to say. The conditions of a status are a set of records: they are a list in the
code, of which nothing depends on the order, and that a type occurs only once in it is
part of `StatusIsOneReport`. Components may share a type: pull secrets of one name in two
namespaces do, whose component name leaves out the namespace
(`secret_component.go:97`), and so do providers `helm` and `provider-helm`. The results
are merged by type, the last one stays (`controlplane_controller.go:174`). Secrets come in
the order of an informer cache, so the last one is any of them: `ConditionsOf` is the set
of the lists that can come out, one for each choice of `Picks`. `now` is the clock, of which only changes matter. The existence of the
object and of the finalizer are one bit (`present`).

## 3. Runs

| Run | Instance | Shows |
|---|---|---|
| `juggler_stale` | Crossplane, provider, policy; lagging cache; users touch the provider; moves | `GuardedTeardown`, `GatedInstall`, `LivesLifecycle`, types |
| `juggler_lag` | Crossplane, provider; lagging cache | violation: `DisabledMeansGone` needs exact reads |
| `juggler_annotated` | Crossplane, provider; users touch the provider | violation: an annotated provider is deleted |
| `controlplane_stack` | Crossplane, provider, policy; user resources; users touch the provider; moves | `NothingLeaks`, `ReleasesAreServed`, `ProvidersArePoliced`, `FinalizerGoesLast`, `EngineSpec`, types; of the engine `CleanSweep`, `DisabledMeansGone`, `InstalledMeansComplete` |
| `controlplane_live` | Crossplane, provider, policy; users touch the provider | `Converges`, `DeletionCompletes` |
| `controlplane_loose` | Flux, kept cluster role, pull secret; user resources; moves | `DeletionCompletes`, `KeptForever` |
| `secrets_exact` | two sources, two namespaces, one content | `CopiesAreOwned`, `SourcesAreReleased`, `CopiesConverge`, types |
| `secrets_stale` | one source, one namespace, two contents; lagging cache | `SourcesAreReleased`, `CopiesConverge` |
| `channel_live` | one channel, one version, a package and a chart; charts of users in a version that no registry has | `OnlyOffered`, `PackagesAreResolved`, `ChannelsFollow`, `VersionConverges`, types |
| `channel_unresolved` | the same; charts of users in the version of the registry or without one | violation: a chart is released without a version |
| `kubeconfig_renewal` | two targets; lifetime 12, period 1, delay 2, grants from 7 | `NeverExpired`, `MisfitIsBounded`, types |
| `conditions` | a kept cluster role and two pull secrets that share a condition type; up to four statuses each | `StatusIsOneReport`, `ReadyMeansCounted`, `TransitionTimesKept`, `StatusFollows`, `ComesToRest`, `KeptDoesNotBlock`, types |

"Users touch the provider" means that they edit, annotate and delete it and remove its
labels; "moves" that `spec.target` is edited.

`EngineSpec` is the refinement between the modules: every step of the reconciler
is a step of `Juggler`'s specification or leaves its variables alone, so that the
engine's theorems hold of it. `LivesLifecycle` is the refinement one level up:
every step of the engine is a step in the life of one component, or none.

**Bounds.** There are no counters to cap; the state spaces are finite and are
explored completely. The instances have one component for each way in which two
components can be tied together: a chart with a guard, an object with a gate and
a dependency, the gate itself, a kept object, a copied object. A second chart or
provider would add interleavings of components that no hook relates. Two sources
and two namespaces are the least with which sources overwrite each other and the
loop over namespaces can stop half way. One channel and one version are enough
for the races between listing, look-ups and edits; with more of them the liveness
properties grow out of TLC's reach, and the safety properties are proved for any
number.

`ControlPlane`: moves and users of the provider together, with the policy, are explored
for the safety properties (`controlplane_stack`), which include three of the engine: the
passes of a ControlPlane are all that the engine ever runs. For liveness that product is
too large for TLC: `controlplane_live` leaves the moves out, and `controlplane_loose` has
moves, before and during a deletion, but no component that users touch. That the clusters
converge after a move is not checked.
A move always leads to a cluster that is empty: one that was left before, with the objects
that stayed on it, is not visited again. A ControlPlane is created again only after the
namespace of its predecessor has been collected, and starts on the cluster of that one.
Users remove labels and do not forge them. `MayCalm` and `MayMove` are the only other
switches. The chart of a user in `channel_live` has a version that no registry ever has,
the case that differs most from the looked-up one; one without a version, or with one that
a registry may have, is in `channel_unresolved`, and the theorems cover any.

`Kubeconfig`: a tick stands for five minutes, so that the default lifetime of an
hour is twelve ticks and the threshold, a third of it, four; the default period of a
minute is rounded up to one. A delay of two puts the gap at three, just below the
threshold, and `Shortest` is the least grant that outlasts two gaps: the tightest
values the assumptions allow. `quiet` stops counting one above `Bound`, where
`MisfitIsBounded` is violated already. `Conditions`: three components are the least
of which two share a condition type while a third, kept one has its own, so that one
condition goes and another stays, two go at once, or one result hides the other; `Seen`
cuts the fourteen statuses down to one of each kind the code tells apart (ready, not
ready, gone, going) for one of the secrets and to two of them for the other components.
`Ticks` = 2, because the code compares no times and the properties only ask whether one
has changed.

**Fairness.** `ControlPlane`: the reconciler as a whole takes steps (a work queue
never starves a key, and one key has one worker); resources that were deleted and
whose controllers can work disappear. `SecretSync`: the worker takes steps; each
queued key is served again and again (strong fairness for `Get`, because the
queue is first in, first out while the worker is busy in between); namespaces
terminate; the cache catches up. `ReleaseChannel`: a listing and a pass that have
begun go on, every queued channel is served (strong fairness for `Get`, as above),
and a pass comes to every component again and again, because `Reconcile` returns
with `ReconcilePeriod`. `Conditions`: the worker takes steps (weak fairness of
`Reconcile`). `Kubeconfig` has safety properties only; that passes come in time is
the bound `Gap` of `Tick`. Nothing is assumed of users. The liveness
properties start from `calm`, a state in which users, failures and crashes have
stopped; before that anything may happen.

**Deadlock** is checked in every run. `Rest` is the stuttering step of a system
in which nothing is left to do for good.

## 4. What the violations show

* `juggler_lag`: `Observe` may miss a release that was created moments ago. The
  component counts as Disabled and a ControlPlane that is being deleted can lose
  its finalizer while the release exists. `controlplane_controller.go:231` reads
  Disabled as uninstalled or never installed.
* `juggler_annotated`: a provider carries the skip annotation and is no longer asked for.
  `reconcileComponent` uninstalls it like any other (`object_reconciler.go:173-188` does
  not look at the annotation), although "the operator skips reconciliation for that
  resource entirely" (`README.md:148`). `Settled`, which speaks of what the code does get
  done, promises nothing of an annotated component that is not enabled, neither that it
  stays nor that it goes.
* `channel_unresolved`: the first look-up of a pass fails and its error is dropped
  (`kyverno_component.go:199`, and alike in the other charts). The channel gets the
  version, `IsInstallable` finds it, and the HelmRelease is written with the empty
  version of the first look-up, which stands for the latest chart, although no chart
  without a version is in the spec, and the spec names "The Version of Kyverno to install" (`kyverno_component_types.go:7`).
  `VersionConverges` shows that a later pass repairs it.

## 5. Proofs

`JugglerProofs` (for all components, catalogues and flags that satisfy the
assumptions of `Juggler`):

* `TypeCorrect`. `TypeOK` is not inductive: an action at `pc` uses `cur`, so the
  invariant adds that a component is being reconciled exactly at the steps that
  need one, and of the right type (`CurrentOK`), and that an idle engine holds
  nothing (`IdleOK`).
* `TeardownIsGuarded`, `InstallIsGated`, `KeptStays`, on any cache. The checks
  and the writes they protect are separate steps. `HookInv` says that what a hook
  has found still holds when the write comes: the guarded components are absent
  because only the pass itself creates components and it is busy; the gates are
  live because users cannot touch them (`GatesAssumption`) and the pass deletes
  nothing at that point. `Creation` and `Destruction` list the only steps that
  create or tear down.
* `DisabledIsGone` and `SweepIsClean`, assuming exact reads. `SweepInv` says that
  a Disabled component is not enabled and absent, and that a component the pass
  has not registered is absent or unlabelled, because a detector would have found
  it (`AbsentInv`); the pass creates only what is enabled. Labels come back only when
  the component is applied or the object goes (`LabelsReturn`). It is proved for any
  cache, of the components that do not lag in it (`SweepInvariant`);
  `ControlPlaneProofs` needs that form. The exception cannot be dropped: without
  `UserRemovesLabels` both would hold without it, with it TLC finds the unlabelled
  provider that an all-Disabled pass leaves behind.
* `InstalledIsComplete`, assuming exact reads. `HalvesInv` follows the two halves
  of a chart that was found absent: none before `ApplySource`, then the source
  only, because nobody but the pass creates either. A pass that reports Installed
  has therefore written both, although an error or a crash between the two calls
  can leave one behind for a later pass, which then updates.

`LifecycleProofs`: `EngineLivesLifecycle`, for any catalogue and on any cache. Each
step of the engine is mapped to the step of the abstract life it is (`RemoveImage`,
`InstallImage`, `GoneImage`, `UserImage`, `DecideImage`, and `MoveImage` for a move to
another cluster); but for a move, at most one component changes its phase (`OneLife`). The mapping needs to know that a pass which deletes
has found the component disabled (`AimInv`), that one which installs has found it
enabled (`EnabledInv`), that only charts have a source (`SourceInv`), and that what
the hooks have found still holds (`HookInv`).

`ControlPlaneProofs`, for all components and catalogues that satisfy the assumptions of
`Juggler` and `ControlPlane`, whatever users ask for, whenever they delete and wherever they move to:

* `EngineRefined`: each action of the reconciler is mapped to the action of `Juggler` it
  takes or to a stutter (`EngineStep`). `newJuggler` needs the types of the snapshot, so
  that what it registers is a registration (`Lists`). With it every theorem about the
  engine holds of its use here: `EngineKeepsItsPromises`, `ReportsAreTrue`, and the
  engine's half of `ReconcilerTypes`.
* `FinalizerIsLast`, `NothingIsLeaked`, `ProvidersPoliced`, on any cache. `SnapInv` says
  what a snapshot is still good for while users write: a finalizer that was seen or set
  stays, a deletion that was seen is not undone, and a resource version that is still
  accepted means that finalizer and mark are as they were read. `PlaceInv` puts the
  engine and the clean-up under the finalizer, and the clean-up under the deletion.
  `GoneAtTearDown` carries the clean sweep of the last pass over to the removal of the
  finalizer: in between no pass runs, and only passes create. What `NothingIsLeaked`
  says of the target cluster it says of the one the passes work on, and of what has
  its labels: an unlabelled provider does survive, and so does all that stands on a
  cluster that a move has left.
* `ProvidersPoliced` adds that a pass for a ControlPlane that is not deleted enables all
  policies (`BaseInv`), so that only the pass of a deletion deletes one; and a new
  ControlPlane starts without labelled providers, because of `NothingLeaks` and
  `GoneAtTearDown`. A provider gets its labels back in `Apply`, which its gates precede;
  a move takes providers and policies away together.
* `ReleasesServed`, assuming exact reads. `PrepInv` says that access, kubeconfig and
  namespace are still there when the engine runs, although a restart may begin another
  pass with none of them prepared. Only the clean-up takes the access away, when no
  release is left (`AccessKept`); a kubeconfig that was left with its cluster goes on
  opening that one, where nobody takes flux's access, and a new one is written after
  the access on the new cluster.

The assumptions of `ControlPlane` are facts of the catalogue: what is kept is always
registered and no chart (`KeptAssumption`: cluster roles and CRDs), and only what needs
another component is gated, by policies that are always registered
(`PoliciesAssumption`: providers and their runtime configurations).

`ConditionsProofs`, for any finite set of components, any results of the engine and any
interleaving with users and restarts: `StatusTypes`, `StoredIsOneReport`,
`ReadyIsCounted`, `TimesAreKept`. First what `UpdateConditions` returns for any two sets
of conditions (`UpdateIsReport`, `UpdateKeepsTimes`). The invariant `StatusInv` then adds
that what a pass has collected is a report, with one condition for each type it has to
report, whichever of the components of that type it is from, and that only a pass which
has counted collects Ready (`CollectInv`); and that the conditions in
the memory of a pass are the stored ones as long as its update can be accepted
(`CopyInv`), without which the times of an outdated copy could be merged in.

`KubeconfigProofs`, for any targets and all durations with a gap below the threshold
and grants above two gaps:

* `TokensNeverExpire`. `RenewalInv`: what is stored, and the time since a pass got
  past `ensureKubeconfig`, together exceed a gap; a token that is generated and not
  stored yet exceeds two, since it may be stored at the end of this gap and has to
  last through the next one.
* `MisfitsAreReplaced`. A pass can only store a kubeconfig that does not fit if it was
  disturbed after its start (`PassInv`); from then on the token only ages, and a pass
  that keeps it has seen the threshold left (`MisfitInv`).

`SecretSyncProofs`, for any number of sources and namespaces: `SecretTypes`, on any
cache, and `CopiesNeverOutliveTheirSource`, assuming exact reads. `CopiesAreOwned` becomes inductive with
what the worker knows at each step: it holds the finalizer while it writes
copies, and has seen no copy, which nobody else creates, when it drops it.

The assumption of exact reads is needed: `juggler_lag` is the counterexample for
the engine. For the copies, `MCSecretSync` with `StaleReads = TRUE` yields one too: a
source that loses its label while its copies are being written can be released
before the cache shows the last copy, which then stays.

`ReleaseChannelProofs`, for any channels and versions: `TypeCorrect`,
`OnlyOfferedIsInstalled`, `PackagesHaveVersions`. What is installed comes from a
look-up, that from a status, that from the listing of the worker, and that from the
registry at the time of the listing. `OnlyOffered` becomes inductive when every
station of this way, the config of the pass included, holds only versions that
have been offered (`RegistryOK`, `WorkOK`, `ChannelOK`, `PassOK`), or that users have
named in a chart of theirs, which reach the config of the pass without a look-up; both
histories only grow, so no change of a registry or of the spec can disturb it.

Only model-checked: the liveness properties (`DeletionCompletes`, `Converges`,
`SourcesAreReleased`, `CopiesConverge`, `ChannelsFollow`, `VersionConverges`,
`ComesToRest`, `StatusFollows`, `KeptDoesNotBlock`), since fairness and ENABLED are out
of the prover's reach. Every other property of a passing run is the conclusion of a
theorem.

## 6. Assumptions and omissions

* The read of the ControlPlane itself is fresh. A stale one is refused at its
  first write, but a pass that needs no write to it would work on an old spec.
* One replica. Leader election is off by default; two replicas are not modelled.
* Finalizers of third parties complete once their controllers have access.
* Users of the target cluster cannot touch the admission policies: their roles
  cover the API groups of the components.
* A status of a policy that lags behind its generation is one of the failures of
  the hook.
* An installed component whose version has left the channels is reported Healthy
  without a look at its health (`juggler.go:154`), and the Ready condition of a release
  is read without its generation (`flux_manifesto.go:52`). Health is a free choice in
  the models; no property rests on it.
* Uninstalling ignores the skip annotation; the models delete annotated objects as the
  code does (section 4).
* Nothing is said of a cluster that an edit of `spec.target` has left: its objects, flux's
  access to it and, once flux gets a kubeconfig for the new one, the workloads of the
  releases stay there, since no pass looks there again. That flux installs the releases
  anew on the new cluster is its own business.
* Labels that a user has removed are not put back by users. An unlabelled provider that
  the spec no longer names stays, and blocks Crossplane's uninstallation until the user
  deletes it: `CleanSweep`, `NothingLeaks`, `ProvidersArePoliced`, `DeletionCompletes` and
  `Converges` name it as their exception.
* A ControlPlane that is created again while the namespace of its predecessor still exists
  finds a kubeconfig in it whose ServiceAccount is gone. `UserCreates` waits for the
  namespace, so `ReleasesAreServed` does not speak of that case; `Kubeconfig` bounds how
  long such a kubeconfig lasts (`MisfitIsBounded`).
* A suspended release or source stays suspended (`flux_manifesto.go:36`); flux is assumed
  to work on what it is given.
* Nobody compares a kubeconfig with the target it is used for: after an edit of the
  target, or after the account has been deleted, it counts as valid until its token
  runs out. The code says no more than that it is "still valid"; `MisfitIsBounded`
  says for how long.
* `Kubeconfig` reads its secret fresh. An outdated one is older and can only be renewed
  too early, or its update is refused and the pass starts again.
* That passes get past `ensureKubeconfig` once in every gap is an assumption about the
  load and the failures of the clusters; without it tokens expire, in the code as in
  the model. It covers gaps below a third of the lifetime; with the default lifetime a
  period of twenty minutes or more is outside of it.
* Condition types are any function of the components (`TypeOf`), but "Ready" is none of
  them. While components of one type have different results (`Ambiguous`) the status may
  change from pass to pass, and `ComesToRest` promises nothing. Messages and events are
  left out.
* In `Juggler` every component has an object of its own: pull secrets of one name, which
  share the condition but are also copied to one name on the target cluster, and providers
  `helm` and `provider-helm`, which are the same object, are left out there.
* One provider, one pull secret, one CRD stand for many of their kind; names, and
  so the truncation of namespace names and the provider prefix, are not modelled.
* `SecretSync` has secrets of one type. Sources of one name and different types would
  refuse each other's updates, since the type of a secret is immutable
  (`secret_controller.go:129`).
* The look-ups read the channels fresh. A lagging cache would answer with an earlier
  status; what that lists has been offered as well, so `OnlyOffered` does not rest on
  it.
* Registry access (catalog request, local archives, credentials) either works or
  fails; component names and prefixes are not modelled, one component stands for all
  of a channel. A lookup of a component that fails makes the process panic, which
  controller-runtime turns into an error of the reconciliation.
* Contents (chart values, policy rules, CEL expressions) are a single bit: as
  desired or drifted.
* The optional protection of DeploymentRuntimeConfigs is registered by the
  catalogue like any other policy and part of no instance.

## 7. Plan

1. Done: `Juggler`, `Components`, `ControlPlane`, `SecretSync`, `ReleaseChannel`,
   `Kubeconfig`, `Conditions`, `Lifecycle`, their runs and the proofs above.
   All safety properties of the passing runs are proved.
2. Proofs: the safety lemmas that the liveness properties rest on, such as what a pass
   that nobody disturbs achieves; an abstract specification of the status, implemented
   by `Conditions`.
3. Models: look-ups composed with the engine in one run, if it stays within reach; the
   contents of the admission policies.
