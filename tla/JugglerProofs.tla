--------------------------- MODULE JugglerProofs ---------------------------
(***************************************************************************)
(* Proofs about the component engine, for every set of components, every   *)
(* catalogue of hooks and dependencies and every registration order.       *)
(***************************************************************************)
EXTENDS Juggler, TLAPS

----------------------------------------------------------------------------
(* Type correctness.                                                        *)

\* Between Pick and its result a registered component is being reconciled, and
\* it is not waiting in the queue of the pass any more.  Between two passes the
\* engine remembers nothing.
Busy == Step \ {"idle", "next"}
CurrentOK == pc \in Busy => cur \in Registered /\ cur \notin todo
IdleOK == pc = "idle" => cur = Nobody /\ disabled = {}
PassInv == PassTypeOK /\ CurrentOK /\ IdleOK
TypeInv == WorldTypeOK /\ PassInv

\* The engine starts with its variables in their types: nothing observed yet.
LEMMA TypeInit == JInit => TypeInv
<1> SUFFICES ASSUME JInit PROVE TypeInv
  OBVIOUS
<1>1. WorldTypeOK
  BY DEF JInit, WorldTypeOK, Phase
<1>2. PassInv
  BY DEF JInit, PassInv, PassTypeOK, CurrentOK, IdleOK, Registered, Step, Busy
<1> QED
  BY <1>1, <1>2 DEF TypeInv

\* reconcileComponent ends with a result: the pass stays well typed.
LEMMA FinishType ==
    ASSUME PassInv, pc \in Busy, NEW st, Finish(st)
    PROVE  PassInv'
BY DEF PassInv, PassTypeOK, CurrentOK, IdleOK, Busy, Finish, Registered, Step

\* reconcileComponent goes on to its next call: the pass stays well typed.
LEMMA GotoType ==
    ASSUME PassInv, pc \in Busy, NEW next \in Busy, NEW found \in BOOLEAN,
           GotoWith(next, found)
    PROVE  PassInv'
BY DEF PassInv, PassTypeOK, CurrentOK, IdleOK, Busy, GotoWith, Registered

\* A pass that is dropped, at its end or by a crash, leaves nothing behind.
LEMMA ForgetType == Forget => PassInv'
BY DEF Forget, PassInv, PassTypeOK, CurrentOK, IdleOK, Busy, Registered, Step

\* Both reconcilers answer Observe with an observation.
LEMMA ObservationType == \A c : Observations(c) \subseteq Observation
BY DEF Observations, FluxObservations, ObjectObservations

\* A DELETE and a CreateOrUpdate leave every resource in one of its phases.
LEMMA PhaseType ==
    ASSUME NEW p \in Phase, NEW q \in Phase
    PROVE  Deleted(p) \in Phase /\ CreateOrUpdate(p, q) \in Phase
BY DEF Deleted, CreateOrUpdate, Phase

\* Every step of reconcileComponent keeps the pass well typed.
LEMMA ReconcilingPass ==
    ASSUME TypeInv, Reconciling
    PROVE  PassInv'
<1> USE DEF TypeInv
<1>0. exists \in BOOLEAN
  BY DEF PassInv, PassTypeOK
<1>1. CASE \E c \in Component : Pick(c)
  <2>1. PICK c \in Component : Pick(c)
    BY <1>1
  <2> QED
    BY <2>1 DEF Pick, PassInv, PassTypeOK, CurrentOK, IdleOK, Busy, Registered, Step
<1>2. CASE Observe
  <2>1. PICK o \in Observations(cur) :
           \/ GotoWith("installable", o.exists) \/ GotoWith("preUninstall", o.exists)
           \/ Finish("Disabled") \/ Finish("Uninstalled")
    BY <1>2 DEF Observe
  <2>2. o.exists \in BOOLEAN
    BY ObservationType DEF Observation
  <2>3. pc \in Busy /\ "installable" \in Busy /\ "preUninstall" \in Busy
    BY <1>2 DEF Observe, Busy, Step
  <2> QED
    BY <1>0, <2>1, <2>2, <2>3, FinishType, GotoType DEF Finish
<1>3. CASE PreUninstall
  <2>1. pc \in Busy /\ "deleteSource" \in Busy /\ "delete" \in Busy
    BY <1>3 DEF PreUninstall, Busy, Step
  <2>2. Finish("UninstallFailed") \/ Goto("deleteSource") \/ Goto("delete")
    BY <1>3 DEF PreUninstall
  <2> QED
    BY <1>0, <2>1, <2>2, FinishType, GotoType DEF Finish, Goto
<1>4. CASE DeleteSource
  <2>1. pc \in Busy /\ "delete" \in Busy
    BY <1>4 DEF DeleteSource, Busy, Step
  <2> QED
    BY <1>0, <1>4, <2>1, FinishType, GotoType DEF DeleteSource, Finish, Goto
<1>5. CASE Delete
  <2>1. pc \in Busy
    BY <1>5 DEF Delete, Busy, Step
  <2> QED
    BY <1>0, <1>5, <2>1, FinishType DEF Delete, Finish
<1>6. CASE CheckInstallable
  <2>1. pc \in Busy /\ "preApply" \in Busy
    BY <1>6 DEF CheckInstallable, Busy, Step
  <2>2. \/ Goto("preApply")
        \/ Finish("Healthy") \/ Finish("InstallFailed")
        \/ Finish("ComponentNotAllowed") \/ Finish("DependencyCheckFailed")
    BY <1>6 DEF CheckInstallable
  <2> QED
    BY <1>0, <2>1, <2>2, FinishType, GotoType DEF Finish, Goto
<1>7. CASE PreApply
  <2>1. pc \in Busy /\ "applySource" \in Busy /\ "apply" \in Busy
    BY <1>7 DEF PreApply, Busy, Step
  <2>2. Finish(ApplyFailed) \/ Goto("applySource") \/ Goto("apply")
    BY <1>7 DEF PreApply
  <2> QED
    BY <1>0, <2>1, <2>2, FinishType, GotoType DEF Finish, Goto
<1>8. CASE ApplySource
  <2>1. pc \in Busy /\ "apply" \in Busy
    BY <1>8 DEF ApplySource, Busy, Step
  <2>2. Finish(ApplyFailed) \/ Goto("apply")
    BY <1>8 DEF ApplySource
  <2> QED
    BY <1>0, <2>1, <2>2, FinishType, GotoType DEF Finish, Goto
<1>9. CASE Apply
  <2>1. pc \in Busy /\ "reobserve" \in Busy
    BY <1>9 DEF Apply, Busy, Step
  <2>2. Finish(ApplyFailed) \/ Finish("Installed") \/ Goto("reobserve")
    BY <1>9 DEF Apply
  <2> QED
    BY <1>0, <2>1, <2>2, FinishType, GotoType DEF Finish, Goto
<1>10. CASE Reobserve
  <2>1. PICK o \in Observations(cur) :
           \/ Finish("HealthyReconciliationSkipped") \/ Finish("Healthy")
           \/ Finish("UnhealthyReconciliationSkipped") \/ Finish("Unhealthy")
    BY <1>10 DEF Reobserve
  <2>2. pc \in Busy
    BY <1>10 DEF Reobserve, Busy, Step
  <2> QED
    BY <2>1, <2>2, FinishType
<1>11. CASE CallFails
  <2>1. pc \in Busy
    BY <1>11 DEF CallFails, Busy, Step
  <2> QED
    BY <1>0, <1>11, <2>1, FinishType DEF CallFails, Finish
<1> QED
  BY <1>1, <1>2, <1>3, <1>4, <1>5, <1>6, <1>7, <1>8, <1>9, <1>10, <1>11 DEF Reconciling

\* What reconcileComponent does to the clusters: it changes one phase at most.
LEMMA ReconcilingWorld ==
    ASSUME TypeInv, Reconciling
    PROVE  WorldTypeOK'
<1> USE DEF TypeInv
<1>0. CASE UNCHANGED <<world, calm>>
  BY <1>0 DEF world, WorldTypeOK
<1>1. ASSUME cur \in Component, CachedStore(cur) \in Phase, CachedSource(cur) \in Phase
      PROVE  DeleteSource \/ Delete \/ ApplySource \/ Apply => WorldTypeOK'
  <2>1. store[cur] \in Phase /\ source[cur] \in Phase
    BY <1>1 DEF WorldTypeOK
  <2>2. Deleted(store[cur]) \in Phase /\ Deleted(source[cur]) \in Phase
    BY <2>1, PhaseType
  <2>3. /\ CreateOrUpdate(store[cur], CachedStore(cur)) \in Phase
        /\ CreateOrUpdate(source[cur], CachedSource(cur)) \in Phase
    BY <1>1, <2>1, PhaseType
  <2>4. DeleteSource => WorldTypeOK'
    BY <2>2 DEF DeleteSource, WorldTypeOK
  <2>5. Delete => WorldTypeOK'
    BY <2>2 DEF Delete, WorldTypeOK
  <2>6. ApplySource => WorldTypeOK'
    BY <2>3 DEF ApplySource, WorldTypeOK
  <2>7. Apply => WorldTypeOK'
    BY <2>3 DEF Apply, Restored, WorldTypeOK
  <2> QED
    BY <2>4, <2>5, <2>6, <2>7
<1>2. CASE DeleteSource \/ Delete \/ ApplySource \/ Apply
  <2>1. pc \in Busy
    BY <1>2 DEF DeleteSource, Delete, ApplySource, Apply, Busy, Step
  <2>2. cur \in Component
    BY <2>1, TypesAssumption DEF PassInv, PassTypeOK, CurrentOK, IdleOK, Registered
  <2>3. CachedStore(cur) \in Phase /\ CachedSource(cur) \in Phase
    BY <2>2 DEF CachedStore, CachedSource, Lags, WorldTypeOK
  <2> QED
    BY <1>1, <1>2, <2>2, <2>3
<1>3. CASE \E c \in Component : Pick(c)
  BY <1>0, <1>3 DEF Pick
<1>4. CASE Observe \/ PreUninstall \/ CheckInstallable \/ PreApply \/ Reobserve \/ CallFails
  BY <1>0, <1>4 DEF Observe, PreUninstall, CheckInstallable, PreApply, Reobserve, CallFails
<1> QED
  BY <1>2, <1>3, <1>4 DEF Reconciling

\* Users and the clusters keep the types and do not touch the pass.
LEMMA EnvironmentType ==
    ASSUME TypeInv, Users \/ Cluster
    PROVE  TypeInv'
<1> USE DEF TypeInv
<1>0. ASSUME UNCHANGED pass PROVE PassInv'
  BY <1>0 DEF pass, PassInv, PassTypeOK, CurrentOK, IdleOK, Registered
<1>1. CASE \E c \in Touched : \/ UserAnnotates(c) \/ UserDeletes(c)
                              \/ UserEdits(c) \/ UserRemovesLabels(c)
  <2>1. PICK c \in Touched : \/ UserAnnotates(c) \/ UserDeletes(c)
                              \/ UserEdits(c) \/ UserRemovesLabels(c)
    BY <1>1
  <2>2. WorldTypeOK'
    <3>1. c \in Component
      BY TypesAssumption
    <3>2. CASE UserAnnotates(c)
      BY <3>2 DEF UserAnnotates, WorldTypeOK
    <3>3. CASE UserEdits(c) \/ UserRemovesLabels(c)
      BY <3>3 DEF UserEdits, UserRemovesLabels, WorldTypeOK
    <3>4. CASE UserDeletes(c)
      BY <3>1, <3>4 DEF UserDeletes, WorldTypeOK, Phase
    <3> QED
      BY <2>1, <3>2, <3>3, <3>4
  <2> QED
    BY <1>0, <2>1, <2>2 DEF UserAnnotates, UserEdits, UserRemovesLabels, UserDeletes
<1>2. CASE \E c \in Guarded : ToggleForeign(c)
  BY <1>0, <1>2 DEF ToggleForeign, WorldTypeOK
<1>3. CASE CalmDown
  BY <1>0, <1>3 DEF CalmDown, WorldTypeOK, world
<1>4. CASE \E c \in Component : Terminated(c)
  <2>1. PICK c \in Component : Terminated(c)
    BY <1>4
  <2>2. WorldTypeOK'
    BY <2>1 DEF Terminated, WorldTypeOK, Phase
  <2> QED
    BY <1>0, <2>1, <2>2 DEF Terminated
<1>5. CASE \E c \in FluxType : SourceTerminated(c) \/ SyncCache(c)
  <2>1. PICK c \in FluxType : SourceTerminated(c) \/ SyncCache(c)
    BY <1>5
  <2>2. c \in Component
    BY TypesAssumption
  <2>3. CASE SourceTerminated(c)
    BY <1>0, <2>2, <2>3 DEF SourceTerminated, WorldTypeOK, Phase
  <2>4. CASE SyncCache(c)
    BY <1>0, <2>2, <2>4 DEF SyncCache, WorldTypeOK
  <2> QED
    BY <2>1, <2>3, <2>4
<1> QED
  BY <1>1, <1>2, <1>3, <1>4, <1>5 DEF Users, Cluster

\* Every step of the engine and of its environment keeps the type invariant.
LEMMA TypeStep == TypeInv /\ [JNext]_jvars => TypeInv'
<1> SUFFICES ASSUME TypeInv, [JNext]_jvars PROVE TypeInv'
  OBVIOUS
<1>1. ASSUME NEW L \in Registration, NEW E \in SUBSET L, StartPass(L, E) PROVE TypeInv'
  <2>1. WorldTypeOK'
    BY <1>1 DEF StartPass, TypeInv, WorldTypeOK, world
  <2>2. L \subseteq Component /\ OrphansOf(L) \subseteq Detected
    BY DEF Registration, OrphansOf
  <2>3. cur \in Registered' \cup {Nobody}
    BY <1>1 DEF StartPass, TypeInv, PassInv, IdleOK
  <2>4. PassInv'
    BY <1>1, <2>2, <2>3 DEF StartPass, TypeInv, PassInv, PassTypeOK, CurrentOK, IdleOK, Busy,
                            Registered, Step
  <2> QED
    BY <2>1, <2>4 DEF TypeInv
<1>2. CASE Reconciling
  BY <1>2, ReconcilingPass, ReconcilingWorld DEF TypeInv
<1>3. CASE EndPass
  BY <1>3, ForgetType DEF EndPass, TypeInv, WorldTypeOK, world
<1>4. CASE Crash
  <2>1. [c \in FluxType |-> [store |-> store[c], source |-> source[c]]]
            \in [FluxType -> [store : Phase, source : Phase]]
    BY TypesAssumption DEF TypeInv, WorldTypeOK
  <2>2. WorldTypeOK'
    BY <1>4, <2>1 DEF Crash, TypeInv, WorldTypeOK
  <2> QED
    BY <1>4, <2>2, ForgetType DEF Crash, TypeInv
<1>5. CASE Users \/ Cluster
  BY <1>5, EnvironmentType
<1>6. CASE Retarget
  <2>1. WorldTypeOK'
    BY <1>6 DEF Retarget, TypeInv, WorldTypeOK, Phase
  <2>2. PassInv'
    BY <1>6 DEF Retarget, pass, TypeInv, PassInv, PassTypeOK, CurrentOK, IdleOK, Registered
  <2> QED
    BY <2>1, <2>2 DEF TypeInv
<1>7. CASE UNCHANGED jvars
  BY <1>7 DEF jvars, TypeInv, WorldTypeOK, PassInv, PassTypeOK, CurrentOK, IdleOK, Registered
<1> QED
  BY <1>1, <1>2, <1>3, <1>4, <1>5, <1>6, <1>7 DEF JNext

\* The type invariant of the engine, with the fact that every call is made for
\* a registered component.
THEOREM EngineTypes == JSpec => []TypeInv
<1> QED
  BY TypeInit, TypeStep, PTL DEF JSpec

\* TypeOK holds of the engine, whatever components and hooks it is given.
THEOREM TypeCorrect == JSpec => []TypeOK
<1>1. TypeInv => TypeOK
  BY DEF TypeInv, TypeOK, PassInv
<1> QED
  BY <1>1, EngineTypes, PTL

----------------------------------------------------------------------------
(* Who creates and who deletes.                                             *)

\* The steps that leave the resources of all components alone.
Elsewhere ==
    \/ \E L \in Registration : \E E \in SUBSET L : StartPass(L, E)
    \/ \E c \in Component : Pick(c)
    \/ Observe \/ PreUninstall \/ CheckInstallable \/ PreApply \/ Reobserve \/ CallFails
    \/ EndPass \/ Crash \/ CalmDown
    \/ \E c \in Guarded : ToggleForeign(c)
    \/ UNCHANGED jvars

\* Observations, hooks and the bookkeeping of the pass write to no cluster.
LEMMA ElsewhereReads == Elsewhere => UNCHANGED <<store, source>>
BY DEF Elsewhere, StartPass, Pick, Observe, PreUninstall, CheckInstallable, PreApply, Reobserve,
       CallFails, EndPass, Crash, CalmDown, ToggleForeign, world, jvars

\* Resources appear by installOrUpdate and applyObject alone.
LEMMA Creation ==
    ASSUME TypeInv, [JNext]_jvars, NEW c \in Component
    PROVE  /\ store[c] = "absent" /\ store'[c] # "absent" => Apply /\ cur = c
           /\ source[c] = "absent" /\ source'[c] # "absent" => ApplySource /\ cur = c
<1> USE DEF TypeInv, WorldTypeOK
<1>1. CASE UNCHANGED <<store, source>>
  BY <1>1
<1>2. CASE DeleteSource
  BY <1>2 DEF DeleteSource, Deleted
<1>3. CASE Delete
  BY <1>3 DEF Delete, Deleted
<1>4. CASE ApplySource
  BY <1>4 DEF ApplySource
<1>5. CASE Apply
  BY <1>5 DEF Apply
<1>6. CASE \E d \in Component : Terminated(d)
  BY <1>6 DEF Terminated
<1>7. CASE \E d \in FluxType : SourceTerminated(d) \/ SyncCache(d)
  BY <1>7, TypesAssumption DEF SourceTerminated, SyncCache
<1>8. CASE \E d \in Touched : \/ UserAnnotates(d) \/ UserDeletes(d)
                              \/ UserEdits(d) \/ UserRemovesLabels(d)
  BY <1>8, TypesAssumption DEF UserAnnotates, UserEdits, UserRemovesLabels, UserDeletes
<1>9. CASE Retarget
  BY <1>9 DEF Retarget
<1>10. CASE Elsewhere
  BY <1>1, <1>10, ElsewhereReads
<1> QED
  BY <1>2, <1>3, <1>4, <1>5, <1>6, <1>7, <1>8, <1>9, <1>10
     DEF Elsewhere, JNext, Reconciling, Users, Cluster

\* A live resource is never lost at once: it is deleted first, by the operator's
\* Uninstall or, if it is theirs to touch, by a user.  Only an object whose
\* cluster is left is out of sight at once.
LEMMA Destruction ==
    ASSUME TypeInv, [JNext]_jvars, NEW c \in Component
    PROVE  /\ store[c] = "live" /\ store'[c] # "live" =>
                (Delete /\ cur = c) \/ c \in Touched \/ (Retarget /\ c \notin FluxType)
           /\ source[c] = "live" /\ source'[c] # "live" => DeleteSource /\ cur = c
<1> USE DEF TypeInv, WorldTypeOK
<1>1. CASE UNCHANGED <<store, source>>
  BY <1>1
<1>2. CASE DeleteSource
  BY <1>2 DEF DeleteSource
<1>3. CASE Delete
  BY <1>3 DEF Delete
<1>4. CASE ApplySource
  BY <1>4 DEF ApplySource, CreateOrUpdate
<1>5. CASE Apply
  BY <1>5 DEF Apply, CreateOrUpdate
<1>6. CASE \E d \in Component : Terminated(d)
  BY <1>6 DEF Terminated
<1>7. CASE \E d \in FluxType : SourceTerminated(d) \/ SyncCache(d)
  BY <1>7, TypesAssumption DEF SourceTerminated, SyncCache
<1>8. CASE \E d \in Touched : \/ UserAnnotates(d) \/ UserDeletes(d)
                              \/ UserEdits(d) \/ UserRemovesLabels(d)
  BY <1>8, TypesAssumption DEF UserAnnotates, UserEdits, UserRemovesLabels, UserDeletes
<1>9. CASE Retarget
  BY <1>9 DEF Retarget
<1>10. CASE Elsewhere
  BY <1>1, <1>10, ElsewhereReads
<1> QED
  BY <1>2, <1>3, <1>4, <1>5, <1>6, <1>7, <1>8, <1>9, <1>10
     DEF Elsewhere, JNext, Reconciling, Users, Cluster

\* A resource that is being deleted does not come back before it is gone.
LEMMA NoRevival ==
    ASSUME TypeInv, [JNext]_jvars, NEW c \in Component, store[c] = "terminating"
    PROVE  store'[c] # "live"
<1> USE DEF TypeInv, WorldTypeOK
<1>1. CASE UNCHANGED store
  BY <1>1
<1>2. CASE Delete
  BY <1>2 DEF Delete, Deleted
<1>3. CASE Apply
  BY <1>3 DEF Apply, CreateOrUpdate
<1>4. CASE \E d \in Component : Terminated(d)
  BY <1>4 DEF Terminated
<1>5. CASE \E d \in Touched : \/ UserAnnotates(d) \/ UserDeletes(d)
                              \/ UserEdits(d) \/ UserRemovesLabels(d)
  BY <1>5, TypesAssumption DEF UserAnnotates, UserEdits, UserRemovesLabels, UserDeletes
<1>6. CASE DeleteSource \/ ApplySource \/ \E d \in FluxType : SourceTerminated(d) \/ SyncCache(d)
  BY <1>1, <1>6 DEF DeleteSource, ApplySource, SourceTerminated, SyncCache
<1>7. CASE Retarget
  BY <1>7 DEF Retarget
<1>8. CASE Elsewhere
  BY <1>1, <1>8, ElsewhereReads
<1> QED
  BY <1>2, <1>3, <1>4, <1>5, <1>6, <1>7, <1>8 DEF Elsewhere, JNext, Reconciling, Users, Cluster

\* Labels that are missing come back when the component is applied, or the object
\* goes, and so does its cluster.
LEMMA LabelsReturn ==
    ASSUME TypeInv, [JNext]_jvars, NEW c \in unlabelled, c \notin unlabelled'
    PROVE  (Apply /\ cur = c) \/ store'[c] = "absent"
<1> USE DEF TypeInv, WorldTypeOK
<1>0. c \in Component \ FluxType
  BY TypesAssumption
<1>1. CASE Apply
  BY <1>1 DEF Apply, Restored
<1>2. CASE Retarget
  BY <1>0, <1>2 DEF Retarget
<1>3. CASE \E d \in Component : Terminated(d)
  BY <1>3 DEF Terminated
<1>4. CASE \E d \in Touched : \/ UserAnnotates(d) \/ UserDeletes(d)
                              \/ UserEdits(d) \/ UserRemovesLabels(d)
  BY <1>4 DEF UserAnnotates, UserDeletes, UserEdits, UserRemovesLabels
<1>5. CASE \/ DeleteSource \/ Delete \/ ApplySource
           \/ \E d \in FluxType : SourceTerminated(d) \/ SyncCache(d)
  BY <1>5 DEF DeleteSource, Delete, ApplySource, SourceTerminated, SyncCache
<1>6. CASE Elsewhere
  BY <1>6 DEF Elsewhere, StartPass, Pick, Observe, PreUninstall, CheckInstallable, PreApply,
              Reobserve, CallFails, EndPass, Crash, CalmDown, ToggleForeign, world, jvars
<1> QED
  BY <1>1, <1>2, <1>3, <1>4, <1>5, <1>6 DEF Elsewhere, JNext, Reconciling, Users, Cluster

----------------------------------------------------------------------------
(* What the hooks have checked still holds when the engine acts on it.      *)

GuardInv == pc \in {"deleteSource", "delete"} => \A g \in Guards[cur] : store[g] = "absent"
GateInv  == pc \in {"applySource", "apply"} => GatesOpen(cur)
KeepInv  == pc \in {"preUninstall", "deleteSource", "delete"} => cur \notin Keep
HookInv  == GuardInv /\ GateInv /\ KeepInv

\* Nothing the environment does undoes what a hook has checked.
LEMMA HookStable ==
    ASSUME TypeInv, HookInv, [JNext]_jvars, UNCHANGED <<pc, cur>>
    PROVE  HookInv'
<1>1. ASSUME pc \in Busy PROVE cur \in Component
  BY <1>1, TypesAssumption DEF TypeInv, PassInv, PassTypeOK, CurrentOK, Registered
<1>2. GuardInv'
  <2> SUFFICES ASSUME pc \in {"deleteSource", "delete"}, NEW g \in Guards[cur]
               PROVE  store'[g] = "absent"
    BY DEF GuardInv
  <2>1. cur \in Component
    BY <1>1 DEF Busy, Step
  <2>2. g \in Component /\ store[g] = "absent" /\ ~Apply
    BY <2>1, HooksAssumption DEF HookInv, GuardInv, Apply
  <2> QED
    BY <2>2, Creation
<1>3. GateInv'
  <2> SUFFICES ASSUME pc \in {"applySource", "apply"}, NEW g \in Gates[cur]
               PROVE  store'[g] = "live"
    BY DEF GateInv, GatesOpen
  <2>1. cur \in Component
    BY <1>1 DEF Busy, Step
  <2>2. g \in Component /\ g \notin Touched /\ store[g] = "live" /\ ~Delete /\ ~Retarget
    BY <2>1, HooksAssumption, GatesAssumption
    DEF HookInv, GateInv, GatesOpen, Delete, Retarget
  <2> QED
    BY <2>2, Destruction
<1>4. KeepInv'
  BY DEF HookInv, KeepInv
<1> QED
  BY <1>2, <1>3, <1>4 DEF HookInv

\* The hook invariant is inductive.
LEMMA HookStep == TypeInv /\ HookInv /\ [JNext]_jvars => HookInv'
<1> SUFFICES ASSUME TypeInv, HookInv, [JNext]_jvars PROVE HookInv'
  OBVIOUS
<1> USE DEF HookInv, GuardInv, GateInv, KeepInv
<1>1. ASSUME pc' \in {"idle", "next", "observe", "installable", "preApply", "reobserve"}
      PROVE  HookInv'
  BY <1>1
<1>2. CASE Observe
  BY <1>2 DEF Observe, GotoWith, Finish
<1>3. CASE PreUninstall
  BY <1>3 DEF PreUninstall, Goto, GotoWith, Finish, Blocked, world
<1>4. CASE DeleteSource
  BY <1>4 DEF DeleteSource, Goto, GotoWith, Finish
<1>5. CASE PreApply
  BY <1>5 DEF PreApply, Goto, GotoWith, Finish, GatesOpen, world
<1>6. CASE ApplySource
  BY <1>6 DEF ApplySource, Goto, GotoWith, Finish, GatesOpen
<1>7. CASE Delete \/ CheckInstallable \/ Apply \/ Reobserve \/ CallFails \/ EndPass \/ Crash
  BY <1>1, <1>7 DEF Delete, CheckInstallable, Apply, Reobserve, CallFails, EndPass, Crash,
                    Goto, GotoWith, Finish, Forget
<1>8. CASE \/ \E L \in Registration : \E E \in SUBSET L : StartPass(L, E)
           \/ \E c \in Component : Pick(c)
  BY <1>1, <1>8 DEF StartPass, Pick
<1>9. CASE Users \/ Cluster \/ Retarget \/ UNCHANGED jvars
  <2>1. UNCHANGED <<pc, cur>>
    BY <1>9 DEF Users, Cluster, UserAnnotates, UserEdits, UserRemovesLabels, UserDeletes, ToggleForeign, CalmDown,
                Terminated, SourceTerminated, SyncCache, Retarget, pass, jvars
  <2> QED
    BY <2>1, HookStable
<1> QED
  BY <1>2, <1>3, <1>4, <1>5, <1>6, <1>7, <1>8, <1>9 DEF JNext, Reconciling

\* Whatever a hook has checked before a call holds when the call is made.
THEOREM HooksHold == JSpec => [](TypeInv /\ HookInv)
<1>1. JInit => HookInv
  BY DEF JInit, HookInv, GuardInv, GateInv, KeepInv
<1> QED
  BY <1>1, TypeInit, TypeStep, HookStep, PTL DEF JSpec

\* GuardedTeardown for every catalogue: PreventOrphanedResources cannot be
\* overtaken by an installation, although the check and the deletions are
\* separate calls.
THEOREM TeardownIsGuarded == JSpec => GuardedTeardown
<1>1. ASSUME TypeInv, HookInv, [JNext]_jvars, NEW c \in FluxType,
             \/ store[c] = "live" /\ store'[c] = "terminating"
             \/ source[c] = "live" /\ source'[c] = "terminating"
      PROVE  \A g \in Guards[c] : store[g] = "absent"
  <2>1. c \in Component /\ c \notin Touched
    BY TypesAssumption
  <2>2. (Delete \/ DeleteSource) /\ cur = c
    BY <1>1, <2>1, Destruction
  <2> QED
    BY <1>1, <2>2 DEF Delete, DeleteSource, HookInv, GuardInv
<1>2. TypeInv /\ HookInv /\ [JNext]_jvars =>
        [\A c \in FluxType :
           \/ store[c] = "live" /\ store'[c] = "terminating"
           \/ source[c] = "live" /\ source'[c] = "terminating"
           => \A g \in Guards[c] : store[g] = "absent"]_jvars
  BY <1>1
<1> QED
  BY <1>2, HooksHold, PTL DEF JSpec, GuardedTeardown

\* GatedInstall for every catalogue whose gates users cannot touch: a package is
\* created only under policies that are in force (CheckIfPolicyIsInstalled).
THEOREM InstallIsGated == JSpec => GatedInstall
<1>1. TypeInv /\ HookInv /\ [JNext]_jvars =>
        [\A c \in Component :
           store[c] = "absent" /\ store'[c] # "absent" => GatesOpen(c)]_jvars
  BY Creation DEF Apply, HookInv, GateInv
<1> QED
  BY <1>1, HooksHold, PTL DEF JSpec, GatedInstall

\* KeptForever for every catalogue: what KeepOnUninstall protects stays.
THEOREM KeptStays == JSpec => KeptForever
<1>1. TypeInv /\ HookInv /\ [JNext]_jvars =>
        [~Retarget => \A c \in Keep \ Touched : store[c] = "live" => store'[c] = "live"]_jvars
  BY Destruction, TypesAssumption DEF Delete, HookInv, KeepInv
<1> QED
  BY <1>1, HooksHold, PTL DEF JSpec, KeptForever

----------------------------------------------------------------------------
(* What a pass reports is true of all components that are not read through *)
(* a lagging cache.                                                         *)

Installing == {"installable", "preApply", "applySource", "apply", "reobserve"}

\* Only flux components have sources, only enabled components are installed,
\* and no component is both enabled and reported as Disabled.
SourceInv  == \A c \in Component \ FluxType : source[c] = "absent"
EnabledInv == /\ pc \in Installing => cur \in on
              /\ pc = "applySource" => cur \in FluxType
              /\ disabled \cap on = {}
\* A component that the pass has not registered has no resources: if it had
\* some, an orphan detector would have registered it, unless it lacked the labels.
AbsentInv  == pc # "idle" =>
                \A c \in Component \ Registered :
                    (store[c] = "absent" \/ c \in unlabelled) /\ source[c] = "absent"
\* Disabled means gone, unless the cache may have hidden something.
GoneInv    == \A c \in disabled : ~Lags(c) => store[c] = "absent" /\ source[c] = "absent"
SweepInv   == SourceInv /\ EnabledInv /\ AbsentInv /\ GoneInv

\* Every step keeps the sources of other components absent.
LEMMA SourceStep == TypeInv /\ SourceInv /\ EnabledInv /\ [JNext]_jvars => SourceInv'
BY Creation DEF SourceInv, EnabledInv, ApplySource

\* The pass installs what is enabled and nothing else.
LEMMA EnabledStep == TypeInv /\ EnabledInv /\ [JNext]_jvars => EnabledInv'
<1> SUFFICES ASSUME TypeInv, EnabledInv, [JNext]_jvars PROVE EnabledInv'
  OBVIOUS
<1> USE DEF EnabledInv, Installing
<1>1. ASSUME UNCHANGED <<pc, cur, on, disabled>> PROVE EnabledInv'
  BY <1>1
<1>2. ASSUME pc' \notin Installing, disabled' \cap on' = {} PROVE EnabledInv'
  BY <1>2
<1>3. CASE Observe
  BY <1>3 DEF Observe, GotoWith, Finish
<1>4. CASE CheckInstallable
  BY <1>4 DEF CheckInstallable, Goto, GotoWith, Finish
<1>5. CASE PreApply
  BY <1>5 DEF PreApply, Goto, GotoWith, Finish, ApplyFailed
<1>6. CASE ApplySource
  BY <1>6 DEF ApplySource, Goto, GotoWith, Finish, ApplyFailed
<1>7. CASE Apply
  BY <1>7 DEF Apply, Goto, GotoWith, Finish, ApplyFailed
<1>8. CASE Reobserve
  BY <1>8 DEF Reobserve, Finish
<1>9. CASE PreUninstall \/ DeleteSource \/ Delete \/ CallFails
  BY <1>2, <1>9 DEF PreUninstall, DeleteSource, Delete, CallFails, Goto, GotoWith, Finish,
                    ApplyFailed
<1>10. CASE EndPass \/ Crash
  BY <1>2, <1>10 DEF EndPass, Crash, Forget
<1>11. CASE \E L \in Registration : \E E \in SUBSET L : StartPass(L, E)
  BY <1>2, <1>11 DEF StartPass, TypeInv, PassInv, IdleOK
<1>12. CASE \E c \in Component : Pick(c)
  BY <1>2, <1>12 DEF Pick
<1>13. CASE Users \/ Cluster \/ Retarget \/ UNCHANGED jvars
  <2>1. UNCHANGED <<pc, cur, on, disabled>>
    BY <1>13 DEF Users, Cluster, UserAnnotates, UserEdits, UserRemovesLabels, UserDeletes, ToggleForeign, CalmDown,
                 Terminated, SourceTerminated, SyncCache, Retarget, pass, jvars
  <2> QED
    BY <1>1, <2>1
<1> QED
  BY <1>3, <1>4, <1>5, <1>6, <1>7, <1>8, <1>9, <1>10, <1>11, <1>12, <1>13
     DEF JNext, Reconciling

\* The set of registered components is fixed while a pass runs.
LEMMA RegisteredFixed ==
    ASSUME [JNext]_jvars, pc # "idle", pc' # "idle"
    PROVE  Registered' = Registered
<1>1. CASE Reconciling
  BY <1>1 DEF Reconciling, Pick, Observe, PreUninstall, DeleteSource, Delete, CheckInstallable,
              PreApply, ApplySource, Apply, Reobserve, CallFails, Goto, GotoWith, Finish, Registered
<1>2. CASE EndPass \/ Crash
  BY <1>2 DEF EndPass, Crash, Forget
<1>3. CASE Users \/ Cluster \/ Retarget \/ UNCHANGED jvars
  BY <1>3 DEF Users, Cluster, UserAnnotates, UserEdits, UserRemovesLabels, UserDeletes, ToggleForeign, CalmDown,
              Terminated, SourceTerminated, SyncCache, Retarget, pass, jvars, Registered
<1>4. CASE \E L \in Registration : \E E \in SUBSET L : StartPass(L, E)
  BY <1>4 DEF StartPass
<1> QED
  BY <1>1, <1>2, <1>3, <1>4 DEF JNext

\* Components the pass does not know stay absent, or unlabelled, while it runs.
LEMMA AbsentStep == TypeInv /\ SweepInv /\ [JNext]_jvars => AbsentInv'
<1> SUFFICES ASSUME TypeInv, SweepInv, [JNext]_jvars, pc' # "idle",
                    NEW c \in Component \ Registered'
             PROVE  (store'[c] = "absent" \/ c \in unlabelled') /\ source'[c] = "absent"
  BY DEF AbsentInv
<1>1. CASE pc # "idle"
  <2>1. (store[c] = "absent" \/ c \in unlabelled) /\ source[c] = "absent" /\ c \notin Registered
    BY <1>1, RegisteredFixed DEF SweepInv, AbsentInv
  <2>2. ~((Apply \/ ApplySource) /\ cur = c)
    BY <2>1 DEF Apply, ApplySource, TypeInv, PassInv, CurrentOK, Busy, Step
  <2>3. source'[c] = "absent" /\ (store[c] = "absent" => store'[c] = "absent")
    BY <2>1, <2>2, Creation
  <2>4. c \in unlabelled => c \in unlabelled' \/ store'[c] = "absent"
    BY <2>2, LabelsReturn
  <2> QED
    BY <2>1, <2>3, <2>4
<1>2. CASE pc = "idle"
  <2>1. CASE \E L \in Registration : \E E \in SUBSET L : StartPass(L, E)
    <3>1. PICK L \in Registration : \E E \in SUBSET L : StartPass(L, E)
      BY <2>1
    <3>2. /\ UNCHANGED <<store, source, unlabelled>>
          /\ c \notin L /\ c \notin OrphansOf(L)
      BY <3>1 DEF StartPass, Registered, world
    <3>3. c \in Detected /\ c \notin FluxType
      BY <3>2, TypesAssumption DEF Registration
    <3> QED
      BY <3>2, <3>3 DEF OrphansOf, SweepInv, SourceInv
  <2>2. CASE Reconciling \/ EndPass
    BY <1>2, <2>2 DEF Reconciling, Pick, Observe, PreUninstall, DeleteSource, Delete,
                      CheckInstallable, PreApply, ApplySource, Apply, Reobserve, CallFails,
                      EndPass, PassDone
  <2>3. CASE Crash \/ Users \/ Cluster \/ Retarget \/ UNCHANGED jvars
    BY <1>2, <2>3 DEF Crash, Forget, Users, Cluster, UserAnnotates, UserEdits, UserRemovesLabels, UserDeletes,
                      ToggleForeign, CalmDown, Terminated, SourceTerminated, SyncCache, Retarget, pass, jvars
  <2> QED
    BY <2>1, <2>2, <2>3 DEF JNext
<1> QED
  BY <1>1, <1>2

\* Only Observe reports Disabled, and it does so for a component whose resources
\* it has just seen to be absent.
LEMMA DisabledGrows ==
    ASSUME TypeInv, SweepInv, [JNext]_jvars, NEW c \in disabled', ~Lags(c)
    PROVE  \/ c \in disabled
           \/ UNCHANGED <<store, source>> /\ store[c] = "absent" /\ source[c] = "absent"
<1>1. CASE Observe
  <2>1. cur \in Component
    BY <1>1, TypesAssumption
    DEF Observe, TypeInv, PassInv, PassTypeOK, CurrentOK, Registered, Busy, Step
  <2>2. PICK o \in Observations(cur) : c \in disabled \/ (c = cur /\ ~o.exists)
    BY <1>1 DEF Observe, GotoWith, Finish
  <2>3. CASE cur \in FluxType
    BY <1>1, <2>2, <2>3 DEF Observations, FluxObservations, CachedStore, CachedSource, Lags, Observe, world
  <2>4. CASE cur \notin FluxType
    BY <1>1, <2>1, <2>2, <2>4
    DEF Observations, ObjectObservations, Observe, world, SweepInv, SourceInv
  <2> QED
    BY <2>3, <2>4
<1>2. CASE PreUninstall \/ DeleteSource \/ Delete \/ CheckInstallable \/ PreApply \/ ApplySource
           \/ Apply \/ Reobserve \/ CallFails
  BY <1>2 DEF PreUninstall, DeleteSource, Delete, CheckInstallable, PreApply, ApplySource, Apply,
              Reobserve, CallFails, Goto, GotoWith, Finish, ApplyFailed
<1>3. CASE \/ \E L \in Registration : \E E \in SUBSET L : StartPass(L, E)
           \/ \E d \in Component : Pick(d)
           \/ EndPass \/ Crash
  BY <1>3 DEF StartPass, Pick, EndPass, Crash, Forget
<1>4. CASE Users \/ Cluster \/ Retarget \/ UNCHANGED jvars
  BY <1>4 DEF Users, Cluster, UserAnnotates, UserEdits, UserRemovesLabels, UserDeletes, ToggleForeign, CalmDown,
              Terminated, SourceTerminated, SyncCache, Retarget, pass, jvars
<1> QED
  BY <1>1, <1>2, <1>3, <1>4 DEF JNext, Reconciling

\* What has been reported as Disabled stays gone.
LEMMA GoneStep == TypeInv /\ SweepInv /\ [JNext]_jvars => GoneInv'
<1> SUFFICES ASSUME TypeInv, SweepInv, [JNext]_jvars, NEW c \in disabled', ~Lags(c)
             PROVE  store'[c] = "absent" /\ source'[c] = "absent"
  BY DEF GoneInv, Lags
<1>1. CASE UNCHANGED <<store, source>> /\ store[c] = "absent" /\ source[c] = "absent"
  BY <1>1
<1>2. CASE c \in disabled
  <2>1. c \in Component /\ c \notin on /\ store[c] = "absent" /\ source[c] = "absent"
    BY <1>2, TypesAssumption
    DEF TypeInv, PassInv, PassTypeOK, Registered, SweepInv, EnabledInv, GoneInv
  <2>2. ~((Apply \/ ApplySource) /\ cur = c)
    BY <2>1 DEF Apply, ApplySource, SweepInv, EnabledInv, Installing
  <2> QED
    BY <2>1, <2>2, Creation
<1> QED
  BY <1>1, <1>2, DisabledGrows

\* The sweep invariant is inductive.
LEMMA SweepStep == TypeInv /\ SweepInv /\ [JNext]_jvars => SweepInv'
  BY SourceStep, EnabledStep, AbsentStep, GoneStep DEF SweepInv

\* ... and holds of the engine, on any cache.
THEOREM SweepInvariant == JSpec => [](TypeInv /\ SweepInv)
<1>1. JInit => SweepInv
  BY DEF JInit, SweepInv, SourceInv, EnabledInv, Installing, AbsentInv, GoneInv
<1> QED
  BY <1>1, SweepStep, TypeInit, TypeStep, PTL DEF JSpec

\* A pass that reports everything Disabled has found all gone that does not lag,
\* and missed at most what carries no labels.
LEMMA Swept ==
    ASSUME TypeInv, SweepInv, PassDone, AllDisabled,
           NEW c \in Component \ Keep, ~Lags(c)
    PROVE  \/ store[c] = "absent" /\ source[c] = "absent"
           \/ c \notin Registered /\ c \in unlabelled
BY DEF SweepInv, AbsentInv, GoneInv, AllDisabled, PassDone

\* DisabledMeansGone for every catalogue, when the cached client does not lag.
THEOREM DisabledIsGone ==
    ASSUME ~StaleReads
    PROVE  JSpec => []DisabledMeansGone
<1>1. SweepInv => DisabledMeansGone
  BY DEF SweepInv, GoneInv, DisabledMeansGone, Lags
<1> QED
  BY <1>1, SweepInvariant, PTL

\* CleanSweep for every catalogue, when the cached client does not lag: once
\* every component that is not kept is Disabled, only what the users have taken
\* the labels off can still be there.
THEOREM SweepIsClean ==
    ASSUME ~StaleReads
    PROVE  JSpec => []CleanSweep
<1>1. TypeInv /\ SweepInv => CleanSweep
  BY Swept DEF CleanSweep, Lags
<1> QED
  BY <1>1, SweepInvariant, PTL

----------------------------------------------------------------------------
(* An installation that is reported as such is complete.                    *)

\* What a pass that has found nothing of a chart knows of its two halves: none
\* is there until ApplySource has written the source, and then only this one
\* is, until Apply has written the release.  Nobody else writes them.
HalvesInv ==
    /\ pc \in {"installable", "preApply", "applySource"} /\ cur \in FluxType /\ ~exists =>
          store[cur] = "absent" /\ source[cur] = "absent"
    /\ pc = "apply" /\ cur \in FluxType /\ ~exists =>
          store[cur] = "absent" /\ source[cur] = "live"
CompleteInv == HalvesInv /\ InstalledMeansComplete /\ (result = "Installed" => pc = "next")

\* Users and clusters leave alone what the pass has found and made of a chart.
LEMMA CompleteStable ==
    ASSUME TypeInv, CompleteInv, [JNext]_jvars, UNCHANGED <<pc, cur, exists, result>>,
           ~Apply, ~ApplySource, ~Delete, ~DeleteSource
    PROVE  CompleteInv'
<1> USE TypesAssumption DEF CompleteInv
<1>1. \A c \in FluxType : /\ store[c] = "absent" => store'[c] = "absent"
                          /\ source[c] = "absent" => source'[c] = "absent"
  BY Creation
<1>2. \A c \in FluxType : /\ store[c] = "live" => store'[c] = "live"
                          /\ source[c] = "live" => source'[c] = "live"
  BY Destruction
<1>3. HalvesInv'
  BY <1>1, <1>2 DEF HalvesInv
<1>4. InstalledMeansComplete'
  BY <1>2 DEF InstalledMeansComplete
<1> QED
  BY <1>3, <1>4

\* The completeness invariant is inductive when reads are exact.
LEMMA CompleteStep ==
    ASSUME ~StaleReads, TypeInv, CompleteInv, [JNext]_jvars
    PROVE  CompleteInv'
<1> USE DEF CompleteInv, HalvesInv, InstalledMeansComplete
<1>1. ASSUME pc' \in {"idle", "next", "observe"} \cup {"preUninstall", "deleteSource", "delete",
                                                     "reobserve"},
             result' # "Installed"
      PROVE  CompleteInv'
  BY <1>1
<1>2. CASE Observe
  <2>1. PICK o \in Observations(cur) :
           \/ cur \in on /\ GotoWith("installable", o.exists)
           \/ GotoWith("preUninstall", o.exists)
           \/ Finish("Disabled") \/ Finish("Uninstalled")
    BY <1>2 DEF Observe
  <2>2. cur \in FluxType /\ ~o.exists => store[cur] = "absent" /\ source[cur] = "absent"
    BY <2>1 DEF Observations, FluxObservations, CachedStore, CachedSource, Lags
  <2> QED
    BY <1>2, <2>1, <2>2 DEF Observe, GotoWith, Finish, world
<1>3. CASE CheckInstallable
  BY <1>3 DEF CheckInstallable, Goto, GotoWith, Finish, world
<1>4. CASE PreApply
  BY <1>4 DEF PreApply, ApplyFailed, Goto, GotoWith, Finish, world
<1>5. CASE ApplySource
  <2>1. cur \in Component
    BY <1>5, TypesAssumption
    DEF ApplySource, TypeInv, PassInv, PassTypeOK, CurrentOK, Registered, Busy, Step
  <2>2. cur \in FluxType /\ ~exists => source'[cur] = "live"
    BY <1>5, <2>1 DEF ApplySource, CreateOrUpdate, CachedSource, Lags, TypeInv, WorldTypeOK
  <2> QED
    BY <1>5, <2>2 DEF ApplySource, ApplyFailed, Goto, GotoWith, Finish
<1>6. CASE Apply
  <2>1. cur \in Component
    BY <1>6, TypesAssumption
    DEF Apply, TypeInv, PassInv, PassTypeOK, CurrentOK, Registered, Busy, Step
  <2>2. cur \in FluxType /\ ~exists => store'[cur] = "live" /\ source'[cur] = "live"
    BY <1>6, <2>1 DEF Apply, CreateOrUpdate, CachedStore, Lags, TypeInv, WorldTypeOK
  <2> QED
    BY <1>6, <2>2 DEF Apply, ApplyFailed, Goto, GotoWith, Finish
<1>7. CASE PreUninstall \/ DeleteSource \/ Delete \/ Reobserve \/ CallFails
  BY <1>1, <1>7 DEF PreUninstall, DeleteSource, Delete, Reobserve, CallFails, ApplyFailed,
                    Goto, GotoWith, Finish
<1>8. CASE EndPass \/ Crash
  BY <1>1, <1>8 DEF EndPass, Crash, Forget
<1>9. CASE \E c \in Component : Pick(c)
  BY <1>1, <1>9 DEF Pick
<1>10. CASE \E L \in Registration : \E E \in SUBSET L : StartPass(L, E)
  BY <1>1, <1>10 DEF StartPass
<1>11. CASE Users \/ Cluster \/ Retarget \/ UNCHANGED jvars
  <2>1. UNCHANGED <<pc, cur, exists, result>>
    BY <1>11 DEF Users, Cluster, UserAnnotates, UserEdits, UserRemovesLabels, UserDeletes, ToggleForeign, CalmDown,
                 Terminated, SourceTerminated, SyncCache, Retarget, pass, jvars
  <2>2. ~Apply /\ ~ApplySource /\ ~Delete /\ ~DeleteSource
    BY <2>1 DEF Apply, ApplySource, Delete, DeleteSource, Goto, GotoWith, Finish
  <2> QED
    BY <2>1, <2>2, CompleteStable
<1> QED
  BY <1>2, <1>3, <1>4, <1>5, <1>6, <1>7, <1>8, <1>9, <1>10, <1>11 DEF JNext, Reconciling

\* InstalledMeansComplete for every catalogue, when the cached client does not
\* lag: a chart that is reported as Installed has its source and its release.
THEOREM InstalledIsComplete ==
    ASSUME ~StaleReads
    PROVE  JSpec => []InstalledMeansComplete
<1>1. JInit => CompleteInv
  BY DEF JInit, CompleteInv, HalvesInv, InstalledMeansComplete
<1>2. TypeInv /\ CompleteInv /\ [JNext]_jvars => CompleteInv'
  BY CompleteStep
<1>3. CompleteInv => InstalledMeansComplete
  BY DEF CompleteInv
<1> QED
  BY <1>1, <1>2, <1>3, EngineTypes, PTL DEF JSpec

=============================================================================
