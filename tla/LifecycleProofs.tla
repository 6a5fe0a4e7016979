-------------------------- MODULE LifecycleProofs --------------------------
(***************************************************************************)
(* The component engine implements Lifecycle: every step of a pass, of the *)
(* users and of the clusters is one step in the life of one component, or  *)
(* none at all.  Nothing is assumed of the cache: this holds under stale   *)
(* reads, too.                                                             *)
(***************************************************************************)
EXTENDS JugglerProofs

\* The refinement mapping of Life.
phases == [c \in Component |-> PhaseOf(c)]

\* The pass deletes what is not enabled.
AimInv == pc \in {"preUninstall", "deleteSource", "delete"} => cur \notin on

LifeInv == TypeInv /\ HookInv /\ SourceInv /\ EnabledInv /\ AimInv

\* A component that reconcileComponent has started to uninstall stays disabled
\* for the rest of the pass: the spec is read once.
LEMMA AimStep == TypeInv /\ AimInv /\ [JNext]_jvars => AimInv'
<1> SUFFICES ASSUME TypeInv, AimInv, [JNext]_jvars PROVE AimInv'
  OBVIOUS
<1> USE DEF AimInv
<1>1. CASE Observe
  BY <1>1 DEF Observe, GotoWith, Finish
<1>2. CASE PreUninstall
  BY <1>2 DEF PreUninstall, Goto, GotoWith, Finish
<1>3. CASE DeleteSource
  BY <1>3 DEF DeleteSource, Goto, GotoWith, Finish
<1>4. CASE PreApply \/ ApplySource
  BY <1>4 DEF PreApply, ApplySource, Goto, GotoWith, Finish
<1>5. CASE Delete \/ CheckInstallable \/ Apply \/ Reobserve \/ CallFails \/ EndPass \/ Crash
  BY <1>5 DEF Delete, CheckInstallable, Apply, Reobserve, CallFails, EndPass, Crash,
              Goto, GotoWith, Finish, Forget
<1>6. CASE \/ \E L \in Registration : \E E \in SUBSET L : StartPass(L, E)
           \/ \E c \in Component : Pick(c)
  BY <1>6 DEF StartPass, Pick
<1>7. CASE Users \/ Cluster \/ Retarget \/ UNCHANGED jvars
  <2>1. UNCHANGED <<pc, cur, on>>
    BY <1>7 DEF Users, Cluster, UserAnnotates, UserEdits, UserRemovesLabels, UserDeletes, ToggleForeign, CalmDown,
                Terminated, SourceTerminated, SyncCache, Retarget, pass, jvars
  <2> QED
    BY <2>1
<1> QED
  BY <1>1, <1>2, <1>3, <1>4, <1>5, <1>6, <1>7 DEF JNext, Reconciling

\* LifeInv is an invariant of the engine, stale reads included.
LEMMA LifeInvariant == JSpec => []LifeInv
<1>1. JInit => SourceInv /\ EnabledInv /\ AimInv
  BY DEF JInit, SourceInv, EnabledInv, Installing, AimInv
<1>2. TypeInv /\ SourceInv /\ EnabledInv /\ AimInv /\ [JNext]_jvars
        => (SourceInv /\ EnabledInv /\ AimInv)'
  BY SourceStep, EnabledStep, AimStep
<1>3. JSpec => [](SourceInv /\ EnabledInv /\ AimInv)
  BY <1>1, <1>2, EngineTypes, PTL DEF JSpec
<1> QED
  BY <1>3, HooksHold, PTL DEF LifeInv

----------------------------------------------------------------------------
(* Steps and their images.                                                  *)

\* Every component is in one of the phases of Lifecycle.
LEMMA PhasesTotal == \A c : PhaseOf(c) \in {"absent", "installed", "leaving"}
BY DEF PhaseOf

\* A step on the resources of one component is a step in its life.
LEMMA OneLife ==
    ASSUME NEW c \in Component,
           \A d \in Component \ {c} : store'[d] = store[d] /\ source'[d] = source[d]
    PROVE  phases' = [phases EXCEPT ![c] = PhaseOf(c)']
<1>1. \A d \in Component \ {c} : PhaseOf(d)' = PhaseOf(d)
  BY DEF PhaseOf
<1> QED
  BY <1>1 DEF phases

\* A step that leaves the phase of its only component alone leaves all alone.
LEMMA NoLife ==
    ASSUME NEW c \in Component, phases' = [phases EXCEPT ![c] = PhaseOf(c)'],
           PhaseOf(c)' = PhaseOf(c)
    PROVE  phases' = phases
BY DEF phases

\* The operator deletes one resource of the current component.
LEMMA RemoveImage ==
    ASSUME LifeInv, DeleteSource \/ Delete
    PROVE  [Life!Next]_(Life!vars)
<1> USE DEF LifeInv
<1>0. cur \in Component /\ cur \notin on \cup Keep /\ on' = on
  BY TypesAssumption
  DEF DeleteSource, Delete, TypeInv, PassInv, PassTypeOK, CurrentOK, Registered, Busy, Step,
      AimInv, HookInv, KeepInv, Goto, GotoWith, Finish
<1>1. PICK c \in Component : c = cur
  BY <1>0
<1>2. \A g \in Guards[c] : g \in Component /\ PhaseOf(g) = "absent"
  BY <1>0, <1>1, HooksAssumption, GuardsAssumption
  DEF DeleteSource, Delete, HookInv, GuardInv, SourceInv, PhaseOf
<1>3. phases' = [phases EXCEPT ![c] = PhaseOf(c)']
  <2>1. \A d \in Component \ {c} : store'[d] = store[d] /\ source'[d] = source[d]
    <3>1. CASE DeleteSource
      BY <1>1, <3>1 DEF DeleteSource, TypeInv, WorldTypeOK
    <3>2. CASE Delete
      BY <1>1, <3>2 DEF Delete, TypeInv, WorldTypeOK
    <3> QED
      BY <3>1, <3>2
  <2> QED
    BY <1>0, <1>1, <2>1, OneLife
<1>4. \/ PhaseOf(c)' = PhaseOf(c)
      \/ PhaseOf(c) = "installed" /\ PhaseOf(c)' = "leaving"
  <2>1. CASE DeleteSource
    BY <1>0, <1>1, <2>1 DEF DeleteSource, Deleted, PhaseOf, TypeInv, WorldTypeOK
  <2>2. CASE Delete
    BY <1>0, <1>1, <2>2 DEF Delete, Deleted, PhaseOf, TypeInv, WorldTypeOK
  <2> QED
    BY <2>1, <2>2
<1>5. CASE PhaseOf(c)' = PhaseOf(c)
  BY <1>0, <1>1, <1>3, <1>5, NoLife DEF Life!vars, phases
<1>6. CASE PhaseOf(c) = "installed" /\ PhaseOf(c)' = "leaving"
  <2>1. Life!Remove(c)
    BY <1>0, <1>1, <1>2, <1>3, <1>6 DEF Life!Remove, phases
  <2> QED
    BY <1>0, <1>1, <2>1 DEF Life!Next
<1> QED
  BY <1>4, <1>5, <1>6

\* The operator creates one resource of the current component.
LEMMA InstallImage ==
    ASSUME LifeInv, ApplySource \/ Apply
    PROVE  [Life!Next]_(Life!vars)
<1> USE DEF LifeInv
<1>0. cur \in Component /\ cur \in on /\ on' = on
  BY TypesAssumption
  DEF ApplySource, Apply, TypeInv, PassInv, PassTypeOK, CurrentOK, Registered, Busy, Step,
      EnabledInv, Installing, Goto, GotoWith, Finish
<1>1. PICK c \in Component : c = cur
  BY <1>0
<1>2. \A g \in Gates[c] : g \in Component /\ PhaseOf(g) = "installed"
  BY <1>0, <1>1, HooksAssumption DEF ApplySource, Apply, HookInv, GateInv, GatesOpen, PhaseOf
<1>3. phases' = [phases EXCEPT ![c] = PhaseOf(c)']
  <2>1. \A d \in Component \ {c} : store'[d] = store[d] /\ source'[d] = source[d]
    <3>1. CASE ApplySource
      BY <1>1, <3>1 DEF ApplySource, TypeInv, WorldTypeOK
    <3>2. CASE Apply
      BY <1>1, <3>2 DEF Apply, TypeInv, WorldTypeOK
    <3> QED
      BY <3>1, <3>2
  <2> QED
    BY <1>0, <1>1, <2>1, OneLife
<1>4. \/ PhaseOf(c)' = PhaseOf(c)
      \/ PhaseOf(c) # "installed" /\ PhaseOf(c)' = "installed"
  <2>1. CASE ApplySource
    BY <1>0, <1>1, <2>1 DEF ApplySource, CreateOrUpdate, PhaseOf, TypeInv, WorldTypeOK
  <2>2. CASE Apply
    BY <1>0, <1>1, <2>2 DEF Apply, CreateOrUpdate, PhaseOf, TypeInv, WorldTypeOK
  <2> QED
    BY <2>1, <2>2
<1>5. CASE PhaseOf(c)' = PhaseOf(c)
  BY <1>0, <1>1, <1>3, <1>5, NoLife DEF Life!vars, phases
<1>6. CASE PhaseOf(c) # "installed" /\ PhaseOf(c)' = "installed"
  <2>1. Life!Install(c)
    BY <1>0, <1>1, <1>2, <1>3, <1>6 DEF Life!Install, phases
  <2> QED
    BY <1>0, <1>1, <2>1 DEF Life!Next
<1> QED
  BY <1>4, <1>5, <1>6

\* The finalizers of one resource complete.
LEMMA GoneImage ==
    ASSUME LifeInv, NEW c \in Component, Terminated(c) \/ SourceTerminated(c)
    PROVE  [Life!Next]_(Life!vars)
<1> USE DEF LifeInv
<1>1. on' = on
  BY DEF Terminated, SourceTerminated, pass
<1>2. phases' = [phases EXCEPT ![c] = PhaseOf(c)']
  BY OneLife DEF Terminated, SourceTerminated, TypeInv, WorldTypeOK
<1>3. \/ PhaseOf(c)' = PhaseOf(c)
      \/ PhaseOf(c) = "leaving" /\ PhaseOf(c)' = "absent"
  BY DEF Terminated, SourceTerminated, PhaseOf, TypeInv, WorldTypeOK, Phase
<1>4. CASE PhaseOf(c)' = PhaseOf(c)
  BY <1>1, <1>2, <1>4, NoLife DEF Life!vars, phases
<1>5. CASE PhaseOf(c) = "leaving" /\ PhaseOf(c)' = "absent"
  <2>1. Life!Gone(c)
    BY <1>1, <1>2, <1>5 DEF Life!Gone, phases
  <2> QED
    BY <2>1 DEF Life!Next
<1> QED
  BY <1>3, <1>4, <1>5

\* A user deletes an object, which has no source beside it.
LEMMA UserImage ==
    ASSUME LifeInv, NEW c \in Touched, UserDeletes(c)
    PROVE  [Life!Next]_(Life!vars)
<1> USE DEF LifeInv
<1>1. on' = on /\ c \in Component /\ c \notin FluxType
  BY TypesAssumption DEF UserDeletes, pass
<1>2. phases' = [phases EXCEPT ![c] = PhaseOf(c)']
  BY <1>1, OneLife DEF UserDeletes, TypeInv, WorldTypeOK
<1>3. PhaseOf(c) = "installed" /\ PhaseOf(c)' = "leaving"
  BY <1>1 DEF UserDeletes, PhaseOf, SourceInv, TypeInv, WorldTypeOK
<1>4. Life!UserRemoves(c)
  BY <1>1, <1>2, <1>3 DEF Life!UserRemoves, phases
<1> QED
  BY <1>1, <1>4 DEF Life!Next

\* The target cluster changes: what stood on the old one is out of sight.
LEMMA MoveImage ==
    ASSUME LifeInv, Retarget
    PROVE  Life!Move
<1>1. on' = on
  BY DEF Retarget, pass
<1>2. phases' = [c \in Component |-> IF c \in Component \ FluxType THEN "absent" ELSE phases[c]]
  BY DEF Retarget, phases, PhaseOf, LifeInv, SourceInv
<1> QED
  BY <1>1, <1>2 DEF Life!Move, phases

\* All other steps write to no cluster; at most the decision changes.
LEMMA DecideImage ==
    ASSUME LifeInv', UNCHANGED <<store, source>>
    PROVE  Life!Decide
<1>1. phases' = phases
  BY DEF phases, PhaseOf
<1>2. on' \in SUBSET Component
  BY DEF LifeInv, TypeInv, PassInv, PassTypeOK
<1> QED
  BY <1>1, <1>2 DEF Life!Decide, phases

\* Every step of the engine and its environment implements a step of Lifecycle.
LEMMA LifeStep == LifeInv /\ LifeInv' /\ [JNext]_jvars => [Life!Next]_(Life!vars)
<1> SUFFICES ASSUME LifeInv, LifeInv', [JNext]_jvars PROVE [Life!Next]_(Life!vars)
  OBVIOUS
<1>1. ASSUME UNCHANGED <<store, source>> PROVE [Life!Next]_(Life!vars)
  BY <1>1, DecideImage DEF Life!Next
<1>2. CASE DeleteSource \/ Delete
  BY <1>2, RemoveImage
<1>3. CASE ApplySource \/ Apply
  BY <1>3, InstallImage
<1>4. CASE \E c \in Component : Terminated(c)
  BY <1>4, GoneImage
<1>5. CASE \E c \in FluxType : SourceTerminated(c) \/ SyncCache(c)
  BY <1>1, <1>5, GoneImage, TypesAssumption DEF SyncCache
<1>6. CASE \E c \in Touched : \/ UserAnnotates(c) \/ UserDeletes(c)
                              \/ UserEdits(c) \/ UserRemovesLabels(c)
  BY <1>1, <1>6, UserImage DEF UserAnnotates, UserEdits, UserRemovesLabels
<1>7. CASE Retarget
  BY <1>7, MoveImage DEF Life!Next
<1>8. CASE Elsewhere
  BY <1>1, <1>8, ElsewhereReads
<1> QED
  BY <1>2, <1>3, <1>4, <1>5, <1>6, <1>7, <1>8 DEF Elsewhere, JNext, Reconciling, Users, Cluster

\* LivesLifecycle for every catalogue, stale reads included: reconcileComponent,
\* with its two resources per chart and its failing calls, implements the life
\* that Lifecycle describes.
THEOREM EngineLivesLifecycle == JSpec => LivesLifecycle
<1>1. JInit => Life!Init
  BY DEF JInit, Life!Init, PhaseOf
<1> QED
  BY <1>1, LifeInvariant, LifeStep, PTL DEF JSpec, LivesLifecycle, Life!Spec

=============================================================================
