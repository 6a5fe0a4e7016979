------------------------- MODULE ControlPlaneProofs -------------------------
(***************************************************************************)
(* Proofs about ControlPlaneReconciler around the component engine, for    *)
(* every set of components and every catalogue that satisfies the          *)
(* assumptions of Juggler and ControlPlane: it drives the engine as Juggler *)
(* allows, leaks nothing, keeps flux served and its providers policed.     *)
(***************************************************************************)
EXTENDS ControlPlane, LifecycleProofs

----------------------------------------------------------------------------
(* Types, and the engine inside.                                            *)

\* What newJuggler registers is a registration, and it enables part of it.
LEMMA Lists ==
    ASSUME NEW s, s.spec \subseteq Choice, available \subseteq Copied
    PROVE  /\ ListedIn(s) \in Registration
           /\ EnabledIn(s) \subseteq ListedIn(s)
           /\ ~s.deleted => Base \subseteq EnabledIn(s)
<1> USE TypesAssumption, NestedAssumption DEF Choice, Copied, Base
<1>1. ListedIn(s) \subseteq Component /\ Component \ Detected \subseteq ListedIn(s)
  BY DEF ListedIn
<1>2. EnabledIn(s) \subseteq ListedIn(s)
  BY DEF ListedIn, EnabledIn
<1>3. ~s.deleted => Base \subseteq EnabledIn(s)
  BY DEF EnabledIn
<1> QED
  BY <1>1, <1>2, <1>3 DEF Registration

\* Reconcile takes the steps of the engine and no others.
LEMMA EngineStep == ReconcilerTypeOK /\ [Next]_vars => [JNext]_jvars
<1> SUFFICES ASSUME ReconcilerTypeOK, [Next]_vars PROVE [JNext]_jvars
  OBVIOUS
<1>1. CASE newJuggler
  <2>1. ListedIn(snap) \in Registration /\ EnabledIn(snap) \in SUBSET ListedIn(snap)
    BY Lists DEF ReconcilerTypeOK, Snapshots
  <2> QED
    BY <1>1, <2>1 DEF newJuggler, JNext
<1>2. CASE Juggle \/ Updated \/ ComponentsDeleted \/ Restart \/ ClusterStep \/ TargetUsers
  BY <1>2, TypesAssumption
  DEF Juggle, Updated, ComponentsDeleted, Restart, ClusterStep, TargetUsers, Cluster, JNext
<1>3. CASE \/ Get \/ ensureNamespace \/ ApplyAccount \/ ApplyBinding \/ ensureKubeconfig
           \/ NothingToDelete \/ ensureFinalizer \/ DeleteComponents \/ DeleteBindings
           \/ DeleteAccounts \/ removeFinalizer \/ ReconcileFails
  BY <1>3 DEF Get, SameTarget, OtherTarget, JNext, ensureNamespace, ApplyAccount, ApplyBinding,
              ensureKubeconfig, NothingToDelete, ensureFinalizer, DeleteComponents, DeleteBindings,
              DeleteAccounts, removeFinalizer, ReconcileFails
<1>4. CASE \/ UserCreates \/ UserEditsSpec \/ UserDeletesControlPlane \/ OtherFinalizerRemoved
           \/ NamespaceCollected \/ Rest \/ UNCHANGED vars
           \/ \E c \in Copied : PullSecretToggled(c)
  BY <1>4 DEF UserCreates, UserEditsSpec, UserDeletesControlPlane, OtherFinalizerRemoved,
              NamespaceCollected, Rest, PullSecretToggled, vars
<1> QED
  BY <1>1, <1>2, <1>3, <1>4 DEF Next, Reconcile, Environment

\* Every write to the ControlPlane, and every one to the snapshot, keeps its type.
LEMMA ControlPlaneWrites ==
    /\ NoControlPlane \in ControlPlanes
    /\ [NoControlPlane EXCEPT !.present = TRUE] \in ControlPlanes
    /\ \A c \in ControlPlanes : Stored(c) \in ControlPlanes
    /\ \A c \in ControlPlanes, b \in BOOLEAN :
          /\ [c EXCEPT !.own = b] \in ControlPlanes
          /\ [c EXCEPT !.other = b] \in ControlPlanes
          /\ [c EXCEPT !.deleted = TRUE, !.other = b] \in ControlPlanes
<1>1. NoControlPlane \in ControlPlanes
  BY DEF NoControlPlane, ControlPlanes
<1>2. [NoControlPlane EXCEPT !.present = TRUE] \in ControlPlanes
  BY DEF NoControlPlane, ControlPlanes
<1>3. \A c \in ControlPlanes : Stored(c) \in ControlPlanes
  BY <1>1 DEF Stored
<1>4. \A c \in ControlPlanes, b \in BOOLEAN : [c EXCEPT !.own = b] \in ControlPlanes
  BY DEF ControlPlanes
<1>5. \A c \in ControlPlanes, b \in BOOLEAN : [c EXCEPT !.other = b] \in ControlPlanes
  BY DEF ControlPlanes
<1>6. \A c \in ControlPlanes, b \in BOOLEAN :
         [c EXCEPT !.deleted = TRUE, !.other = b] \in ControlPlanes
  BY DEF ControlPlanes
<1> QED
  BY <1>1, <1>2, <1>3, <1>4, <1>5, <1>6

LEMMA SnapshotWrites ==
    /\ NoSnapshot \in Snapshots
    /\ \A s \in Snapshots : /\ [s EXCEPT !.own = TRUE] \in Snapshots
                            /\ [s EXCEPT !.spec = {}] \in Snapshots
                            /\ [s EXCEPT !.current = FALSE] \in Snapshots
    /\ \A c \in ControlPlanes, S \in SUBSET Choice :
          [deleted |-> c.deleted, own |-> c.own, spec |-> S, current |-> TRUE] \in Snapshots
<1>1. NoSnapshot \in Snapshots
  BY DEF NoSnapshot, Snapshots
<1>2. \A s \in Snapshots : [s EXCEPT !.own = TRUE] \in Snapshots
  BY DEF Snapshots
<1>3. \A s \in Snapshots : [s EXCEPT !.spec = {}] \in Snapshots
  BY DEF Snapshots
<1>4. \A s \in Snapshots : [s EXCEPT !.current = FALSE] \in Snapshots
  BY DEF Snapshots
<1>5. \A c \in ControlPlanes, S \in SUBSET Choice :
         [deleted |-> c.deleted, own |-> c.own, spec |-> S, current |-> TRUE] \in Snapshots
  BY DEF ControlPlanes, Snapshots
<1> QED
  BY <1>1, <1>2, <1>3, <1>4, <1>5

\* The variables of Reconcile start in their types.
LEMMA ReconcilerTypeInit == Init => ReconcilerTypeOK
  BY ControlPlaneWrites, SnapshotWrites DEF Init, ReconcilerTypeOK, Steps

\* Every step keeps them there.
LEMMA ReconcilerTypeStep == ReconcilerTypeOK /\ [Next]_vars => ReconcilerTypeOK'
<1> SUFFICES ASSUME ReconcilerTypeOK, [Next]_vars PROVE ReconcilerTypeOK'
  OBVIOUS
<1> USE ControlPlaneWrites, SnapshotWrites DEF ReconcilerTypeOK, Steps
<1>1. CASE Get
  BY <1>1 DEF Get, SameTarget, OtherTarget
<1>2. CASE ensureNamespace \/ ApplyAccount \/ ApplyBinding
  BY <1>2 DEF ensureNamespace, ApplyAccount, ApplyBinding, Access
<1>3. CASE ensureKubeconfig
  BY <1>3 DEF ensureKubeconfig, Return
<1>4. CASE NothingToDelete \/ DeleteComponents
  BY <1>4 DEF NothingToDelete, DeleteComponents, Return, Advance
<1>5. CASE ensureFinalizer
  BY <1>5 DEF ensureFinalizer, Return, Advance
<1>6. CASE newJuggler
  BY <1>6 DEF newJuggler
<1>7. CASE Updated \/ ComponentsDeleted
  BY <1>7 DEF Updated, ComponentsDeleted, Return, Advance
<1>8. CASE DeleteBindings \/ DeleteAccounts \/ ReconcileFails
  BY <1>8 DEF DeleteBindings, DeleteAccounts, ReconcileFails, Return
<1>9. CASE removeFinalizer
  BY <1>9 DEF removeFinalizer, Return
<1>10. CASE Restart
  <2>1. cp.present \in BOOLEAN
    BY DEF ControlPlanes
  <2> QED
    BY <1>10, <2>1 DEF Restart
<1>11. CASE UserCreates \/ UserEditsSpec
  BY <1>11 DEF UserCreates, UserEditsSpec, Written
<1>12. CASE UserDeletesControlPlane \/ OtherFinalizerRemoved
  BY <1>12 DEF UserDeletesControlPlane, OtherFinalizerRemoved, Written
<1>13. CASE NamespaceCollected \/ \E c \in Copied : PullSecretToggled(c)
  BY <1>13 DEF NamespaceCollected, PullSecretToggled
<1>14. CASE Juggle \/ ClusterStep \/ TargetUsers \/ Rest \/ UNCHANGED vars
  BY <1>14 DEF Juggle, ClusterStep, TargetUsers, Rest, vars, outer
<1> QED
  BY <1>1, <1>2, <1>3, <1>4, <1>5, <1>6, <1>7, <1>8, <1>9, <1>10, <1>11, <1>12, <1>13, <1>14
     DEF Next, Reconcile, Environment

\* Every behaviour of Reconcile and its surroundings is one of the engine, so
\* that what is proved of the engine holds of its use (newJuggler, Reconcile).
THEOREM EngineRefined == Spec => EngineSpec
<1>1. Init => JInit
  BY DEF Init
<1> QED
  BY <1>1, EngineStep, ReconcilerTypeInit, ReconcilerTypeStep, PTL DEF Spec, EngineSpec, JSpec

\* The type invariant of the ControlPlane reconciler and of the engine.
THEOREM ReconcilerTypes == Spec => []ControlPlaneTypeOK
<1>1. Spec => []ReconcilerTypeOK
  BY ReconcilerTypeInit, ReconcilerTypeStep, PTL DEF Spec
<1> QED
  BY <1>1, EngineRefined, TypeCorrect, PTL DEF EngineSpec, ControlPlaneTypeOK

----------------------------------------------------------------------------
(* What a running Reconcile may rely on, although users write meanwhile.     *)

\* The snapshot and the ControlPlane.  The finalizer that a Reconcile has seen
\* or set stays until that Reconcile removes it, so that a deletion that it has
\* seen is not undone by a new ControlPlane; with its last finalizer the
\* ControlPlane goes, and nothing of it is left.
SnapInv ==
    /\ ~cp.present => ~cp.deleted /\ ~cp.own
    /\ snap.own => cp.own
    /\ snap.own /\ snap.deleted => cp.deleted
    /\ snap.current => cp.present /\ cp.own = snap.own /\ cp.deleted = snap.deleted

\* The place in Reconcile.  Components are touched and flux loses its access
\* only under the finalizer, and the latter only for a deleted ControlPlane.
TearDown == {"unbind", "unaccount", "release"}
PlaceInv ==
    /\ step # "juggle" => pc = "idle"
    /\ step \in TearDown \cup {"juggle"} => snap.own
    /\ step \in TearDown => snap.deleted
    /\ step = "unaccount" => "ClusterRoleBinding" \notin access
    /\ step = "release" => access = {}

\* What has been prepared for flux is there when the components are touched.
\* Nobody else takes away its access; its namespace stays with the ControlPlane.
Held == snap.own \/ snap.current
PrepInv ==
    /\ step \in {"binding", "kubeconfig", "branch", "juggle"} => "ServiceAccount" \in access
    /\ step \in {"kubeconfig", "branch", "juggle"} => "ClusterRoleBinding" \in access
    /\ step \in {"account", "binding", "kubeconfig", "branch", "juggle"} /\ Held => namespace
    /\ step \in {"branch", "juggle"} /\ Held => kubeconfig # "none"

\* Every pass for a ControlPlane that is not deleted enables what is always
\* registered, the policies among it.
BaseInv == pc # "idle" /\ ~snap.deleted => Base \subseteq on

\* When the access of flux is taken away, and later the finalizer, everything
\* is gone that is not kept, as far as the pass could see.
GoneAtTearDown ==
    step \in TearDown =>
        \A c \in Component \ Keep : ~Lags(c) => ~Remains(c) \/ c \in unlabelled

\* A write of somebody else takes nothing but its currency from the snapshot.
LEMMA WrittenSnap ==
    ASSUME ReconcilerTypeOK, Written
    PROVE  snap'.own = snap.own /\ snap'.deleted = snap.deleted /\ snap'.current = FALSE
BY DEF ReconcilerTypeOK, Snapshots, Written

\* A Reconcile that returns remembers nothing.
LEMMA ReturnSnap ==
    ASSUME NEW again, Return(again)
    PROVE  snap'.own = FALSE /\ snap'.deleted = FALSE /\ snap'.current = FALSE /\ step' = "idle"
BY DEF Return, NoSnapshot

\* What the ControlPlane looks like after a write to its finalizers.
LEMMA StoredFields ==
    ASSUME NEW c \in ControlPlanes
    PROVE  /\ c.own => Stored(c) = c
           /\ Stored(c).present => Stored(c) = c
           /\ ~Stored(c).present /\ c.present => ~c.own /\ Stored(c) = NoControlPlane
BY DEF ControlPlanes, Stored, NoControlPlane

\* The relation of the snapshot to the ControlPlane is inductive.
LEMMA SnapStep == ReconcilerTypeOK /\ SnapInv /\ [Next]_vars => SnapInv'
<1> SUFFICES ASSUME ReconcilerTypeOK, SnapInv, [Next]_vars PROVE SnapInv'
  OBVIOUS
<1> USE DEF ReconcilerTypeOK, SnapInv
<1>1. CASE UNCHANGED <<cp, snap>>
  BY <1>1
<1>2. ASSUME UNCHANGED cp, NEW again, Return(again) PROVE SnapInv'
  BY <1>2, ReturnSnap
<1>3. CASE Get
  BY <1>3 DEF Get
<1>4. CASE ensureNamespace \/ ApplyAccount \/ ApplyBinding \/ DeleteBindings \/ DeleteAccounts
           \/ Juggle \/ NamespaceCollected \/ ClusterStep \/ TargetUsers \/ Rest
           \/ (\E c \in Copied : PullSecretToggled(c)) \/ UNCHANGED vars
  BY <1>4, <1>1 DEF ensureNamespace, ApplyAccount, ApplyBinding, DeleteBindings, DeleteAccounts,
     Juggle, NamespaceCollected, ClusterStep, TargetUsers, Rest, PullSecretToggled, vars, outer
<1>5. CASE ensureKubeconfig \/ NothingToDelete \/ DeleteComponents \/ Updated
           \/ ComponentsDeleted \/ ReconcileFails
  BY <1>5, <1>1, <1>2 DEF ensureKubeconfig, NothingToDelete, DeleteComponents, Updated,
     ComponentsDeleted, ReconcileFails, Advance
<1>6. CASE ensureFinalizer
  <2>1. CASE cp' = [cp EXCEPT !.own = TRUE] /\ snap' = [snap EXCEPT !.own = TRUE] /\ snap.current
    BY <2>1 DEF ControlPlanes, Snapshots
  <2> QED
    BY <1>6, <1>1, <1>2, <2>1 DEF ensureFinalizer, Advance
<1>7. CASE newJuggler
  BY <1>7 DEF newJuggler, Snapshots
<1>8. CASE removeFinalizer
  <2>1. CASE snap.current /\ cp' = Stored([cp EXCEPT !.own = FALSE]) /\ Return(TRUE)
    <3> DEFINE new == [cp EXCEPT !.own = FALSE]
    <3>1. new \in ControlPlanes
      BY ControlPlaneWrites
    <3>2. new.present
      BY <2>1 DEF ControlPlanes
    <3>3. ~cp'.present => cp' = NoControlPlane
      BY <2>1, <3>1, <3>2, StoredFields
    <3>4. ~cp'.present => ~cp'.deleted /\ ~cp'.own
      BY <3>3 DEF NoControlPlane
    <3> QED
      BY <2>1, <3>4, ReturnSnap
  <2> QED
    BY <1>8, <1>2, <2>1 DEF removeFinalizer
<1>9. CASE Restart
  BY <1>9 DEF Restart, NoSnapshot
<1>10. CASE UserCreates
  <2>1. cp'.present
    BY <1>10 DEF UserCreates, NoControlPlane
  <2> QED
    BY <1>10, <2>1, WrittenSnap DEF UserCreates
<1>11. CASE UserEditsSpec
  BY <1>11, WrittenSnap DEF UserEditsSpec
<1>12. CASE UserDeletesControlPlane
  <2>1. PICK o \in BOOLEAN : cp' = Stored([cp EXCEPT !.deleted = TRUE, !.other = o])
    BY <1>12 DEF UserDeletesControlPlane
  <2> DEFINE new == [cp EXCEPT !.deleted = TRUE, !.other = o]
  <2>2. new \in ControlPlanes
    BY ControlPlaneWrites
  <2>3. new.present /\ new.deleted /\ new.own = cp.own
    BY <1>12 DEF ControlPlanes, UserDeletesControlPlane
  <2>4. Written /\ cp' = Stored(new)
    BY <1>12, <2>1 DEF UserDeletesControlPlane
  <2>5. (~cp'.present => cp' = NoControlPlane) /\ (cp.own => cp' = new)
    BY <2>2, <2>3, <2>4, StoredFields
  <2>6. ~cp'.present => ~cp'.deleted /\ ~cp'.own
    BY <2>5 DEF NoControlPlane
  <2> QED
    BY <2>3, <2>4, <2>5, <2>6, WrittenSnap
<1>13. CASE OtherFinalizerRemoved
  <2> DEFINE new == [cp EXCEPT !.other = FALSE]
  <2>1. new \in ControlPlanes
    BY ControlPlaneWrites
  <2>2. new.present /\ new.deleted /\ new.own = cp.own
    BY <1>13 DEF ControlPlanes, OtherFinalizerRemoved
  <2>3. Written /\ cp' = Stored(new)
    BY <1>13 DEF OtherFinalizerRemoved
  <2>4. (~cp'.present => cp' = NoControlPlane) /\ (cp.own => cp' = new)
    BY <2>1, <2>2, <2>3, StoredFields
  <2>5. ~cp'.present => ~cp'.deleted /\ ~cp'.own
    BY <2>4 DEF NoControlPlane
  <2> QED
    BY <2>2, <2>3, <2>4, <2>5, WrittenSnap
<1> QED
  BY <1>3, <1>4, <1>5, <1>6, <1>7, <1>8, <1>9, <1>10, <1>11, <1>12, <1>13
     DEF Next, Reconcile, Environment

\* Only Reconcile and a crash touch the memory of the engine.
LEMMA PassUntouched ==
    ASSUME \/ ClusterStep \/ TargetUsers \/ UserCreates \/ UserEditsSpec
           \/ UserDeletesControlPlane \/ OtherFinalizerRemoved \/ NamespaceCollected \/ Rest
           \/ (\E c \in Copied : PullSecretToggled(c)) \/ UNCHANGED vars
    PROVE  UNCHANGED <<pc, on>> /\ UNCHANGED <<step, access>>
<1>1. CASE ClusterStep \/ TargetUsers
  BY <1>1 DEF ClusterStep, TargetUsers, Users, Terminated, SourceTerminated, SyncCache,
     UserAnnotates, UserEdits, UserRemovesLabels, UserDeletes, ToggleForeign, CalmDown, pass, outer
<1>2. CASE \/ UserCreates \/ UserEditsSpec \/ UserDeletesControlPlane \/ OtherFinalizerRemoved
           \/ NamespaceCollected \/ Rest \/ (\E c \in Copied : PullSecretToggled(c))
           \/ UNCHANGED vars
  BY <1>2 DEF UserCreates, UserEditsSpec, UserDeletesControlPlane, OtherFinalizerRemoved,
     NamespaceCollected, Rest, PullSecretToggled, vars, outer, jvars
<1> QED
  BY <1>1, <1>2

\* ... and those steps leave the snapshot what it is, but for its currency.
LEMMA SnapUntouched ==
    ASSUME ReconcilerTypeOK,
           \/ ClusterStep \/ TargetUsers \/ UserCreates \/ UserEditsSpec
           \/ UserDeletesControlPlane \/ OtherFinalizerRemoved \/ NamespaceCollected \/ Rest
           \/ (\E c \in Copied : PullSecretToggled(c)) \/ UNCHANGED vars
    PROVE  /\ snap'.own = snap.own /\ snap'.deleted = snap.deleted
           /\ snap'.current => snap.current
<1>1. CASE UserCreates \/ UserEditsSpec \/ UserDeletesControlPlane \/ OtherFinalizerRemoved
  BY <1>1, WrittenSnap DEF UserCreates, UserEditsSpec, UserDeletesControlPlane,
     OtherFinalizerRemoved
<1>2. CASE \/ ClusterStep \/ TargetUsers \/ NamespaceCollected \/ Rest
           \/ (\E c \in Copied : PullSecretToggled(c)) \/ UNCHANGED vars
  BY <1>2 DEF ClusterStep, TargetUsers, NamespaceCollected, Rest, PullSecretToggled, vars, outer
<1> QED
  BY <1>1, <1>2

\* The relation of the step of Reconcile to the snapshot and to the access of
\* flux is inductive.
LEMMA PlaceStep == ReconcilerTypeOK /\ PlaceInv /\ [Next]_vars => PlaceInv'
<1> SUFFICES ASSUME ReconcilerTypeOK, PlaceInv, [Next]_vars PROVE PlaceInv'
  OBVIOUS
<1> USE DEF PlaceInv, TearDown
<1>1. ASSUME step' = "idle", pc' = "idle" PROVE PlaceInv'
  BY <1>1
<1>2. ASSUME NEW again, Return(again), pc' = "idle" PROVE PlaceInv'
  BY <1>1, <1>2, ReturnSnap
<1>3. CASE Get \/ ensureNamespace \/ ApplyAccount \/ ApplyBinding
  BY <1>3 DEF Get, SameTarget, OtherTarget, Retarget, pass, ensureNamespace, ApplyAccount,
     ApplyBinding, jvars
<1>4. CASE ensureKubeconfig
  BY <1>2, <1>4 DEF ensureKubeconfig, jvars
<1>5. CASE NothingToDelete \/ ReconcileFails \/ removeFinalizer
  BY <1>2, <1>5 DEF NothingToDelete, ReconcileFails, removeFinalizer, jvars
<1>6. CASE DeleteComponents
  BY <1>6 DEF DeleteComponents, Advance, jvars
<1>7. CASE ensureFinalizer
  <2>1. CASE snap' = [snap EXCEPT !.own = TRUE] /\ step' = "juggle"
    BY <2>1 DEF ReconcilerTypeOK, Snapshots
  <2> QED
    BY <1>2, <1>7, <2>1 DEF ensureFinalizer, Advance, jvars
<1>8. CASE newJuggler
  BY <1>8 DEF newJuggler, ReconcilerTypeOK, Snapshots
<1>9. CASE Juggle
  BY <1>9 DEF Juggle, outer
<1>10. CASE Updated \/ ComponentsDeleted
  BY <1>2, <1>10 DEF Updated, ComponentsDeleted, EndPass, Forget, Advance
<1>11. CASE DeleteBindings \/ DeleteAccounts
  BY <1>11 DEF DeleteBindings, DeleteAccounts, ReconcilerTypeOK, Access, jvars
<1>12. CASE Restart
  BY <1>1, <1>12 DEF Restart, Crash, Forget
<1>13. CASE \/ ClusterStep \/ TargetUsers \/ UserCreates \/ UserEditsSpec
            \/ UserDeletesControlPlane \/ OtherFinalizerRemoved \/ NamespaceCollected \/ Rest
            \/ (\E c \in Copied : PullSecretToggled(c)) \/ UNCHANGED vars
  BY <1>13, PassUntouched, SnapUntouched
<1> QED
  BY <1>3, <1>4, <1>5, <1>6, <1>7, <1>8, <1>9, <1>10, <1>11, <1>12, <1>13
     DEF Next, Reconcile, Environment

\* What has been prepared for flux stays prepared.
LEMMA PrepStep ==
    ReconcilerTypeOK /\ SnapInv /\ PrepInv /\ [Next]_vars => PrepInv'
<1> SUFFICES ASSUME ReconcilerTypeOK, SnapInv, PrepInv, [Next]_vars PROVE PrepInv'
  OBVIOUS
<1> USE DEF PrepInv, Held
<1>1. ASSUME step' \in {"idle", "namespace"} \cup TearDown PROVE PrepInv'
  BY <1>1 DEF TearDown
<1>2. ASSUME NEW again, Return(again) PROVE PrepInv'
  BY <1>1, <1>2, ReturnSnap
<1>3. CASE Get \/ ensureNamespace \/ ApplyAccount \/ ApplyBinding
  BY <1>3 DEF Get, ensureNamespace, ApplyAccount, ApplyBinding
<1>4. CASE ensureKubeconfig
  BY <1>2, <1>4 DEF ensureKubeconfig
<1>5. CASE NothingToDelete \/ ReconcileFails \/ removeFinalizer \/ Updated
  BY <1>2, <1>5 DEF NothingToDelete, ReconcileFails, removeFinalizer, Updated
<1>6. CASE ComponentsDeleted \/ DeleteBindings \/ DeleteAccounts \/ Restart
  BY <1>1, <1>2, <1>6 DEF ComponentsDeleted, DeleteBindings, DeleteAccounts, Restart, Advance,
     TearDown
<1>7. CASE DeleteComponents
  BY <1>7 DEF DeleteComponents, Advance
<1>8. CASE ensureFinalizer
  <2>1. CASE /\ step = "branch" /\ snap.current /\ step' = "juggle"
             /\ UNCHANGED <<access, namespace, kubeconfig>>
    BY <2>1
  <2>2. CASE snap.own /\ Advance("juggle")
    BY <1>8, <2>2 DEF ensureFinalizer, Advance
  <2> QED
    BY <1>2, <1>8, <2>1, <2>2 DEF ensureFinalizer
<1>9. CASE newJuggler
  BY <1>9 DEF newJuggler, ReconcilerTypeOK, Snapshots
<1>10. CASE NamespaceCollected
  BY <1>10 DEF NamespaceCollected, SnapInv
<1>11. CASE \/ ClusterStep \/ TargetUsers \/ UserCreates \/ UserEditsSpec
            \/ UserDeletesControlPlane \/ OtherFinalizerRemoved \/ Rest
            \/ (\E c \in Copied : PullSecretToggled(c)) \/ UNCHANGED vars
  <2>1. UNCHANGED <<namespace, kubeconfig>>
    BY <1>11 DEF ClusterStep, TargetUsers, UserCreates, UserEditsSpec, UserDeletesControlPlane,
       OtherFinalizerRemoved, Rest, PullSecretToggled, vars, outer
  <2> QED
    BY <1>11, <2>1, PassUntouched, SnapUntouched
<1>12. CASE Juggle
  BY <1>12 DEF Juggle, outer
<1> QED
  BY <1>3, <1>4, <1>5, <1>6, <1>7, <1>8, <1>9, <1>10, <1>11, <1>12
     DEF Next, Reconcile, Environment

\* The engine does not change its mind about what is enabled during a pass.
LEMMA OnFixed ==
    ASSUME Reconciling
    PROVE  on' = on
BY DEF Reconciling, Pick, Observe, PreUninstall, DeleteSource, Delete, CheckInstallable, PreApply,
       ApplySource, Apply, Reobserve, CallFails, Goto, GotoWith, Finish

\* What a pass enables follows from the deletion mark of its snapshot.
LEMMA BaseStep == ReconcilerTypeOK /\ PlaceInv /\ BaseInv /\ [Next]_vars => BaseInv'
<1> SUFFICES ASSUME ReconcilerTypeOK, PlaceInv, BaseInv, [Next]_vars PROVE BaseInv'
  OBVIOUS
<1> USE DEF BaseInv
<1>1. ASSUME pc' = "idle" PROVE BaseInv'
  BY <1>1
<1>2. CASE newJuggler
  <2>1. ~snap.deleted => Base \subseteq EnabledIn(snap)
    BY Lists DEF ReconcilerTypeOK, Snapshots
  <2>2. snap'.deleted = snap.deleted /\ on' = EnabledIn(snap)
    BY <1>2 DEF newJuggler, StartPass, ReconcilerTypeOK, Snapshots
  <2> QED
    BY <2>1, <2>2
<1>3. CASE Juggle
  <2>1. pc # "idle"
    BY <1>3 DEF Juggle, Reconciling, Pick, Observe, PreUninstall, DeleteSource, Delete,
       CheckInstallable, PreApply, ApplySource, Apply, Reobserve, CallFails
  <2> QED
    BY <1>3, <2>1, OnFixed DEF Juggle, outer
<1>4. CASE \/ Get \/ ensureNamespace \/ ApplyAccount \/ ApplyBinding \/ ensureKubeconfig
           \/ NothingToDelete \/ ensureFinalizer \/ DeleteComponents \/ DeleteBindings
           \/ DeleteAccounts \/ removeFinalizer \/ ReconcileFails
  <2>1. pc' = pc /\ (step = "juggle" => pc = "idle")
    BY <1>4 DEF Get, SameTarget, OtherTarget, Retarget, pass, ensureNamespace, ApplyAccount,
       ApplyBinding, ensureKubeconfig, NothingToDelete, ensureFinalizer, DeleteComponents,
       DeleteBindings, DeleteAccounts, removeFinalizer, ReconcileFails, jvars
  <2> QED
    BY <1>1, <2>1 DEF PlaceInv
<1>5. CASE Updated \/ ComponentsDeleted \/ Restart
  BY <1>1, <1>5 DEF Updated, ComponentsDeleted, Restart, EndPass, Crash, Forget
<1>6. CASE \/ ClusterStep \/ TargetUsers \/ UserCreates \/ UserEditsSpec
           \/ UserDeletesControlPlane \/ OtherFinalizerRemoved \/ NamespaceCollected \/ Rest
           \/ (\E c \in Copied : PullSecretToggled(c)) \/ UNCHANGED vars
  BY <1>6, PassUntouched, SnapUntouched
<1> QED
  BY <1>2, <1>3, <1>4, <1>5, <1>6 DEF Next, Reconcile, Environment

----------------------------------------------------------------------------
(* The invariant of the whole.                                              *)

\* What is proved of the engine holds of the engine in here.
EngineInv == TypeInv /\ HookInv /\ SweepInv /\ AimInv
LEMMA EngineInvariant == Spec => []EngineInv
<1> QED
  BY EngineRefined, HooksHold, SweepInvariant, LifeInvariant, PTL
     DEF EngineSpec, EngineInv, LifeInv

\* What is known around it.
ReconcilerInv == ReconcilerTypeOK /\ SnapInv /\ PlaceInv /\ PrepInv /\ BaseInv
LEMMA ReconcilerInvariant == Spec => []ReconcilerInv
<1>1. Init => SnapInv
  BY DEF Init, SnapInv, NoControlPlane, NoSnapshot
<1>2. Init => PlaceInv /\ PrepInv /\ BaseInv
  BY DEF Init, JInit, PlaceInv, PrepInv, BaseInv, TearDown
<1> QED
  BY <1>1, <1>2, ReconcilerTypeInit, ReconcilerTypeStep, SnapStep, PlaceStep, PrepStep, BaseStep,
     PTL DEF Spec, ReconcilerInv

\* Components are created under the finalizer, on prepared ground.
LEMMA CreatedUnderFinalizer ==
    ASSUME ReconcilerInv, pc # "idle"
    PROVE  /\ step = "juggle" /\ snap.own /\ cp.own
           /\ CanUninstall /\ namespace
BY DEF ReconcilerInv, ReconcilerTypeOK, PlaceInv, SnapInv, PrepInv, Held, Access, CanUninstall

\* What users take the labels off is an object, without a flux source.
LEMMA TouchedHasNoSource ==
    ASSUME EngineInv, NEW c \in unlabelled
    PROVE  c \in Component /\ c \notin FluxType /\ source[c] = "absent"
BY TypesAssumption DEF EngineInv, TypeInv, WorldTypeOK, SweepInv, SourceInv

\* Between the last pass and the removal of the finalizer nothing comes back:
\* deleteControlPlaneComponents has found everything Disabled.  What has lost its
\* labels may be there all the time.
LEMMA TearDownStep ==
    EngineInv /\ ReconcilerInv /\ GoneAtTearDown /\ [Next]_vars => GoneAtTearDown'
<1> SUFFICES ASSUME EngineInv, ReconcilerInv, GoneAtTearDown, [Next]_vars, step' \in TearDown,
                    NEW c \in Component \ Keep, ~Lags(c)
             PROVE  (store'[c] = "absent" /\ source'[c] = "absent") \/ c \in unlabelled'
  BY DEF GoneAtTearDown, Remains, Lags
<1>1. [JNext]_jvars
  BY EngineStep DEF ReconcilerInv
<1>2. CASE step \in TearDown
  <2>1. (store[c] = "absent" /\ source[c] = "absent") \/ c \in unlabelled
    BY <1>2 DEF GoneAtTearDown, Remains
  <2>2. ~Apply /\ ~ApplySource
    BY <1>2, CreatedUnderFinalizer DEF TearDown, Apply, ApplySource
  <2>3. source[c] = "absent"
    BY <2>1, TouchedHasNoSource DEF EngineInv
  <2>4. c \in unlabelled => c \in unlabelled' \/ store'[c] = "absent"
    BY <1>1, <2>2, LabelsReturn DEF EngineInv
  <2> QED
    BY <1>1, <2>1, <2>2, <2>3, <2>4, Creation DEF EngineInv
<1>3. CASE step \notin TearDown
  <2>1. ComponentsDeleted /\ AllDisabled /\ PassDone /\ UNCHANGED <<store, source, unlabelled>>
    <3>1. ASSUME NEW again, Return(again) PROVE FALSE
      BY <3>1 DEF Return, TearDown
    <3>2. ~(Get \/ ensureNamespace \/ ApplyAccount \/ ApplyBinding \/ DeleteComponents)
      BY DEF Get, ensureNamespace, ApplyAccount, ApplyBinding, DeleteComponents, Advance, TearDown,
             ReconcilerInv
    <3>3. ~(ensureKubeconfig \/ NothingToDelete \/ ensureFinalizer)
      BY <3>1 DEF ensureKubeconfig, NothingToDelete, ensureFinalizer, Advance, TearDown
    <3>4. ~(newJuggler \/ Juggle \/ Updated \/ removeFinalizer \/ ReconcileFails \/ Restart)
      BY <3>1, <1>3 DEF newJuggler, Juggle, Updated, removeFinalizer, ReconcileFails, Restart,
                        outer, TearDown
    <3>5. ~(DeleteBindings \/ DeleteAccounts)
      BY <1>3 DEF DeleteBindings, DeleteAccounts, TearDown
    <3>6. ~( \/ ClusterStep \/ TargetUsers \/ UserCreates \/ UserEditsSpec
             \/ UserDeletesControlPlane \/ OtherFinalizerRemoved \/ NamespaceCollected \/ Rest
             \/ (\E d \in Copied : PullSecretToggled(d)) \/ UNCHANGED vars)
      BY <1>3, PassUntouched
    <3>7. ComponentsDeleted
      BY <3>2, <3>3, <3>4, <3>5, <3>6 DEF Next, Reconcile, Environment
    <3> QED
      BY <3>1, <3>7 DEF ComponentsDeleted, EndPass, world
  <2> QED
    BY <2>1, Swept DEF EngineInv
<1> QED
  BY <1>2, <1>3

\* The whole invariant.
WholeInv == EngineInv /\ ReconcilerInv /\ GoneAtTearDown
LEMMA WholeInvariant == Spec => []WholeInv
<1>1. Init => GoneAtTearDown
  BY DEF Init, GoneAtTearDown, TearDown
<1> QED
  BY <1>1, EngineInvariant, ReconcilerInvariant, TearDownStep, PTL DEF Spec, WholeInv

----------------------------------------------------------------------------
(* The finalizer.                                                           *)

\* The finalizer of the operator is removed by removeFinalizer alone: a user
\* who deletes the ControlPlane only marks it as long as it is there.
LEMMA OwnKept ==
    ASSUME ReconcilerInv, [Next]_vars, cp.own, ~(cp'.present /\ cp'.own)
    PROVE  removeFinalizer
<1> USE DEF ReconcilerInv, ReconcilerTypeOK, SnapInv
<1>1. cp.present
  OBVIOUS
<1>2. cp' # cp
  BY <1>1
<1>3. ~ensureFinalizer
  <2>1. ASSUME cp' = [cp EXCEPT !.own = TRUE] PROVE FALSE
    BY <1>1, <2>1 DEF ControlPlanes
  <2> QED
    BY <1>2, <2>1 DEF ensureFinalizer, Advance
<1>4. ~UserDeletesControlPlane
  <2> SUFFICES ASSUME NEW o \in BOOLEAN, cp' = Stored([cp EXCEPT !.deleted = TRUE, !.other = o])
               PROVE  FALSE
    BY DEF UserDeletesControlPlane
  <2> DEFINE new == [cp EXCEPT !.deleted = TRUE, !.other = o]
  <2>1. new \in ControlPlanes
    BY ControlPlaneWrites
  <2>2. new.present /\ new.own
    BY <1>1 DEF ControlPlanes
  <2>3. cp' = new
    BY <2>1, <2>2, StoredFields
  <2> QED
    BY <2>2, <2>3
<1>5. ~OtherFinalizerRemoved
  <2> SUFFICES ASSUME cp' = Stored([cp EXCEPT !.other = FALSE]) PROVE FALSE
    BY DEF OtherFinalizerRemoved
  <2> DEFINE new == [cp EXCEPT !.other = FALSE]
  <2>1. new \in ControlPlanes
    BY ControlPlaneWrites
  <2>2. new.present /\ new.own
    BY <1>1 DEF ControlPlanes
  <2>3. cp' = new
    BY <2>1, <2>2, StoredFields
  <2> QED
    BY <2>2, <2>3
<1>6. ~( \/ Get \/ ensureNamespace \/ ApplyAccount \/ ApplyBinding \/ ensureKubeconfig
         \/ NothingToDelete \/ DeleteComponents \/ newJuggler \/ Juggle \/ Updated
         \/ ComponentsDeleted \/ DeleteBindings \/ DeleteAccounts \/ ReconcileFails)
  BY <1>2 DEF Get, ensureNamespace, ApplyAccount, ApplyBinding, ensureKubeconfig, NothingToDelete,
     DeleteComponents, newJuggler, Juggle, Updated, ComponentsDeleted, DeleteBindings,
     DeleteAccounts, ReconcileFails, Advance, outer
<1>7. ~( \/ Restart \/ UserCreates \/ UserEditsSpec \/ NamespaceCollected \/ ClusterStep
         \/ TargetUsers \/ Rest \/ (\E c \in Copied : PullSecretToggled(c)) \/ UNCHANGED vars)
  BY <1>1, <1>2 DEF Restart, UserCreates, UserEditsSpec, NamespaceCollected, ClusterStep,
     TargetUsers, Rest, PullSecretToggled, vars, outer
<1> QED
  BY <1>3, <1>4, <1>5, <1>6, <1>7 DEF Next, Reconcile, Environment

\* FinalizerGoesLast for every catalogue and any cache: targetrbac.Delete has
\* succeeded before controllerutil.RemoveFinalizer.
THEOREM FinalizerIsLast == Spec => FinalizerGoesLast
<1>1. WholeInv /\ [Next]_vars => [cp.own /\ ~cp'.own => access = {}]_vars
  BY OwnKept DEF WholeInv, ReconcilerInv, PlaceInv, removeFinalizer
<1> QED
  BY <1>1, WholeInvariant, PTL DEF Spec, FinalizerGoesLast

\* A component that is there has the finalizer to wait for it, and gets it back
\* with its labels.
LEMMA LeakStep == WholeInv /\ NothingLeaks /\ [Next]_vars => NothingLeaks'
<1> SUFFICES ASSUME WholeInv, NothingLeaks, [Next]_vars, NEW c \in Component \ Keep, ~Lags(c),
                    ~(store'[c] = "absent" /\ source'[c] = "absent"),
                    ~(cp'.present /\ cp'.own), c \notin unlabelled'
             PROVE  FALSE
  BY DEF NothingLeaks, Remains, Lags
<1> USE DEF WholeInv, EngineInv
<1>1. [JNext]_jvars
  BY EngineStep DEF ReconcilerInv
<1>2. cp.own
  <2>1. CASE Remains(c) /\ c \notin unlabelled
    BY <2>1 DEF NothingLeaks
  <2>2. CASE ~Remains(c)
    BY <1>1, <2>2, Creation, CreatedUnderFinalizer DEF Remains, Apply, ApplySource
  <2>3. CASE c \in unlabelled
    <3>1. CASE Apply \/ ApplySource
      BY <3>1, CreatedUnderFinalizer DEF Apply, ApplySource
    <3>2. CASE ~Apply /\ ~ApplySource
      BY <1>1, <2>3, <3>2, LabelsReturn, TouchedHasNoSource, Creation
    <3> QED
      BY <3>1, <3>2
  <2> QED
    BY <2>1, <2>2, <2>3
<1>3. removeFinalizer
  BY <1>2, OwnKept
<1>4. ~Remains(c) \/ c \in unlabelled
  BY <1>3 DEF removeFinalizer, GoneAtTearDown, TearDown
<1>5. UNCHANGED <<store, source, unlabelled>>
  BY <1>3 DEF removeFinalizer, jvars
<1> QED
  BY <1>4, <1>5 DEF Remains

\* NothingLeaks for every catalogue and any cache, of what does not lag: no
\* interleaving of users, failures and crashes leaves a resource with its labels
\* on the clusters the passes work on without the ControlPlane and its finalizer.
\* Edits of spec.target are among the steps; of a cluster that has been left it
\* says nothing.
THEOREM NothingIsLeaked == Spec => []NothingLeaks
<1>1. Init => NothingLeaks
  BY DEF Init, JInit, NothingLeaks, Remains
<1> QED
  BY <1>1, LeakStep, WholeInvariant, PTL DEF Spec

----------------------------------------------------------------------------
(* The access of flux.                                                      *)

\* Only the tear-down takes away the access of flux, and only the end of the
\* ControlPlane its namespace.  A kubeconfig that is left with its cluster still
\* opens that one; a new one is for a cluster on which flux has its access.
LEMMA AccessKept ==
    ASSUME ReconcilerInv, [Next]_vars,
           ~DeleteBindings, ~DeleteAccounts, ~NamespaceCollected
    PROVE  (CanUninstall => CanUninstall') /\ (namespace => namespace')
<1> USE DEF ReconcilerInv, ReconcilerTypeOK, CanUninstall
<1>1. CASE ensureNamespace \/ ApplyAccount \/ ApplyBinding
  BY <1>1 DEF ensureNamespace, ApplyAccount, ApplyBinding, Access
<1>2. CASE ensureKubeconfig
  BY <1>2 DEF ensureKubeconfig, PrepInv, Access
<1>3. CASE Get
  BY <1>3 DEF Get, SameTarget, OtherTarget
<1>4. CASE \/ NothingToDelete \/ ensureFinalizer \/ DeleteComponents \/ newJuggler
           \/ Juggle \/ Updated \/ ComponentsDeleted \/ removeFinalizer \/ ReconcileFails
  BY <1>4 DEF NothingToDelete, ensureFinalizer, DeleteComponents, newJuggler, Juggle, Updated,
     ComponentsDeleted, removeFinalizer, ReconcileFails, Advance, outer
<1>5. CASE \/ Restart \/ UserCreates \/ UserEditsSpec \/ UserDeletesControlPlane
           \/ OtherFinalizerRemoved \/ ClusterStep \/ TargetUsers \/ Rest
           \/ (\E c \in Copied : PullSecretToggled(c)) \/ UNCHANGED vars
  BY <1>5 DEF Restart, UserCreates, UserEditsSpec, UserDeletesControlPlane, OtherFinalizerRemoved,
     ClusterStep, TargetUsers, Rest, PullSecretToggled, vars, outer
<1> QED
  BY <1>1, <1>2, <1>3, <1>4, <1>5 DEF Next, Reconcile, Environment

\* A HelmRelease is created on prepared ground and the ground stays.
LEMMA ServedStep ==
    ASSUME ~StaleReads, WholeInv, ReleasesAreServed, [Next]_vars
    PROVE  ReleasesAreServed'
<1> SUFFICES ASSUME NEW c \in FluxType, store'[c] # "absent"
             PROVE  CanUninstall' /\ namespace'
  BY DEF ReleasesAreServed
<1> USE DEF WholeInv, EngineInv
<1>1. [JNext]_jvars /\ c \in Component
  BY EngineStep, TypesAssumption DEF ReconcilerInv
<1>2. store[c] = "absent" => step = "juggle" /\ CanUninstall /\ namespace
  BY <1>1, Creation, CreatedUnderFinalizer DEF Apply
<1>3. store[c] # "absent" => step \notin TearDown
  <2>1. c \notin Keep /\ ~Lags(c) /\ c \notin unlabelled
    BY KeptAssumption, TouchedHasNoSource DEF Base, Lags
  <2> QED
    BY <1>1, <2>1 DEF GoneAtTearDown, Remains
<1>4. CanUninstall /\ namespace
  BY <1>2 DEF ReleasesAreServed
<1>5. ~DeleteBindings /\ ~DeleteAccounts
  BY <1>2, <1>3 DEF DeleteBindings, DeleteAccounts, TearDown
<1>6. ~NamespaceCollected
  BY DEF NamespaceCollected, jvars
<1> QED
  BY <1>4, <1>5, <1>6, AccessKept

\* ReleasesAreServed for every catalogue, when the cached client does not lag:
\* flux is never left with a HelmRelease that it cannot install or uninstall.
THEOREM ReleasesServed ==
    ASSUME ~StaleReads
    PROVE  Spec => []ReleasesAreServed
<1>1. Init => ReleasesAreServed
  BY TypesAssumption DEF Init, JInit, ReleasesAreServed
<1>2. WholeInv /\ ReleasesAreServed /\ [Next]_vars => ReleasesAreServed'
  BY ServedStep
<1> QED
  BY <1>1, <1>2, WholeInvariant, PTL DEF Spec

----------------------------------------------------------------------------
(* The admission policies.                                                  *)

\* A ControlPlane that is being deleted stays so until it is gone.
LEMMA MarkStays ==
    ASSUME ReconcilerInv, [Next]_vars, cp.deleted, ~cp'.deleted
    PROVE  ~cp'.present /\ (removeFinalizer \/ OtherFinalizerRemoved)
<1> USE DEF ReconcilerInv, ReconcilerTypeOK, SnapInv
<1>1. cp' # cp /\ cp.present
  OBVIOUS
<1>2. ~ensureFinalizer
  <2>1. ASSUME cp' = [cp EXCEPT !.own = TRUE] PROVE FALSE
    BY <1>1, <2>1 DEF ControlPlanes
  <2> QED
    BY <1>1, <2>1 DEF ensureFinalizer, Advance
<1>3. ~( \/ Get \/ ensureNamespace \/ ApplyAccount \/ ApplyBinding \/ ensureKubeconfig
         \/ NothingToDelete \/ DeleteComponents \/ newJuggler \/ Juggle \/ Updated
         \/ ComponentsDeleted \/ DeleteBindings \/ DeleteAccounts \/ ReconcileFails)
  BY <1>1 DEF Get, ensureNamespace, ApplyAccount, ApplyBinding, ensureKubeconfig, NothingToDelete,
     DeleteComponents, newJuggler, Juggle, Updated, ComponentsDeleted, DeleteBindings,
     DeleteAccounts, ReconcileFails, Advance, outer
<1>4. ~( \/ Restart \/ UserCreates \/ UserEditsSpec \/ UserDeletesControlPlane
         \/ NamespaceCollected \/ ClusterStep \/ TargetUsers \/ Rest
         \/ (\E c \in Copied : PullSecretToggled(c)) \/ UNCHANGED vars)
  BY <1>1 DEF Restart, UserCreates, UserEditsSpec, UserDeletesControlPlane, NamespaceCollected,
     ClusterStep, TargetUsers, Rest, PullSecretToggled, vars, outer
<1>5. removeFinalizer \/ OtherFinalizerRemoved
  BY <1>2, <1>3, <1>4 DEF Next, Reconcile, Environment
<1>6. ASSUME NEW new \in ControlPlanes, new.deleted, cp' = Stored(new) PROVE ~cp'.present
  BY <1>6, StoredFields
<1>7. /\ [cp EXCEPT !.own = FALSE] \in ControlPlanes
      /\ [cp EXCEPT !.other = FALSE] \in ControlPlanes
  BY ControlPlaneWrites
<1>8. [cp EXCEPT !.own = FALSE].deleted /\ [cp EXCEPT !.other = FALSE].deleted
  BY DEF ControlPlanes
<1>9. cp' = Stored([cp EXCEPT !.own = FALSE]) \/ cp' = Stored([cp EXCEPT !.other = FALSE])
  BY <1>1, <1>5 DEF removeFinalizer, OtherFinalizerRemoved
<1> QED
  BY <1>5, <1>6, <1>7, <1>8, <1>9

\* What is gated is neither a chart nor kept, its policies are always registered
\* and out of reach of the users.
LEMMA Policed ==
    ASSUME NEW c \in Component, NEW g \in Gates[c]
    PROVE  /\ c \notin Keep /\ ~Lags(c) /\ c \notin FluxType
           /\ g \in Component /\ g \in Base /\ g \notin Touched
BY PoliciesAssumption, KeptAssumption, NestedAssumption, TypesAssumption, HooksAssumption,
   GatesAssumption DEF Base, Lags

\* Policies go only with the ControlPlane, after the providers; providers come
\* only under their policies.
LEMMA PolicedStep == WholeInv /\ NothingLeaks /\ ProvidersArePoliced /\ [Next]_vars
                        => ProvidersArePoliced'
<1> SUFFICES ASSUME WholeInv, NothingLeaks, ProvidersArePoliced, [Next]_vars, ~cp'.deleted,
                    NEW c \in Component, store'[c] = "live", c \notin unlabelled',
                    NEW g \in Gates[c]
             PROVE  store'[g] = "live"
  BY DEF ProvidersArePoliced, GatesOpen
<1> USE Policed DEF WholeInv, EngineInv
<1>1. [JNext]_jvars
  BY EngineStep DEF ReconcilerInv
<1>2. ~cp.deleted
  <2> SUFFICES ASSUME cp.deleted PROVE FALSE
    OBVIOUS
  <2>1. ~cp'.present /\ (removeFinalizer \/ OtherFinalizerRemoved)
    BY MarkStays
  <2>2. UNCHANGED <<store, source, unlabelled>>
    BY <2>1 DEF removeFinalizer, OtherFinalizerRemoved, jvars
  <2>3. CASE cp.own
    <3>1. step \in TearDown
      BY <2>1, <2>3, OwnKept DEF removeFinalizer, TearDown
    <3> QED
      BY <2>2, <3>1 DEF GoneAtTearDown, Remains
  <2>4. CASE ~cp.own
    BY <2>2, <2>4 DEF NothingLeaks, Remains
  <2> QED
    BY <2>3, <2>4
<1>3. store[g] = "live"
  <2>0. CASE c \in unlabelled
    BY <1>1, <2>0, LabelsReturn DEF Apply, HookInv, GateInv, GatesOpen
  <2>1. CASE store[c] = "live" /\ c \notin unlabelled
    BY <1>2, <2>1 DEF ProvidersArePoliced, GatesOpen
  <2>2. CASE store[c] = "absent"
    BY <1>1, <2>2, Creation DEF Apply, HookInv, GateInv, GatesOpen
  <2>3. store[c] # "terminating"
    BY <1>1, NoRevival
  <2> QED
    BY <2>0, <2>1, <2>2, <2>3 DEF TypeInv, WorldTypeOK, Phase
<1>4. ~(Delete /\ cur = g)
  <2> SUFFICES ASSUME Delete, cur = g PROVE FALSE
    OBVIOUS
  <2>1. pc # "idle" /\ ~(Base \subseteq on)
    BY DEF Delete, AimInv
  <2>2. snap.deleted /\ snap.own
    BY <2>1, CreatedUnderFinalizer DEF ReconcilerInv, BaseInv
  <2> QED
    BY <1>2, <2>2 DEF ReconcilerInv, SnapInv
<1>5. ~Retarget
  BY DEF Retarget
<1> QED
  BY <1>1, <1>3, <1>4, <1>5, Destruction

\* ProvidersArePoliced for every catalogue and any cache: no interleaving of
\* passes, edits of the spec, moves to another cluster and deletions leaves a
\* labelled provider alive whose admission policies are missing or on their way
\* out.
THEOREM ProvidersPoliced == Spec => []ProvidersArePoliced
<1>1. Init => ProvidersArePoliced
  BY DEF Init, JInit, ProvidersArePoliced
<1> QED
  BY <1>1, PolicedStep, NothingIsLeaked, WholeInvariant, PTL DEF Spec

----------------------------------------------------------------------------
(* The engine in its use.                                                   *)

\* What Juggler promises of any use of the engine, it keeps here: charts go only
\* after what they guard, packages come only under their policies, what is kept
\* stays, and every component lives the life of Lifecycle, on any cache.
THEOREM EngineKeepsItsPromises ==
    Spec => GuardedTeardown /\ GatedInstall /\ KeptForever /\ LivesLifecycle
<1> QED
  BY EngineRefined, TeardownIsGuarded, InstallIsGated, KeptStays, EngineLivesLifecycle, PTL
     DEF EngineSpec

\* ... and what a pass reports here is true, when the cached client does not lag.
THEOREM ReportsAreTrue ==
    ASSUME ~StaleReads
    PROVE  Spec => [](DisabledMeansGone /\ CleanSweep /\ InstalledMeansComplete)
<1> QED
  BY EngineRefined, DisabledIsGone, SweepIsClean, InstalledIsComplete, PTL DEF EngineSpec

=============================================================================
