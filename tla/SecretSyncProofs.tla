-------------------------- MODULE SecretSyncProofs --------------------------
(***************************************************************************)
(* With a cache that does not lag, no copy ever outlives the finalizer of  *)
(* its source, for any number of sources and namespaces.                   *)
(***************************************************************************)
EXTENDS SecretSync, TLAPS

Held(s) == src[s].present /\ src[s].own

\* Why CopiesAreOwned is inductive: the cache is exact; the worker that writes
\* copies holds the finalizer of their source, and the one that is about to
\* drop it has found no copies, which nobody else creates.
Exact == seen = [src |-> src, copies |-> copies]
WorkerInv ==
    /\ step # "idle" => cur \in Source
    /\ step = "finalizer" => snap.present
    /\ step \in {"listNamespaces", "copy"} => Held(cur)
    /\ step # "idle" /\ snap.own => Held(cur)
    /\ step = "release" => \A n \in Namespace : copies[n].from # cur
Shape == /\ src \in [Source -> Secret]
         /\ copies \in [Namespace -> Copy]
         /\ snap \in Secret
OwnedInv == Shape /\ Exact /\ WorkerInv /\ CopiesAreOwned

\* The worker's own steps that change neither secrets nor copies.
LEMMA QuietStep ==
    ASSUME OwnedInv, UNCHANGED <<src, copies, seen>>,
           \/ UNCHANGED <<cur, step, snap>>
           \/ Forget
    PROVE  OwnedInv'
<1>1. Shape'
    <2>1. NoSecret \in Secret
        BY DEF NoSecret, Secret
    <2> QED BY <2>1 DEF OwnedInv, Shape, Forget
<1>2. Exact'
    BY DEF OwnedInv, Exact
<1>3. WorkerInv'
    BY DEF OwnedInv, WorkerInv, Held, Forget, NoSecret
<1>4. CopiesAreOwned'
    BY DEF OwnedInv, CopiesAreOwned
<1> QED
    BY <1>1, <1>2, <1>3, <1>4 DEF OwnedInv

\* The finalizer of a source that some copy or the worker relies on is removed
\* by nobody but the worker; users may only mark the source as deleted.
LEMMA UserStep ==
    ASSUME ~StaleReads, OwnedInv, NEW s \in Source,
           UserWrites(s) \/ UserDeletes(s)
    PROVE  OwnedInv'
<1> USE DEF OwnedInv, Shape
<1>1. PICK o \in Secret : /\ src' = [src EXCEPT ![s] = o]
                          /\ o.own = src[s].own
                          /\ o.own => o.present
    <2>1. CASE UserWrites(s)
        <3>1. PICK l \in {"true", "other", "none"}, d \in Data :
                src' = [src EXCEPT ![s] = [present |-> TRUE, deleted |-> FALSE, label |-> l,
                                           own |-> src[s].own, data |-> d]]
            BY <2>1 DEF UserWrites
        <3> DEFINE o == [present |-> TRUE, deleted |-> FALSE, label |-> l,
                         own |-> src[s].own, data |-> d]
        <3>2. o \in Secret /\ o.own = src[s].own /\ o.present
            BY DEF Secret
        <3> QED BY <3>1, <3>2
    <2>2. CASE UserDeletes(s)
        <3> DEFINE p == [present |-> TRUE, deleted |-> TRUE, label |-> src[s].label,
                         own |-> src[s].own, data |-> src[s].data]
        <3>1. src' = [src EXCEPT ![s] = Stored(p)]
            BY <2>2 DEF UserDeletes
        <3>2. Stored(p) \in Secret
            BY DEF Stored, NoSecret, Secret
        <3>3. Stored(p).own = src[s].own
            BY DEF Stored, NoSecret, Secret
        <3>4. Stored(p).own => Stored(p).present
            BY DEF Stored, NoSecret, Secret
        <3> QED BY <3>1, <3>2, <3>3, <3>4
    <2> QED BY <2>1, <2>2
<1>2. UNCHANGED <<copies, cur, step, snap>> /\ seen' = [src |-> src', copies |-> copies']
    BY DEF UserWrites, UserDeletes, Deliver, Worker
<1>3. \A t \in Source : Held(t) => Held(t)'
    BY <1>1 DEF Held, Secret
<1>4. Shape'
    BY <1>1, <1>2
<1>5. Exact'
    BY <1>2 DEF Exact
<1>6. WorkerInv'
    BY <1>2, <1>3 DEF WorkerInv
<1>7. CopiesAreOwned'
    BY <1>2, <1>3 DEF CopiesAreOwned, Held
<1> QED
    BY <1>4, <1>5, <1>6, <1>7

\* A step that rewrites or removes copies but leaves the sources alone.
LEMMA CopyStep ==
    ASSUME OwnedInv, copies' \in [Namespace -> Copy],
           UNCHANGED <<src, cur, step, snap>>,
           seen' = [src |-> src', copies |-> copies'],
           \A n \in Namespace : \/ copies'[n].from = copies[n].from
                                \/ copies'[n].from = Nobody
                                \/ step = "copy" /\ copies'[n].from = cur
    PROVE  OwnedInv'
<1>1. Shape'
    BY DEF OwnedInv, Shape
<1>2. Exact'
    BY DEF OwnedInv, Exact
<1>3. WorkerInv'
    BY NamesAssumption DEF OwnedInv, WorkerInv, Held
<1>4. CopiesAreOwned'
    BY NamesAssumption DEF OwnedInv, WorkerInv, Held, CopiesAreOwned
<1> QED
    BY <1>1, <1>2, <1>3, <1>4 DEF OwnedInv

\* The worker's steps.
LEMMA WorkerStep ==
    ASSUME ~StaleReads, OwnedInv,
           (\E s \in Source : Get(s)) \/ Working
    PROVE  OwnedInv'
<1> USE DEF OwnedInv
<1>1. ASSUME NEW s \in Source, Get(s) PROVE OwnedInv'
    <2>1. Shape'
        BY <1>1 DEF Get, Shape, Exact
    <2>2. Exact'
        BY <1>1 DEF Get, Exact
    <2>3. WorkerInv'
        BY <1>1 DEF Get, WorkerInv, Exact, Held, shouldReconcile, Shape, Secret
    <2>4. CopiesAreOwned'
        BY <1>1 DEF Get, CopiesAreOwned
    <2> QED BY <2>1, <2>2, <2>3, <2>4
<1>2. CASE ensureFinalizer
    <2>1. CASE snap.own /\ Goto("listNamespaces", {})
        <3>1. Held(cur)
            BY <1>2, <2>1 DEF WorkerInv, ensureFinalizer
        <3> QED BY <1>2, <2>1, <3>1 DEF Goto, ensureFinalizer, Shape, Exact, WorkerInv,
                                        CopiesAreOwned, Held
    <2>2. CASE ~snap.own /\ Current /\ src' = [src EXCEPT ![cur] = WithFinalizer(src[cur], TRUE)]
               /\ snap' = src'[cur] /\ step' = "listNamespaces"
               /\ UNCHANGED <<copies, ns, cur, todo, calm>> /\ Deliver(queue)
        <3>1. src[cur] \in Secret /\ cur \in Source
            BY <1>2 DEF WorkerInv, ensureFinalizer, Shape
        <3>2. WithFinalizer(src[cur], TRUE) \in Secret /\ WithFinalizer(src[cur], TRUE).own
            BY <3>1 DEF WithFinalizer, Secret
        <3>3. WithFinalizer(src[cur], TRUE).present = src[cur].present
            BY DEF WithFinalizer
        <3>4. src[cur].present
            BY <1>2, <2>2 DEF WorkerInv, ensureFinalizer, Current
        <3>5. Held(cur)'
            BY <2>2, <3>1, <3>2, <3>3, <3>4 DEF Held, Shape
        <3>6. \A t \in Source : Held(t) => Held(t)'
            BY <2>2, <3>1, <3>5 DEF Held, Shape
        <3>7. Shape' /\ Exact'
            BY <2>2, <3>1, <3>2 DEF Shape, Exact, Deliver
        <3>8. WorkerInv'
            BY <2>2, <3>1, <3>5 DEF WorkerInv
        <3>9. CopiesAreOwned'
            BY <2>2, <3>6 DEF CopiesAreOwned, Held
        <3> QED BY <3>7, <3>8, <3>9
    <2>3. CASE Return(TRUE)
        BY <2>3, QuietStep DEF Return
    <2> QED BY <1>2, <2>1, <2>2, <2>3 DEF ensureFinalizer
<1>3. CASE ListNamespaces
    BY <1>3 DEF ListNamespaces, Goto, Shape, Exact, WorkerInv, CopiesAreOwned, Held
<1>4. ASSUME NEW n \in Namespace, CopyTo(n) PROVE OwnedInv'
    <2>1. CASE copies' = [copies EXCEPT ![n] = Written(n)]
               /\ UNCHANGED <<src, ns, cur, step, snap, calm>> /\ Deliver(queue)
        <3>1. Written(n) \in Copy /\ Written(n).from = cur
            BY <1>4 DEF Written, Copy, CopyTo, WorkerInv, Shape, Secret
        <3>2. copies' \in [Namespace -> Copy]
            BY <2>1, <3>1 DEF Shape
        <3>3. \A m \in Namespace : copies'[m].from = copies[m].from \/ copies'[m].from = cur
            BY <2>1, <3>1 DEF Shape
        <3> QED BY <1>4, <2>1, <3>2, <3>3, CopyStep DEF CopyTo, Deliver
    <2>2. CASE Goto("copy", todo \ {n})
        BY <1>4, <2>2, QuietStep DEF Goto, CopyTo
    <2>3. CASE Return(TRUE)
        BY <2>3, QuietStep DEF Return
    <2> QED BY <1>4, <2>1, <2>2, <2>3 DEF CopyTo
<1>5. CASE Copied
    BY <1>5, QuietStep DEF Copied, Return
<1>6. CASE ListCopies
    <2>1. UNCHANGED <<src, copies, seen, cur, snap>> /\ step' \in {"release", "delete"}
        BY <1>6 DEF ListCopies, Goto
    <2>2. step' = "release" => {n \in Namespace : seen.copies[n].from = cur} = {}
        BY <1>6 DEF ListCopies, Goto
    <2>3. step' = "release" => \A n \in Namespace : copies[n].from # cur
        BY <2>2 DEF Exact
    <2> QED BY <1>6, <2>1, <2>3 DEF ListCopies, Shape, Exact, WorkerInv, CopiesAreOwned, Held
<1>7. ASSUME NEW n \in Namespace, DeleteCopy(n) PROVE OwnedInv'
    <2>1. CASE copies' = [copies EXCEPT ![n] = NoCopy]
               /\ UNCHANGED <<src, ns, cur, step, snap, calm>> /\ Deliver(queue)
        <3>1. NoCopy \in Copy /\ NoCopy.from = Nobody
            BY DEF NoCopy, Copy
        <3>2. copies' \in [Namespace -> Copy]
            BY <2>1, <3>1 DEF Shape
        <3>3. \A m \in Namespace : copies'[m].from = copies[m].from \/ copies'[m].from = Nobody
            BY <2>1, <3>1 DEF Shape
        <3> QED BY <2>1, <3>2, <3>3, CopyStep DEF Deliver
    <2>2. CASE Return(TRUE)
        BY <2>2, QuietStep DEF Return
    <2> QED BY <1>7, <2>1, <2>2 DEF DeleteCopy
<1>8. CASE CopiesDeleted
    BY <1>8, QuietStep DEF CopiesDeleted, Return
<1>9. CASE removeFinalizer
    <2>1. CASE src' = [src EXCEPT ![cur] = Stored(WithFinalizer(src[cur], FALSE))]
               /\ Forget /\ UNCHANGED <<copies, ns, calm>> /\ Deliver(queue)
        <3>1. cur \in Source /\ \A n \in Namespace : copies[n].from # cur
            BY <1>9 DEF removeFinalizer, WorkerInv
        <3>2. Stored(WithFinalizer(src[cur], FALSE)) \in Secret /\ NoSecret \in Secret
            BY <3>1 DEF Stored, WithFinalizer, NoSecret, Secret, Shape
        <3>3. \A t \in Source : t # cur /\ Held(t) => Held(t)'
            BY <2>1, <3>1 DEF Held, Shape
        <3>4. Shape' /\ Exact'
            BY <2>1, <3>1, <3>2 DEF Shape, Exact, Deliver, Forget
        <3>5. WorkerInv'
            BY <2>1 DEF WorkerInv, Forget
        <3>6. CopiesAreOwned'
            BY <2>1, <3>1, <3>3 DEF CopiesAreOwned, Held
        <3> QED BY <3>4, <3>5, <3>6
    <2>2. CASE Return(TRUE) \/ Return(FALSE)
        BY <2>2, QuietStep DEF Return
    <2> QED BY <1>9, <2>1, <2>2 DEF removeFinalizer
<1>10. CASE ReconcileFails
    BY <1>10, QuietStep DEF ReconcileFails, Return
<1> QED
    BY <1>1, <1>2, <1>3, <1>4, <1>5, <1>6, <1>7, <1>8, <1>9, <1>10 DEF Working

\* With an exact cache, a copy never outlives the orphan finalizer of the source
\* whose labels it carries, for any sources, namespaces and data.
THEOREM CopiesNeverOutliveTheirSource ==
    ASSUME ~StaleReads
    PROVE  Spec => []CopiesAreOwned
<1>1. Init => OwnedInv
    <2>1. NoSecret \in Secret /\ NoCopy \in Copy /\ NoCopy.from = Nobody
        BY DEF NoSecret, Secret, NoCopy, Copy
    <2>2. Init => Shape /\ Exact /\ WorkerInv
        BY <2>1 DEF Init, Shape, Exact, WorkerInv
    <2>3. Init => CopiesAreOwned
        BY <2>1, NamesAssumption DEF Init, CopiesAreOwned
    <2> QED BY <2>2, <2>3 DEF OwnedInv
<1>2. OwnedInv /\ [Next]_vars => OwnedInv'
    <2> SUFFICES ASSUME OwnedInv, [Next]_vars PROVE OwnedInv'
        OBVIOUS
    <2>1. CASE (\E s \in Source : Get(s)) \/ Working
        BY <2>1, WorkerStep
    <2>2. CASE Restart
        <3>1. UNCHANGED <<src, copies, seen>>
            BY <2>2 DEF Restart, OwnedInv, Exact
        <3> QED BY <2>2, <3>1, QuietStep DEF Restart
    <2>3. CASE Sync
        BY <2>3 DEF Sync
    <2>4. ASSUME NEW s \in Source, UserWrites(s) \/ UserDeletes(s) PROVE OwnedInv'
        BY <2>4, UserStep
    <2>5. ASSUME NEW n \in Namespace, NamespaceCreated(n) \/ NamespaceDeleted(n) PROVE OwnedInv'
        BY <2>5, QuietStep DEF NamespaceCreated, NamespaceDeleted, Worker
    <2>6. ASSUME NEW n \in Namespace, NamespaceTerminates(n) PROVE OwnedInv'
        <3>1. CASE copies[n] = NoCopy
            BY <2>6, <3>1, QuietStep DEF NamespaceTerminates, Worker
        <3>2. CASE copies[n] # NoCopy
            <4>1. NoCopy \in Copy /\ NoCopy.from = Nobody
                BY DEF NoCopy, Copy
            <4>2. copies' = [copies EXCEPT ![n] = NoCopy] /\ UNCHANGED <<src, cur, step, snap>>
                BY <2>6, <3>2 DEF NamespaceTerminates, Worker
            <4>3. seen' = [src |-> src', copies |-> copies']
                BY <2>6, <3>2 DEF NamespaceTerminates, Deliver
            <4>4. copies' \in [Namespace -> Copy]
                BY <4>1, <4>2 DEF OwnedInv, Shape
            <4>5. \A m \in Namespace : copies'[m].from = copies[m].from \/ copies'[m].from = Nobody
                BY <4>1, <4>2 DEF OwnedInv, Shape
            <4> QED BY <4>2, <4>3, <4>4, <4>5, CopyStep
        <3> QED BY <3>1, <3>2
    <2>7. CASE CalmDown \/ Rest \/ UNCHANGED vars
        BY <2>7, QuietStep DEF CalmDown, Rest, vars, Worker
    <2> QED
        BY <2>1, <2>2, <2>3, <2>4, <2>5, <2>6, <2>7 DEF Next, Environment
<1>3. OwnedInv => CopiesAreOwned
    BY DEF OwnedInv
<1> QED
    BY <1>1, <1>2, <1>3, PTL DEF Spec

----------------------------------------------------------------------------
(* Type correctness, on any cache.                                          *)

\* Every value that is written to a secret or to a copy has its type.
LEMMA Writes ==
    /\ NoSecret \in Secret /\ NoCopy \in Copy
    /\ \A o \in Secret, f \in BOOLEAN : /\ WithFinalizer(o, f) \in Secret
                                        /\ Stored(o) \in Secret
    /\ \A o \in Secret, l \in {"true", "other", "none"}, d \in Data \cup {Blank}, b \in BOOLEAN :
          [present |-> TRUE, deleted |-> b, label |-> l, own |-> o.own, data |-> d] \in Secret
    /\ \A s \in Source, o \in Secret : [from |-> s, data |-> o.data] \in Copy
<1>1. NoSecret \in Secret
    BY DEF NoSecret, Secret
<1>2. NoCopy \in Copy
    BY DEF NoCopy, Copy
<1>3. \A o \in Secret, f \in BOOLEAN : WithFinalizer(o, f) \in Secret
    BY DEF WithFinalizer, Secret
<1>4. \A o \in Secret : Stored(o) \in Secret
    BY <1>1 DEF Stored
<1>5. \A o \in Secret, l \in {"true", "other", "none"}, d \in Data \cup {Blank}, b \in BOOLEAN :
         [present |-> TRUE, deleted |-> b, label |-> l, own |-> o.own, data |-> d] \in Secret
    BY DEF Secret
<1>6. \A s \in Source, o \in Secret : [from |-> s, data |-> o.data] \in Copy
    BY DEF Secret, Copy
<1> QED
    BY <1>1, <1>2, <1>3, <1>4, <1>5, <1>6

\* The objects, and what the worker holds, apart from what it is about to do.
ObjectsOK == /\ src \in [Source -> Secret]
             /\ copies \in [Namespace -> Copy]
             /\ ns \in [Namespace -> {"absent", "live", "terminating"}]
CacheOK   == /\ seen \in [src : [Source -> Secret], copies : [Namespace -> Copy]]
             /\ queue \subseteq Source
WorkerOK  == /\ cur \in Source \cup {Nobody}
             /\ step \in Step /\ snap \in Secret /\ todo \subseteq Namespace
             /\ (step = "idle") = (cur = Nobody)
             /\ step \notin {"copy", "delete"} => todo = {}
Types     == ObjectsOK /\ CacheOK /\ WorkerOK /\ calm \in BOOLEAN

\* A write that the cache learns of, at once or not at all.
LEMMA DeliverTypes ==
    ASSUME CacheOK, ObjectsOK', Deliver(queue)
    PROVE  CacheOK'
<1>1. [src |-> src', copies |-> copies'] \in [src : [Source -> Secret], copies : [Namespace -> Copy]]
    BY DEF ObjectsOK
<1>2. Noticed(src') \subseteq Source
    BY DEF Noticed
<1> QED
    BY <1>1, <1>2 DEF CacheOK, Deliver

\* The cache catches up.
LEMMA CaughtUpTypes ==
    ASSUME ObjectsOK PROVE
    [src |-> src, copies |-> copies] \in [src : [Source -> Secret], copies : [Namespace -> Copy]]
BY DEF ObjectsOK

\* A worker that returns, for whatever reason.
LEMMA ReturnTypes ==
    ASSUME Types, step # "idle", NEW again \in BOOLEAN, Return(again)
    PROVE  Types'
<1>1. cur \in Source
    BY DEF Types, WorkerOK
<1>2. WorkerOK'
    BY Writes DEF Return, Forget, WorkerOK, Step
<1> QED
    BY <1>1, <1>2 DEF Types, Return, ObjectsOK, CacheOK

\* A worker that goes on to its next call.
LEMMA GotoTypes ==
    ASSUME Types, step # "idle", NEW next \in Step \ {"idle"}, NEW rest \in SUBSET Namespace,
           next \notin {"copy", "delete"} => rest = {}, Goto(next, rest)
    PROVE  Types'
BY DEF Goto, Types, ObjectsOK, CacheOK, WorkerOK

\* The calls of the worker.
LEMMA WorkingTypes ==
    ASSUME Types, Working
    PROVE  Types'
<1>0. Working => step # "idle"
    BY DEF Working, ensureFinalizer, ListNamespaces, Copied, ListCopies, CopiesDeleted,
           removeFinalizer, ReconcileFails, CopyTo, DeleteCopy
<1>1. cur \in Source /\ src[cur] \in Secret /\ snap \in Secret
    BY <1>0 DEF Types, WorkerOK, ObjectsOK
<1> USE <1>0 DEF Step
<1>2. CASE ensureFinalizer
    <2>1. CASE Goto("listNamespaces", {})
        BY <2>1, GotoTypes
    <2>2. CASE Return(TRUE)
        BY <2>2, ReturnTypes
    <2>3. CASE /\ src' = [src EXCEPT ![cur] = WithFinalizer(src[cur], TRUE)]
               /\ snap' = src'[cur] /\ step' = "listNamespaces"
               /\ UNCHANGED <<copies, ns, cur, todo, calm>> /\ Deliver(queue)
        <3>1. ObjectsOK'
            BY <1>1, <2>3, Writes DEF Types, ObjectsOK
        <3>2. snap' \in Secret
            BY <1>1, <2>3, <3>1 DEF ObjectsOK
        <3>3. WorkerOK'
            BY <1>1, <1>2, <2>3, <3>2 DEF Types, WorkerOK, ensureFinalizer
        <3> QED
            BY <2>3, <3>1, <3>3, DeliverTypes DEF Types
    <2> QED
        BY <1>2, <2>1, <2>2, <2>3 DEF ensureFinalizer
<1>3. CASE ListNamespaces
    BY <1>3, GotoTypes DEF ListNamespaces
<1>4. ASSUME NEW n \in Namespace, CopyTo(n) PROVE Types'
    <2>1. CASE /\ copies' = [copies EXCEPT ![n] = Written(n)] /\ todo' = todo \ {n}
               /\ UNCHANGED <<src, ns, cur, step, snap, calm>> /\ Deliver(queue)
        <3>1. ObjectsOK'
            BY <1>1, <2>1, Writes DEF Types, ObjectsOK, Written
        <3>2. WorkerOK'
            BY <2>1 DEF Types, WorkerOK
        <3> QED
            BY <2>1, <3>1, <3>2, DeliverTypes DEF Types
    <2>2. CASE Goto("copy", todo \ {n})
        BY <2>2, GotoTypes DEF Types, WorkerOK
    <2>3. CASE Return(TRUE)
        BY <2>3, ReturnTypes
    <2> QED
        BY <1>4, <2>1, <2>2, <2>3 DEF CopyTo
<1>5. CASE ListCopies
    <2> DEFINE found == {n \in Namespace : seen.copies[n].from = cur}
    <2>1. found \subseteq Namespace
        OBVIOUS
    <2>2. (Goto("release", found) /\ found = {}) \/ Goto("delete", found)
        BY <1>5 DEF ListCopies
    <2> QED
        BY <2>1, <2>2, GotoTypes
<1>6. ASSUME NEW n \in Namespace, DeleteCopy(n) PROVE Types'
    <2>1. CASE /\ copies' = [copies EXCEPT ![n] = NoCopy] /\ todo' = todo \ {n}
               /\ UNCHANGED <<src, ns, cur, step, snap, calm>> /\ Deliver(queue)
        <3>1. ObjectsOK'
            BY <2>1, Writes DEF Types, ObjectsOK
        <3>2. WorkerOK'
            BY <2>1 DEF Types, WorkerOK
        <3> QED
            BY <2>1, <3>1, <3>2, DeliverTypes DEF Types
    <2>2. CASE Return(TRUE)
        BY <2>2, ReturnTypes
    <2> QED
        BY <1>6, <2>1, <2>2 DEF DeleteCopy
<1>7. CASE removeFinalizer
    <2>1. CASE /\ src' = [src EXCEPT ![cur] = Stored(WithFinalizer(src[cur], FALSE))]
               /\ Forget /\ UNCHANGED <<copies, ns, calm>> /\ Deliver(queue)
        <3>1. Stored(WithFinalizer(src[cur], FALSE)) \in Secret
            BY <1>1, Writes
        <3>2. ObjectsOK'
            BY <2>1, <3>1 DEF Types, ObjectsOK
        <3>3. WorkerOK'
            BY <2>1, Writes DEF Forget, WorkerOK
        <3> QED
            BY <2>1, <3>2, <3>3, DeliverTypes DEF Types
    <2>2. CASE Return(TRUE) \/ Return(FALSE)
        BY <2>2, ReturnTypes
    <2> QED
        BY <1>7, <2>1, <2>2 DEF removeFinalizer
<1>8. CASE Copied \/ CopiesDeleted \/ ReconcileFails
    BY <1>8, ReturnTypes DEF Copied, CopiesDeleted, ReconcileFails
<1> QED
    BY <1>2, <1>3, <1>4, <1>5, <1>6, <1>7, <1>8 DEF Working

\* The environment, and the step that takes a key.
LEMMA OtherTypes ==
    ASSUME Types, (\E s \in Source : Get(s)) \/ Environment
    PROVE  Types'
<1> USE DEF Types
<1>1. ASSUME NEW s \in Source, Get(s) PROVE Types'
    <2>1. seen.src[s] \in Secret
        BY DEF CacheOK
    <2>2. ObjectsOK' /\ CacheOK' /\ calm' \in BOOLEAN
        BY <1>1 DEF Get, ObjectsOK, CacheOK
    <2>3. WorkerOK'
        BY <1>1, <2>1, NamesAssumption DEF Get, WorkerOK, Step
    <2> QED
        BY <2>2, <2>3
<1>2. CASE Restart
    <2>1. WorkerOK'
        BY <1>2, Writes DEF Restart, Forget, WorkerOK, Step
    <2>2. CacheOK'
        BY <1>2, CaughtUpTypes DEF Restart, CacheOK
    <2> QED
        BY <1>2, <2>1, <2>2 DEF Restart, ObjectsOK
<1>3. CASE Sync
    <2>1. CacheOK'
        BY <1>3, CaughtUpTypes DEF Sync, CacheOK, Noticed
    <2> QED
        BY <1>3, <2>1 DEF Sync, Worker, ObjectsOK, WorkerOK
<1>4. ASSUME ObjectsOK', Deliver(queue), UNCHANGED <<Worker, calm>> PROVE Types'
    BY <1>4, DeliverTypes DEF Worker, WorkerOK
<1>5. ASSUME NEW s \in Source, UserWrites(s) \/ UserDeletes(s) PROVE Types'
    <2>1. src[s] \in Secret
        BY DEF ObjectsOK
    <2>2. CASE UserWrites(s)
        <3>1. PICK l \in {"true", "other", "none"}, d \in Data :
                src' = [src EXCEPT ![s] = [present |-> TRUE, deleted |-> FALSE, label |-> l,
                                           own |-> src[s].own, data |-> d]]
            BY <2>2 DEF UserWrites
        <3>2. [present |-> TRUE, deleted |-> FALSE, label |-> l,
               own |-> src[s].own, data |-> d] \in Secret
            BY <2>1, Writes
        <3>3. ObjectsOK'
            BY <2>2, <3>1, <3>2 DEF UserWrites, ObjectsOK
        <3> QED
            BY <1>4, <2>2, <3>3 DEF UserWrites
    <2>3. CASE UserDeletes(s)
        <3> DEFINE o == [present |-> TRUE, deleted |-> TRUE, label |-> src[s].label,
                         own |-> src[s].own, data |-> src[s].data]
        <3>1. src[s].label \in {"true", "other", "none"} /\ src[s].data \in Data \cup {Blank}
            BY <2>1 DEF Secret
        <3>2. o \in Secret
            BY <2>1, <3>1, Writes
        <3>3. Stored(o) \in Secret
            BY <3>2, Writes
        <3>4. ObjectsOK'
            BY <2>3, <3>3 DEF UserDeletes, ObjectsOK
        <3> QED
            BY <1>4, <2>3, <3>4 DEF UserDeletes
    <2> QED
        BY <1>5, <2>2, <2>3
<1>6. ASSUME NEW n \in Namespace, NamespaceCreated(n) \/ NamespaceDeleted(n) PROVE Types'
    BY <1>6 DEF NamespaceCreated, NamespaceDeleted, Worker, ObjectsOK, CacheOK, WorkerOK
<1>7. ASSUME NEW n \in Namespace, NamespaceTerminates(n) PROVE Types'
    <2>1. CASE copies[n] # NoCopy
        <3>1. ObjectsOK'
            BY <1>7, <2>1, Writes DEF NamespaceTerminates, ObjectsOK
        <3> QED
            BY <1>4, <1>7, <2>1, <3>1 DEF NamespaceTerminates
    <2>2. CASE copies[n] = NoCopy
        BY <1>7, <2>2 DEF NamespaceTerminates, Worker, ObjectsOK, CacheOK, WorkerOK
    <2> QED
        BY <2>1, <2>2
<1>8. CASE CalmDown \/ Rest
    BY <1>8 DEF CalmDown, Rest, vars, Worker, ObjectsOK, CacheOK, WorkerOK
<1> QED
    BY <1>1, <1>2, <1>3, <1>5, <1>6, <1>7, <1>8 DEF Environment

\* TypeOK for any sources and namespaces, on any cache: among others, the worker
\* holds a key exactly when it is not idle, and namespaces only in its loops.
THEOREM SecretTypes == Spec => []TypeOK
<1>1. Init => Types
    <2>1. Init => ObjectsOK /\ CacheOK
        BY Writes DEF Init, ObjectsOK, CacheOK
    <2> QED
        BY <2>1, Writes DEF Init, Types, WorkerOK, Step
<1>2. Types /\ [Next]_vars => Types'
    <2>1. Types /\ UNCHANGED vars => Types'
        BY DEF vars, Types, ObjectsOK, CacheOK, WorkerOK
    <2> QED
        BY <2>1, WorkingTypes, OtherTypes DEF Next
<1>3. Types => TypeOK
    BY DEF Types, ObjectsOK, CacheOK, WorkerOK, TypeOK
<1> QED
    BY <1>1, <1>2, <1>3, PTL DEF Spec

=============================================================================
