----------------------------- MODULE SecretSync -----------------------------
(***************************************************************************)
(* The SecretReconciler: it copies every labelled secret into all tenant   *)
(* namespaces of the operator's cluster and takes the copies back once the *)
(* secret is deleted or its label changes.  One worker serves the keys one *)
(* by one; users, the ControlPlanes' namespaces, API failures, crashes and *)
(* a lagging informer cache interleave with each of its API calls.         *)
(***************************************************************************)
EXTENDS Naturals

CONSTANTS
    Source,         \* secrets of one name in different namespaces: their copies
                    \* share that name and so overwrite each other
    Namespace,      \* namespaces with the tenant prefix
    Data,           \* what a secret may contain
    StaleReads,     \* does the informer cache lag?
    MayCalm         \* may users, failures and crashes stop for good?

ASSUME FlagsAssumption == StaleReads \in BOOLEAN /\ MayCalm \in BOOLEAN

Nobody == "nobody"
Blank  == "blank"
ASSUME NamesAssumption == Nobody \notin Source /\ Blank \notin Data

VARIABLES
    src,        \* the source secrets
    copies,     \* per tenant namespace, the copy: whose labels it carries, its data
    ns,         \* the tenant namespaces
    seen,       \* the informer cache of secrets: an earlier value of src and copies
    queue,      \* keys in the work queue, or with a timer that will add them
    cur,        \* the key the worker serves
    step,       \* its next API call
    snap,       \* the copy of the source it works on
    todo,       \* namespaces its loop has not reached
    calm        \* users, failures and crashes have stopped for good

vars == <<src, copies, ns, seen, queue, cur, step, snap, todo, calm>>

NoSecret == [present |-> FALSE, deleted |-> FALSE, label |-> "none",
             own |-> FALSE, data |-> Blank]
NoCopy == [from |-> Nobody, data |-> Blank]

Secret == [present : BOOLEAN, deleted : BOOLEAN, label : {"true", "other", "none"},
           own : BOOLEAN, data : Data \cup {Blank}]
Copy   == [from : Source \cup {Nobody}, data : Data \cup {Blank}]
Step   == {"idle", "finalizer", "listNamespaces", "copy", "listCopies", "delete", "release"}

----------------------------------------------------------------------------
\* The label is there, whatever its value, or the finalizer is.
shouldReconcile(o) == o.present /\ (o.label # "none" \/ o.own)
Wanted(o) == o.present /\ ~o.deleted /\ o.label = "true"

\* A write reaches the cache at once or, if the cache lags, with a later Sync.
\* The filter predicate looks at the old and at the new secret.
Noticed(now) == {s \in Source : /\ seen.src[s] # now[s]
                                /\ shouldReconcile(seen.src[s]) \/ shouldReconcile(now[s])}
Deliver(keys) ==
    IF StaleReads THEN seen' = seen /\ queue' = keys
    ELSE /\ seen' = [src |-> src', copies |-> copies']
         /\ queue' = keys \cup Noticed(src')

Init ==
    /\ src = [s \in Source |-> NoSecret]
    /\ copies = [n \in Namespace |-> NoCopy]
    /\ ns = [n \in Namespace |-> "absent"]
    /\ seen = [src |-> src, copies |-> copies]
    /\ queue = {} /\ cur = Nobody /\ step = "idle"
    /\ snap = NoSecret /\ todo = {} /\ calm = FALSE

\* Variant: the namespaces not reached yet survive the reconciliation.
Forget_KeepsTodo ==
    cur' = Nobody /\ step' = "idle" /\ snap' = NoSecret /\ todo' = todo

Forget == cur' = Nobody /\ step' = "idle" /\ snap' = NoSecret /\ todo' = {}

\* Reconcile returns without a write; an error or a RequeueAfter brings the key back.
Return(requeue) ==
    /\ Forget
    /\ queue' = IF requeue THEN queue \cup {cur} ELSE queue
    /\ UNCHANGED <<src, copies, ns, seen, calm>>

\* Reconcile takes a key, reads the secret and branches.
Get(s) ==
    /\ step = "idle" /\ s \in queue
    /\ queue' = queue \ {s}
    /\ IF shouldReconcile(seen.src[s])
         THEN /\ cur' = s /\ snap' = seen.src[s]
              /\ step' = IF Wanted(seen.src[s]) THEN "finalizer" ELSE "listCopies"
         ELSE UNCHANGED <<cur, snap, step>>
    /\ UNCHANGED <<src, copies, ns, seen, todo, calm>>

Goto(next, rest) ==
    /\ step' = next /\ todo' = rest
    /\ UNCHANGED <<src, copies, ns, seen, queue, cur, snap, calm>>

\* An Update carries the resource version of the snapshot.
Current == snap = src[cur]
WithFinalizer(o, f) == [present |-> o.present, deleted |-> o.deleted, label |-> o.label,
                        own |-> f, data |-> o.data]

\* Variant: a refused Update is not an error.
ensureFinalizer_IgnoresConflict ==
    /\ step = "finalizer"
    /\ \/ (snap.own \/ ~Current) /\ Goto("listNamespaces", {})
       \/ /\ ~snap.own /\ Current
          /\ src' = [src EXCEPT ![cur] = WithFinalizer(src[cur], TRUE)]
          /\ snap' = src'[cur] /\ step' = "listNamespaces"
          /\ UNCHANGED <<copies, ns, cur, todo, calm>>
          /\ Deliver(queue)

ensureFinalizer ==
    /\ step = "finalizer"
    /\ \/ snap.own /\ Goto("listNamespaces", {})
       \/ /\ ~snap.own /\ Current
          /\ src' = [src EXCEPT ![cur] = WithFinalizer(src[cur], TRUE)]
          /\ snap' = src'[cur] /\ step' = "listNamespaces"
          /\ UNCHANGED <<copies, ns, cur, todo, calm>>
          /\ Deliver(queue)
       \/ ~snap.own /\ ~Current /\ Return(TRUE)

\* handleSync
ListNamespaces ==
    step = "listNamespaces" /\ Goto("copy", {n \in Namespace : ns[n] # "absent"})

\* Variant: a copy that exists is left as it is.
Written_CreateOnly(n) ==
    IF copies[n] = NoCopy THEN [from |-> cur, data |-> snap.data] ELSE copies[n]

\* CreateOrUpdate in namespace n, on what the cache shows of the copy: nothing
\* can be created in a namespace that is gone or terminating, and a write that
\* is based on an old copy is refused.
Written(n) == [from |-> cur, data |-> snap.data]
CanWrite(n) == /\ seen.copies[n] = copies[n]
               /\ copies[n] = NoCopy => ns[n] = "live"
CopyTo(n) ==
    /\ step = "copy" /\ n \in todo
    /\ \/ /\ CanWrite(n)
          /\ copies' = [copies EXCEPT ![n] = Written(n)]
          /\ todo' = todo \ {n}
          /\ UNCHANGED <<src, ns, cur, step, snap, calm>>
          /\ Deliver(queue)
       \/ ~CanWrite(n) /\ seen.copies[n] = Written(n) /\ Goto("copy", todo \ {n})
       \/ ~CanWrite(n) /\ seen.copies[n] # Written(n) /\ Return(TRUE)

\* Variant: no RequeueAfter.
Copied_NoRequeue == step = "copy" /\ todo = {} /\ Return(FALSE)

\* The next period brings the namespaces that have been created since.
Copied == step = "copy" /\ todo = {} /\ Return(TRUE)

\* handleDeletion
ListCopies ==
    /\ step = "listCopies"
    /\ LET found == {n \in Namespace : seen.copies[n].from = cur}
       IN  Goto(IF found = {} THEN "release" ELSE "delete", found)

\* The copy is deleted by its name, whoever has written it since; a copy that is
\* gone already is an error.
DeleteCopy(n) ==
    /\ step = "delete" /\ n \in todo
    /\ \/ /\ copies[n] # NoCopy
          /\ copies' = [copies EXCEPT ![n] = NoCopy]
          /\ todo' = todo \ {n}
          /\ UNCHANGED <<src, ns, cur, step, snap, calm>>
          /\ Deliver(queue)
       \/ copies[n] = NoCopy /\ Return(TRUE)

\* Variant: no RequeueAfter.
CopiesDeleted_NoRequeue == step = "delete" /\ todo = {} /\ Return(FALSE)

\* The copies are looked at once more before the finalizer goes.
CopiesDeleted == step = "delete" /\ todo = {} /\ Return(TRUE)

\* A secret without finalizers that is being deleted disappears.
Stored(o) == IF o.deleted /\ ~o.own THEN NoSecret ELSE o

removeFinalizer ==
    /\ step = "release"
    /\ \/ ~snap.own /\ Return(FALSE)
       \/ /\ snap.own /\ Current
          /\ src' = [src EXCEPT ![cur] = Stored(WithFinalizer(src[cur], FALSE))]
          /\ Forget
          /\ UNCHANGED <<copies, ns, calm>>
          /\ Deliver(queue)
       \/ snap.own /\ ~Current /\ Return(TRUE)

\* Any API call may fail; as with every write, its answer may get lost instead.
ReconcileFails == ~calm /\ step # "idle" /\ Return(TRUE)

\* The new process lists all secrets and queues what the predicate lets through.
Restart ==
    /\ ~calm
    /\ Forget
    /\ seen' = [src |-> src, copies |-> copies]
    /\ queue' = {s \in Source : shouldReconcile(src[s])}
    /\ UNCHANGED <<src, copies, ns, calm>>

----------------------------------------------------------------------------
(* The environment.                                                         *)

Worker == <<cur, step, snap, todo>>

Sync ==
    /\ StaleReads /\ seen # [src |-> src, copies |-> copies]
    /\ seen' = [src |-> src, copies |-> copies]
    /\ queue' = queue \cup Noticed(src)
    /\ UNCHANGED <<src, copies, ns, Worker, calm>>

\* A user creates a secret, or edits its label and its data ...
UserWrites(s) ==
    /\ ~calm /\ ~src[s].deleted
    /\ \E l \in {"true", "other", "none"} : \E d \in Data :
        src' = [src EXCEPT ![s] = [present |-> TRUE, deleted |-> FALSE, label |-> l,
                                   own |-> src[s].own, data |-> d]]
    /\ UNCHANGED <<copies, ns, Worker, calm>>
    /\ Deliver(queue)

\* ... or deletes it.
UserDeletes(s) ==
    /\ ~calm /\ src[s].present /\ ~src[s].deleted
    /\ src' = [src EXCEPT ![s] = Stored([present |-> TRUE, deleted |-> TRUE,
                  label |-> src[s].label, own |-> src[s].own, data |-> src[s].data])]
    /\ UNCHANGED <<copies, ns, Worker, calm>>
    /\ Deliver(queue)

\* The namespaces come and go with the ControlPlanes that own them; what is in
\* a deleted one is deleted with it.
NamespaceCreated(n) ==
    /\ ~calm /\ ns[n] = "absent"
    /\ ns' = [ns EXCEPT ![n] = "live"]
    /\ UNCHANGED <<src, copies, seen, queue, Worker, calm>>

NamespaceDeleted(n) ==
    /\ ~calm /\ ns[n] = "live"
    /\ ns' = [ns EXCEPT ![n] = "terminating"]
    /\ UNCHANGED <<src, copies, seen, queue, Worker, calm>>

NamespaceTerminates(n) ==
    /\ ns[n] = "terminating"
    /\ IF copies[n] # NoCopy
         THEN /\ copies' = [copies EXCEPT ![n] = NoCopy]
              /\ src' = src /\ Deliver(queue) /\ UNCHANGED ns
         ELSE /\ ns' = [ns EXCEPT ![n] = "absent"]
              /\ UNCHANGED <<src, copies, seen, queue>>
    /\ UNCHANGED <<Worker, calm>>

CalmDown ==
    /\ MayCalm /\ ~calm /\ calm' = TRUE
    /\ UNCHANGED <<src, copies, ns, seen, queue, Worker>>

\* Nothing is left to do, for good.
Rest == calm /\ queue = {} /\ step = "idle" /\ UNCHANGED vars

----------------------------------------------------------------------------
Working == \/ ensureFinalizer \/ ListNamespaces \/ Copied \/ ListCopies
           \/ CopiesDeleted \/ removeFinalizer \/ ReconcileFails
           \/ \E n \in Namespace : CopyTo(n) \/ DeleteCopy(n)

Environment == \/ Restart \/ Sync \/ CalmDown \/ Rest
               \/ \E s \in Source : UserWrites(s) \/ UserDeletes(s)
               \/ \E n \in Namespace : \/ NamespaceCreated(n) \/ NamespaceDeleted(n)
                                       \/ NamespaceTerminates(n)

Next == (\E s \in Source : Get(s)) \/ Working \/ Environment

\* The work queue serves the keys in turn, the cache catches up, and namespaces
\* that are deleted terminate.
Fairness ==
    /\ WF_vars(Working)
    /\ \A s \in Source : SF_vars(Get(s))
    /\ \A n \in Namespace : WF_vars(NamespaceTerminates(n))
    /\ WF_vars(Sync)

Spec == Init /\ [][Next]_vars
FairSpec == Spec /\ Fairness

----------------------------------------------------------------------------
(* Properties.                                                              *)

\* Every variable stays within its type, and an idle worker holds no work.
TypeOK ==
    /\ src \in [Source -> Secret]
    /\ copies \in [Namespace -> Copy]
    /\ ns \in [Namespace -> {"absent", "live", "terminating"}]
    /\ seen \in [src : [Source -> Secret], copies : [Namespace -> Copy]]
    /\ queue \subseteq Source /\ cur \in Source \cup {Nobody}
    /\ step \in Step /\ snap \in Secret /\ todo \subseteq Namespace
    /\ calm \in BOOLEAN
    /\ (step = "idle") = (cur = Nobody)
    /\ step \notin {"copy", "delete"} => todo = {}

\* A copy that carries the labels of a source exists only as long as the source
\* does and has the orphan finalizer, so that somebody will take it back: the
\* finalizer goes "when no replicated secrets left" (secret_controller_test.go).
CopiesAreOwned ==
    \A n \in Namespace : \A s \in Source :
        copies[n].from = s => src[s].present /\ src[s].own

\* A source that is deleted, or whose label is taken away, is released once users
\* leave it alone, even if another source overwrites its copies.
SourcesAreReleased ==
    \A s \in Source : (calm /\ ~Wanted(src[s])) ~> ~src[s].own

\* Once users leave the system alone, every tenant namespace gets, and keeps, the
\* current data of a labelled source, although namespaces that terminate make
\* the loop over the namespaces fail half way.
Synced == \A n \in Namespace :
    ns[n] = "live" /\ (\E s \in Source : Wanted(src[s])) =>
        \E s \in Source : Wanted(src[s]) /\ copies[n] = [from |-> s, data |-> src[s].data]
CopiesConverge == calm ~> []Synced

=============================================================================
