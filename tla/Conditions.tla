----------------------------- MODULE Conditions -----------------------------
(***************************************************************************)
(* The status of one ControlPlane: how the results of a pass become        *)
(* conditions and counters, and how the deferred update at the end of      *)
(* Reconcile merges them into the status that the pass has read.  The      *)
(* component engine itself is Juggler; here a pass returns any results it  *)
(* can return.  Status updates wake the reconciler up again, since it      *)
(* watches ControlPlanes without a predicate.                              *)
(***************************************************************************)
EXTENDS Naturals, FiniteSets

CONSTANTS
    Component,  \* the components that can be registered
    TypeOf,     \* conditionType(): component -> the type of its condition
    Keep,       \* those with KeepOnUninstall() = true
    Seen        \* the statuses that occur: component -> set of them

\* Components may share a type: pull secrets of one name from two namespaces do,
\* and so do the providers helm and provider-helm.
ASSUME TypesAssumption ==
    /\ IsFiniteSet(Component)
    /\ \A c \in Component : TypeOf[c] # "Ready"
ASSUME KeepAssumption == Keep \subseteq Component

VARIABLES
    present,    \* does the ControlPlane exist, and with the finalizer?
    deleted,    \* is it being deleted?
    status,     \* its status: conditions and counters
    queued,     \* its key is in the work queue, or a timer will add it
    pc,         \* the next step of Reconcile
    mem,        \* the status in the memory of the pass
    current,    \* no write to the ControlPlane since the pass has read it
    report,     \* what the results of the pass are, for the properties
    remaining,  \* is there a component that has to go before the finalizer?
    newConditions,  \* the conditions the pass has collected
    path,       \* which way the pass goes
    now,        \* the clock; only changes of it matter
    calm,       \* faults, users and changes in the clusters have stopped for good
    outcome,    \* the results every pass has from then on, once one has had them
    written     \* what the pass that wrote the status had to report

pass == <<pc, mem, current, report, remaining, newConditions, path>>
vars == <<present, deleted, status, queued, pass, now, calm, outcome, written>>

----------------------------------------------------------------------------
(* Component statuses and conditions.                                       *)

\* component.go: what a condition tells of a ComponentStatus
Ready(name)    == [reason |-> name, status |-> "True"]
NotReady(name) == [reason |-> name, status |-> "False"]
StatusName == {"ReconcilerNotFound", "ObservationFailed", "UninstallFailed", "Uninstalled",
               "Disabled", "ComponentNotAllowed", "DependencyCheckFailed", "InstallFailed",
               "Installed", "UpdateFailed", "Healthy", "Unhealthy",
               "HealthyReconciliationSkipped", "UnhealthyReconciliationSkipped"}
ComponentStatus ==
    [n \in StatusName |->
        CASE n = "Healthy"                        -> Ready(n)
          [] n = "HealthyReconciliationSkipped"   -> Ready("ReconciliationSkipped")
          [] n = "UnhealthyReconciliationSkipped" -> NotReady("ReconciliationSkipped")
          [] OTHER                                -> NotReady(n)]

\* juggler.go: the statuses reconcileComponent has for a disabled component, and
\* for an enabled one
WhenDisabled == {"ReconcilerNotFound", "ObservationFailed", "UninstallFailed",
                 "Uninstalled", "Disabled"}
WhenEnabled  == (StatusName \ WhenDisabled)
                \cup {"ReconcilerNotFound", "ObservationFailed"}

\* The result of a component, or Absent for one that is not registered.
Absent == [enabled |-> FALSE, is |-> "absent"]
Result == [enabled : {FALSE}, is : WhenDisabled] \cup [enabled : {TRUE}, is : WhenEnabled]
Unknown == <<>>
NoResults == [c \in Component |-> Absent]

ToCondition(c, is, time) ==
    [type |-> TypeOf[c], status |-> ComponentStatus[is].status,
     reason |-> ComponentStatus[is].reason, time |-> time]

\* api/v1beta1: Available()
Available(time) == [type |-> "Ready", status |-> "True", reason |-> "Available", time |-> time]

\* The conditions are a list in the code; nothing depends on its order.
Types(conds) == {c.type : c \in conds}
Find(conds, type) == CHOOSE c \in conds : c.type = type

\* What SetStatusCondition makes of n: a condition of a known type is overwritten
\* and keeps its transition time unless its status changes.
Transition(conds, n) ==
    IF n.type \in Types(conds) /\ Find(conds, n.type).status = n.status
    THEN [n EXCEPT !.time = Find(conds, n.type).time] ELSE n

\* SetStatusCondition for every element of new.
SetStatusConditions(conds, new) ==
    {c \in conds : c.type \notin Types(new)} \cup {Transition(conds, n) : n \in new}

\* Variant: the new conditions replace the old ones.
UpdateConditions_Replace(conds, new) == new

\* Variant: the list shrinks while it is walked, and of two conditions that are
\* to be removed one is passed over.
UpdateConditions_InPlace(conds, new) ==
    LET merged == SetStatusConditions(conds, new)
        stale == {c \in merged : c.type \notin Types(new)}
    IN  IF Cardinality(stale) < 2 THEN merged \ stale
        ELSE merged \ (stale \ {CHOOSE c \in stale : TRUE})

\* utils.UpdateConditions: set the new conditions, then remove all others.
UpdateConditions(conds, new) ==
    {c \in SetStatusConditions(conds, new) : c.type \in Types(new)}

\* SetStatusCondition for one result after the other: of those that share a type
\* the last one is left.  Secrets come in the order of a cache, which is any.
Picks(listed) ==
    {last \in SUBSET listed :
       /\ \A c \in listed : \E d \in last : TypeOf[d] = TypeOf[c]
       /\ \A c, d \in last : TypeOf[c] = TypeOf[d] => c = d}

\* The lists of conditions that the results of the listed components can give.
ConditionsOf(rs, listed) ==
    {{ToCondition(c, rs[c].is, now) : c \in last} : last \in Picks(listed)}

Registered(rs) == {c \in Component : rs[c] # Absent}
Enabled(rs)    == {c \in Component : rs[c].enabled}
Healthy(rs)    == {c \in Component : rs[c].is \in {"Healthy", "HealthyReconciliationSkipped"}}

\* Variant: a deleted ControlPlane stays available.
WhenDeleted_AlwaysAvailable(rs) ==
    {conds \cup {Available(now)} : conds \in ConditionsOf(rs, Registered(rs))}

\* What a pass over a deleted ControlPlane may collect, and any other pass: then
\* components that are gone have no condition.
WhenDeleted(rs) == ConditionsOf(rs, Registered(rs))
WhenUpdated(rs) ==
    {conds \cup {Available(now)} :
       conds \in ConditionsOf(rs, {c \in Registered(rs) : rs[c].enabled \/ rs[c].is # "Disabled"})}

----------------------------------------------------------------------------
NoStatus == [conditions |-> {}, enabled |-> 0, healthy |-> 0]

\* What a pass has to report: the conditions of all results without their times,
\* among them Ready when the pass got through, and the counters.
Shown(rs, way) == {c \in Registered(rs) :
                     \/ way = "deleted"
                     \/ way = "updated" /\ (rs[c].enabled \/ rs[c].is # "Disabled")}
Entry(c) == [type |-> c.type, status |-> c.status, reason |-> c.reason]
Report(rs, way) ==
    [conditions |-> {Entry(ToCondition(c, rs[c].is, 0)) : c \in Shown(rs, way)}
                    \cup (IF way = "updated" THEN {Entry(Available(0))} ELSE {}),
     enabled |-> Cardinality(Enabled(rs)), healthy |-> Cardinality(Healthy(rs))]
NoReport == Report(NoResults, "none")

Init ==
    /\ present = FALSE /\ deleted = FALSE
    /\ status = NoStatus /\ written = NoReport
    /\ queued = FALSE
    /\ pc = "idle" /\ mem = NoStatus /\ current = FALSE
    /\ report = NoReport /\ remaining = FALSE /\ newConditions = {} /\ path = "none"
    /\ now = 0
    /\ calm = FALSE /\ outcome = Unknown

\* Variant: the copy of the status outlives its pass.
Forget_KeepsCopy == /\ pc' = "idle" /\ mem' = mem /\ current' = FALSE
                    /\ report' = NoReport /\ remaining' = FALSE
                    /\ newConditions' = {} /\ path' = "none"

Forget == /\ pc' = "idle" /\ mem' = NoStatus /\ current' = FALSE
          /\ report' = NoReport /\ remaining' = FALSE /\ newConditions' = {} /\ path' = "none"

\* Reconcile takes the key and reads the ControlPlane.
Get ==
    /\ pc = "idle" /\ queued
    /\ queued' = FALSE
    /\ IF present
         THEN /\ pc' = "run" /\ mem' = status /\ current' = TRUE
              /\ path' = IF deleted THEN "deleted" ELSE "updated"
         ELSE UNCHANGED <<pc, mem, current, path>>
    /\ UNCHANGED <<present, deleted, status, report, remaining, newConditions, now, calm, outcome,
                   written>>

\* Namespace, remote client, access or kubeconfig fail: Reconcile returns before
\* the status update is deferred.
EarlyReturn ==
    /\ ~calm /\ pc = "run"
    /\ Forget /\ queued' = TRUE
    /\ UNCHANGED <<present, deleted, status, now, calm, outcome, written>>

\* ensureFinalizer or newJuggler fails: there is nothing to report.
Fails ==
    /\ ~calm /\ pc = "run"
    /\ pc' = "defer" /\ path' = "failed" /\ report' = Report(NoResults, "failed")
    /\ UNCHANGED <<present, deleted, status, queued, mem, current, remaining, newConditions, now, calm,
                   outcome, written>>

\* What the engine returns: anything, and always the same once all is calm.
AllOutcomes ==
    {rs \in [Component -> {r \in Result : \E c \in Component : r.is \in Seen[c]} \cup {Absent}] :
        \A c \in Component : rs[c] = Absent \/ rs[c].is \in Seen[c]}
Outcomes == IF outcome # Unknown THEN {outcome} ELSE AllOutcomes
Outcome(rs) == IF calm /\ current THEN rs ELSE outcome

\* updateControlPlaneComponents: the counters are set in the pass's copy.
Update ==
    /\ pc = "run" /\ path = "updated"
    /\ \E rs \in Outcomes :
        /\ newConditions' \in WhenUpdated(rs)
        /\ report' = Report(rs, path) /\ outcome' = Outcome(rs)
        /\ mem' = [mem EXCEPT !.enabled = Cardinality(Enabled(rs)),
                              !.healthy = Cardinality(Healthy(rs))]
    /\ pc' = "defer"
    /\ UNCHANGED <<present, deleted, status, queued, current, remaining, path, now, calm, written>>

\* Variant: kept components count as remaining.
Delete_CountsKept ==
    /\ pc = "run" /\ path = "deleted"
    /\ \E rs \in Outcomes :
        /\ Enabled(rs) = {}
        /\ newConditions' \in WhenDeleted(rs)
        /\ remaining' = \E c \in Registered(rs) : rs[c].is # "Disabled"
        /\ report' = Report(rs, path) /\ outcome' = Outcome(rs)
    /\ pc' = "defer"
    /\ UNCHANGED <<present, deleted, status, queued, mem, current, path, now, calm, written>>

\* deleteControlPlaneComponents: all components are disabled, the counters stay.
Delete ==
    /\ pc = "run" /\ path = "deleted"
    /\ \E rs \in Outcomes :
        /\ Enabled(rs) = {}
        /\ newConditions' \in WhenDeleted(rs)
        /\ remaining' = \E c \in Registered(rs) \ Keep : rs[c].is # "Disabled"
        /\ report' = Report(rs, path) /\ outcome' = Outcome(rs)
    /\ pc' = "defer"
    /\ UNCHANGED <<present, deleted, status, queued, mem, current, path, now, calm, written>>

\* deleteControlPlane goes on to remove the finalizer.
Releasable == path = "deleted" /\ ~remaining /\ current

\* The deferred update; its error is only logged.  Finalizer and update carry
\* the resource version the pass has read.  A status that changes wakes the
\* reconciler up, and so does the result of the pass.
Merged == [mem EXCEPT !.conditions = UpdateConditions(mem.conditions, newConditions)]

\* Variant: no RequeueAfter.
UpdateStatus_NoRequeue ==
    /\ pc = "defer"
    /\ Releasable => ~calm
    /\ \/ /\ current
          /\ status' = Merged
          /\ written' = report
       \/ (~current \/ ~calm) /\ UNCHANGED <<status, written>>
    /\ queued' = (queued \/ status' # status)
    /\ Forget
    /\ UNCHANGED <<present, deleted, now, calm, outcome>>

UpdateStatus ==
    /\ pc = "defer"
    /\ Releasable => ~calm
    /\ \/ /\ current
          /\ status' = Merged
          /\ written' = report
       \/ (~current \/ ~calm) /\ UNCHANGED <<status, written>>
    /\ queued' = TRUE
    /\ Forget
    /\ UNCHANGED <<present, deleted, now, calm, outcome>>

\* The finalizer goes and the ControlPlane with it: the update finds nothing.
Release ==
    /\ pc = "defer" /\ Releasable
    /\ present' = FALSE /\ deleted' = FALSE /\ status' = NoStatus /\ written' = NoReport
    /\ queued' = TRUE
    /\ Forget
    /\ UNCHANGED <<now, calm, outcome>>

Restart ==
    /\ ~calm /\ pc # "idle"
    /\ Forget /\ queued' = present
    /\ UNCHANGED <<present, deleted, status, now, calm, outcome, written>>

----------------------------------------------------------------------------
(* The environment.                                                         *)

Ticks == 2      \* enough to tell a new time from the last one
Tick == now' = (now + 1) % Ticks
        /\ UNCHANGED <<present, deleted, status, queued, pass, calm, outcome, written>>

UserCreates ==
    /\ ~calm /\ ~present
    /\ present' = TRUE /\ queued' = TRUE
    /\ UNCHANGED <<deleted, status, pass, now, calm, outcome, written>>

\* A write to the spec or the metadata outdates what the pass has read.
UserWrites ==
    /\ ~calm /\ present
    /\ deleted' \in {deleted, TRUE}
    /\ current \/ deleted' # deleted
    /\ current' = FALSE /\ queued' = TRUE
    /\ UNCHANGED <<present, status, pc, mem, report, remaining, newConditions, path, now, calm,
                   outcome, written>>

CalmDown ==
    /\ ~calm /\ calm' = TRUE
    /\ UNCHANGED <<present, deleted, status, queued, pass, now, outcome, written>>

----------------------------------------------------------------------------
Reconcile == Get \/ EarlyReturn \/ Fails \/ Update \/ Delete \/ UpdateStatus \/ Release
Next == Reconcile \/ Restart \/ Tick \/ UserCreates \/ UserWrites \/ CalmDown

\* The workers of the controller never starve a queued key.
Spec == Init /\ [][Next]_vars
FairSpec == Spec /\ WF_vars(Reconcile)

----------------------------------------------------------------------------
(* Properties.                                                              *)

\* Every variable stays within its type; an idle worker holds nothing.
Condition == [type : {TypeOf[c] : c \in Component} \cup {"Ready"}, status : {"True", "False"},
              reason : {ComponentStatus[n].reason : n \in StatusName} \cup {"Available"},
              time : 0..Ticks - 1]
StatusType == [conditions : SUBSET Condition, enabled : 0..Cardinality(Component),
               healthy : 0..Cardinality(Component)]
TypeOK ==
    /\ present \in BOOLEAN /\ deleted \in BOOLEAN /\ queued \in BOOLEAN
    /\ status \in StatusType /\ mem \in StatusType /\ newConditions \subseteq Condition
    /\ pc \in {"idle", "run", "defer"} /\ current \in BOOLEAN
    /\ remaining \in BOOLEAN
    /\ path \in {"none", "failed", "updated", "deleted"}
    /\ now \in 0..Ticks - 1 /\ calm \in BOOLEAN
    /\ pc = "idle" => mem = NoStatus /\ report = NoReport /\ path = "none"

\* The stored conditions are those of one single pass, with exactly one for each
\* type it has to report, the result of a component of that type: nothing of an
\* earlier pass survives in the list that UpdateConditions edits, and where
\* components share a type they leave one condition, not two.
StatusIsOneReport ==
    /\ {Entry(c) : c \in status.conditions} \subseteq written.conditions
    /\ Types(status.conditions) = Types(written.conditions)
    /\ \A c, d \in status.conditions : c.type = d.type => c = d

\* UpdateConditions: "keeping the LastTransitionTime of unchanged conditions".
\* A stored transition time moves only when the stored status flips, however
\* many passes, conflicts and failed updates lie in between.
TransitionTimesKept ==
    [][\A c \in status.conditions, d \in status'.conditions :
         c.type = d.type => IF c.status = d.status THEN d.time = c.time
                            ELSE d \in newConditions]_vars

\* A ControlPlane that says Ready shows the counters of the same pass as its
\* conditions, although the counters are not touched when a pass fails or
\* deletes.
ReadyMeansCounted ==
    "Ready" \in Types(status.conditions) =>
        status.enabled = written.enabled /\ status.healthy = written.healthy

\* Components of one type have different results: which one is shown depends on
\* the order in which a cache lists them.
Ambiguous ==
    /\ outcome # Unknown
    /\ \E c, d \in Shown(outcome, IF deleted THEN "deleted" ELSE "updated") :
          TypeOf[c] = TypeOf[d] /\ ComponentStatus[outcome[c].is] # ComponentStatus[outcome[d].is]

\* Once all is calm the status comes to rest: the passes that each update of
\* the status causes do not change it again and again, unless components of one
\* type take turns in their condition.
ComesToRest == <>[][calm /\ ~Ambiguous => status' = status]_vars

\* ... and what it says is what the engine reports, although a lost update is
\* only logged.
StatusFollows ==
    (calm /\ present) ~>
        [](present => /\ outcome # Unknown
                      /\ written = Report(outcome, IF deleted THEN "deleted" ELSE "updated"))

\* A deleted ControlPlane goes once nothing is left but what is kept, although
\* the engine reports a kept component as uninstalled again and again.
KeptDoesNotBlock ==
    (/\ calm /\ deleted /\ outcome # Unknown
     /\ \A c \in Registered(outcome) \ Keep : outcome[c].is = "Disabled") ~> ~present

=============================================================================
