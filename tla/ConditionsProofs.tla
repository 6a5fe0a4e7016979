-------------------------- MODULE ConditionsProofs --------------------------
(***************************************************************************)
(* Proofs about the status of a ControlPlane, for any set of components    *)
(* and any results of the engine: what is stored are conditions of one pass*)
(* and transition times move with the status only.                         *)
(***************************************************************************)
EXTENDS Conditions, FiniteSetTheorems, TLAPS

OnePerType(conds) == \A c, d \in conds : c.type = d.type => c = d
Entries(conds) == {Entry(c) : c \in conds}

----------------------------------------------------------------------------
(* UpdateConditions.                                                        *)

\* A condition that is found has the type that was looked for.
LEMMA Found ==
    ASSUME NEW conds, NEW type \in Types(conds)
    PROVE  Find(conds, type) \in conds /\ Find(conds, type).type = type
BY DEF Find, Types

\* SetStatusCondition takes over a transition time at most.
LEMMA TransitionKeeps ==
    ASSUME NEW conds \in SUBSET Condition, NEW n \in Condition
    PROVE  /\ Transition(conds, n) \in Condition
           /\ Transition(conds, n).type = n.type
           /\ Transition(conds, n).status = n.status
           /\ Entry(Transition(conds, n)) = Entry(n)
<1>1. CASE n.type \in Types(conds) /\ Find(conds, n.type).status = n.status
  <2>1. PICK c \in Condition : c = Find(conds, n.type)
    BY <1>1, Found
  <2>2. Transition(conds, n) = [n EXCEPT !.time = c.time]
    BY <1>1, <2>1 DEF Transition
  <2>3. [n EXCEPT !.time = c.time] \in Condition
    BY DEF Condition
  <2>4. /\ [n EXCEPT !.time = c.time].type = n.type
        /\ [n EXCEPT !.time = c.time].status = n.status
        /\ [n EXCEPT !.time = c.time].reason = n.reason
    BY DEF Condition
  <2> QED
    BY <2>2, <2>3, <2>4 DEF Entry
<1>2. CASE ~(n.type \in Types(conds) /\ Find(conds, n.type).status = n.status)
  BY <1>2 DEF Transition
<1> QED
  BY <1>1, <1>2

\* What is left of the list is what is new, with its transition times.
LEMMA Updated ==
    ASSUME NEW conds \in SUBSET Condition, NEW new \in SUBSET Condition
    PROVE  UpdateConditions(conds, new) = {Transition(conds, n) : n \in new}
<1>1. \A n \in new : Transition(conds, n).type \in Types(new)
  BY TransitionKeeps DEF Types
<1> QED
  BY <1>1 DEF UpdateConditions, SetStatusConditions

\* The list keeps its type, says what is new and has one condition for each type.
LEMMA UpdateIsReport ==
    ASSUME NEW conds \in SUBSET Condition, NEW new \in SUBSET Condition, OnePerType(new)
    PROVE  /\ UpdateConditions(conds, new) \in SUBSET Condition
           /\ Entries(UpdateConditions(conds, new)) = Entries(new)
           /\ Types(UpdateConditions(conds, new)) = Types(new)
           /\ OnePerType(UpdateConditions(conds, new))
<1> DEFINE all == {Transition(conds, n) : n \in new}
<1>1. all \in SUBSET Condition
  BY TransitionKeeps
<1>2. Entries(all) = Entries(new)
  BY TransitionKeeps DEF Entries
<1>3. Types(all) = Types(new)
  BY TransitionKeeps DEF Types
<1>4. OnePerType(all)
  BY TransitionKeeps DEF OnePerType
<1> QED
  BY <1>1, <1>2, <1>3, <1>4, Updated

\* "keeping the LastTransitionTime of unchanged conditions"
LEMMA UpdateKeepsTimes ==
    ASSUME NEW conds \in SUBSET Condition, NEW new \in SUBSET Condition, OnePerType(conds),
           NEW c \in conds, NEW d \in UpdateConditions(conds, new), c.type = d.type
    PROVE  IF c.status = d.status THEN d.time = c.time ELSE d \in new
<1>1. PICK n \in new : d = Transition(conds, n)
  BY Updated
<1>2. d.type = n.type /\ d.status = n.status
  BY <1>1, TransitionKeeps
<1>3. Find(conds, n.type) = c
  BY <1>2, Found DEF OnePerType, Types
<1>4. n.type \in Types(conds)
  BY <1>2 DEF Types
<1>5. CASE c.status = d.status
  <2>1. d = [n EXCEPT !.time = c.time]
    BY <1>1, <1>2, <1>3, <1>4, <1>5 DEF Transition
  <2> QED
    BY <1>5, <2>1 DEF Condition
<1>6. CASE c.status # d.status
  BY <1>1, <1>2, <1>3, <1>6 DEF Transition
<1> QED
  BY <1>5, <1>6

----------------------------------------------------------------------------
(* What a pass collects.                                                    *)

Results == [Component -> Result \cup {Absent}]

\* A registered component has a status of the engine.
LEMMA ResultTypes ==
    ASSUME NEW rs \in Results, NEW c \in Registered(rs)
    PROVE  c \in Component /\ rs[c].is \in StatusName
<1>1. rs[c] \in Result
  BY DEF Registered, Results
<1>2. WhenDisabled \subseteq StatusName /\ WhenEnabled \subseteq StatusName
  BY DEF WhenDisabled, WhenEnabled, StatusName
<1> QED
  BY <1>1, <1>2 DEF Registered, Result

\* ToCondition makes a condition of every status.
LEMMA ConditionType ==
    ASSUME NEW c \in Component, NEW n \in StatusName, NEW time \in 0..Ticks - 1
    PROVE  /\ ToCondition(c, n, time) \in Condition
           /\ ToCondition(c, n, time).type = TypeOf[c]
           /\ Available(time) \in Condition
           /\ Available(time).type = "Ready"
<1>1. ComponentStatus[n].status \in {"True", "False"}
  BY DEF ComponentStatus, Ready, NotReady
<1>2. ToCondition(c, n, time) \in Condition /\ ToCondition(c, n, time).type = TypeOf[c]
  BY <1>1 DEF ToCondition, Condition
<1>3. Available(time) \in Condition /\ Available(time).type = "Ready"
  BY DEF Available, Condition
<1> QED
  BY <1>2, <1>3

\* The conditions of registered components: one for each of their types, which is
\* never Ready.
LEMMA Collected ==
    ASSUME NEW rs \in Results, NEW S \in SUBSET Registered(rs), now \in 0..Ticks - 1,
           NEW conds \in ConditionsOf(rs, S)
    PROVE  /\ conds \in SUBSET Condition
           /\ OnePerType(conds)
           /\ Types(conds) = {TypeOf[c] : c \in S}
           /\ "Ready" \notin Types(conds)
<1>1. PICK last \in Picks(S) : conds = {ToCondition(c, rs[c].is, now) : c \in last}
  BY DEF ConditionsOf
<1>2. /\ last \subseteq S
      /\ \A c \in S : \E d \in last : TypeOf[d] = TypeOf[c]
      /\ \A c, d \in last : TypeOf[c] = TypeOf[d] => c = d
  BY DEF Picks
<1>3. \A c \in last : /\ c \in Component
                      /\ ToCondition(c, rs[c].is, now) \in Condition
                      /\ ToCondition(c, rs[c].is, now).type = TypeOf[c]
  BY <1>2, ResultTypes, ConditionType
<1>4. conds \in SUBSET Condition /\ OnePerType(conds)
  BY <1>1, <1>2, <1>3 DEF OnePerType
<1>5. Types(conds) = {TypeOf[c] : c \in last}
  BY <1>1, <1>3 DEF Types
<1>6. Types(conds) = {TypeOf[c] : c \in S}
  BY <1>2, <1>5
<1>7. "Ready" \notin Types(conds)
  BY <1>3, <1>5, TypesAssumption
<1> QED
  BY <1>4, <1>6, <1>7

\* An entry does not tell the time.
LEMMA Timeless ==
    ASSUME NEW time
    PROVE  /\ \A c, n : Entry(ToCondition(c, n, time)) = Entry(ToCondition(c, n, 0))
           /\ Entry(Available(time)) = Entry(Available(0))
BY DEF Entry, ToCondition, Available

\* ... and neither does the type of one.
LEMMA TypeOfEntry ==
    /\ \A c, n, time : Entry(ToCondition(c, n, time)).type = TypeOf[c]
    /\ \A time : Entry(Available(time)).type = "Ready"
BY DEF Entry, ToCondition, Available

\* Conditions that are among those of a report, one for each of its types.
Reports(conds, reported) ==
    /\ Entries(conds) \subseteq reported
    /\ Types(conds) = Types(reported)

\* What a pass over a deleted ControlPlane collects are conditions of its report ...
LEMMA DeletedReport ==
    ASSUME NEW rs \in Results, now \in 0..Ticks - 1, NEW conds \in WhenDeleted(rs)
    PROVE  /\ conds \in SUBSET Condition
           /\ OnePerType(conds)
           /\ "Ready" \notin Types(conds)
           /\ Reports(conds, Report(rs, "deleted").conditions)
<1> DEFINE reported == Report(rs, "deleted").conditions
<1>1. Shown(rs, "deleted") = Registered(rs)
  BY DEF Shown
<1>2. conds \in ConditionsOf(rs, Registered(rs))
  BY DEF WhenDeleted
<1>3. reported = {Entry(ToCondition(c, rs[c].is, 0)) : c \in Registered(rs)}
  BY <1>1 DEF Report
<1>4. Types(reported) = {TypeOf[c] : c \in Registered(rs)}
  BY <1>3, TypeOfEntry DEF Types
<1>5. Entries(conds) \subseteq reported
  BY <1>2, <1>3, Timeless DEF ConditionsOf, Picks, Entries
<1> QED
  BY <1>2, <1>4, <1>5, Collected DEF Reports

\* ... and so is what any other pass collects, Ready included.
LEMMA UpdatedReport ==
    ASSUME NEW rs \in Results, now \in 0..Ticks - 1, NEW all \in WhenUpdated(rs)
    PROVE  /\ all \in SUBSET Condition
           /\ OnePerType(all)
           /\ Reports(all, Report(rs, "updated").conditions)
<1> DEFINE shown == {c \in Registered(rs) : rs[c].enabled \/ rs[c].is # "Disabled"}
           reported == Report(rs, "updated").conditions
<1>1. Shown(rs, "updated") = shown
  BY DEF Shown
<1>2. Available(now) \in Condition /\ Available(now).type = "Ready"
  BY DEF Available, Condition
<1>3. PICK conds \in ConditionsOf(rs, shown) : all = conds \cup {Available(now)}
  BY DEF WhenUpdated
<1>4. shown \in SUBSET Registered(rs)
  OBVIOUS
<1>5. /\ conds \in SUBSET Condition /\ OnePerType(conds)
      /\ Types(conds) = {TypeOf[c] : c \in shown} /\ "Ready" \notin Types(conds)
  <2> HIDE DEF shown
  <2> QED
    BY <1>3, <1>4, Collected
<1>6. all \in SUBSET Condition
  BY <1>2, <1>3, <1>5
<1>7. OnePerType(all)
  BY <1>2, <1>3, <1>5 DEF OnePerType, Types
<1>8. reported = {Entry(ToCondition(c, rs[c].is, 0)) : c \in shown} \cup {Entry(Available(0))}
  BY <1>1 DEF Report
<1>9. Types(reported) = {TypeOf[c] : c \in shown} \cup {"Ready"}
  <2> HIDE DEF shown, reported
  <2> QED
    BY <1>8, TypeOfEntry DEF Types
<1>10. Types(all) = Types(conds) \cup {"Ready"}
  BY <1>2, <1>3 DEF Types
<1>11. Entries(all) \subseteq reported
  <2> HIDE DEF shown, reported
  <2> QED
    BY <1>3, <1>8, Timeless DEF ConditionsOf, Picks, Entries
<1> QED
  BY <1>5, <1>6, <1>7, <1>9, <1>10, <1>11 DEF Reports

\* The counters count components.
LEMMA Counters ==
    ASSUME NEW rs
    PROVE  /\ Cardinality(Enabled(rs)) \in 0..Cardinality(Component)
           /\ Cardinality(Healthy(rs)) \in 0..Cardinality(Component)
<1>1. \A S \in SUBSET Component : Cardinality(S) \in 0..Cardinality(Component)
  BY TypesAssumption, FS_Subset, FS_CardinalityType
<1> QED
  BY <1>1 DEF Enabled, Healthy

----------------------------------------------------------------------------
(* The invariant.                                                           *)

\* The results of the engine, once they are known for good.
OutcomeInv == outcome # Unknown => outcome \in Results

\* What a pass has collected are conditions of its report, one for each type;
\* only a pass that counts collects Ready.
CollectInv ==
    /\ pc # "defer" => newConditions = {}
    /\ OnePerType(newConditions)
    /\ pc = "defer" => Reports(newConditions, report.conditions)
    /\ pc = "defer" /\ "Ready" \in Types(newConditions) =>
          mem.enabled = report.enabled /\ mem.healthy = report.healthy

\* As long as nobody writes, the pass works on the stored conditions.
CopyInv == current => mem.conditions = status.conditions

StatusInv == TypeOK /\ OutcomeInv /\ CollectInv /\ CopyInv
                /\ StatusIsOneReport /\ ReadyMeansCounted

\* What the engine can return at any time is a result for each component.
LEMMA OutcomesAre == StatusInv => Outcomes \subseteq Results
BY DEF StatusInv, OutcomeInv, Outcomes, AllOutcomes, Results

\* An empty status is well typed, and so is the report without results.
LEMMA Empty ==
    /\ NoStatus \in StatusType
    /\ NoStatus.conditions = {}
    /\ NoReport.conditions = {}
    /\ Report(NoResults, "failed").conditions = {}
<1>1. Registered(NoResults) = {}
  BY DEF Registered, NoResults
<1>2. Cardinality(Component) \in Nat
  BY TypesAssumption, FS_CardinalityType
<1>3. NoStatus \in StatusType
  BY <1>2 DEF NoStatus, StatusType
<1>4. NoReport.conditions = {} /\ Report(NoResults, "failed").conditions = {}
  BY <1>1 DEF NoReport, Report, Shown
<1> QED
  BY <1>3, <1>4 DEF NoStatus

\* The status of a ControlPlane that does not exist.
LEMMA StatusInit == Init => StatusInv
<1> SUFFICES ASSUME Init PROVE StatusInv
  OBVIOUS
<1>1. TypeOK
  <2>1. now \in 0..Ticks - 1
    BY DEF Init, Ticks
  <2>2. status \in StatusType /\ mem \in StatusType /\ newConditions \subseteq Condition
    BY Empty DEF Init
  <2>3. pc = "idle" => mem = NoStatus /\ report = NoReport /\ path = "none"
    BY Zenon DEF Init
  <2> QED
    BY <2>1, <2>2, <2>3 DEF Init, TypeOK
<1>2. OutcomeInv /\ CollectInv /\ CopyInv
  BY DEF Init, OutcomeInv, CollectInv, CopyInv, OnePerType
<1>3. StatusIsOneReport /\ ReadyMeansCounted
  BY Empty DEF Init, StatusIsOneReport, ReadyMeansCounted, Types
<1> QED
  BY <1>1, <1>2, <1>3 DEF StatusInv

\* A pass that ends forgets what it has collected.
LEMMA PassEnds ==
    ASSUME TypeOK, Forget
    PROVE  /\ pc' = "idle" /\ mem' \in StatusType /\ mem' = NoStatus /\ report' = NoReport
           /\ path' = "none" /\ current' = FALSE /\ remaining' = FALSE
           /\ newConditions' \subseteq Condition
           /\ CollectInv' /\ CopyInv'
<1>1. mem' = NoStatus /\ newConditions' = {} /\ pc' = "idle" /\ current' = FALSE
  BY DEF Forget
<1>2. CollectInv' /\ CopyInv'
  BY <1>1 DEF CollectInv, CopyInv, OnePerType
<1> QED
  BY <1>1, <1>2, Empty DEF Forget

\* What the deferred update writes is the report of its pass.
LEMMA MergedIsReport ==
    ASSUME StatusInv, pc = "defer"
    PROVE  /\ Merged \in StatusType
           /\ Merged.conditions = UpdateConditions(mem.conditions, newConditions)
           /\ Reports(Merged.conditions, report.conditions)
           /\ OnePerType(Merged.conditions)
           /\ "Ready" \in Types(Merged.conditions) =>
                 Merged.enabled = report.enabled /\ Merged.healthy = report.healthy
<1> DEFINE merged == UpdateConditions(mem.conditions, newConditions)
<1>1. /\ mem \in StatusType /\ newConditions \in SUBSET Condition
      /\ OnePerType(newConditions) /\ Reports(newConditions, report.conditions)
      /\ "Ready" \in Types(newConditions) =>
            mem.enabled = report.enabled /\ mem.healthy = report.healthy
  BY DEF StatusInv, TypeOK, CollectInv
<1>2. mem.conditions \in SUBSET Condition
  BY <1>1 DEF StatusType
<1>3. /\ merged \in SUBSET Condition
      /\ Entries(merged) = Entries(newConditions)
      /\ Types(merged) = Types(newConditions)
      /\ OnePerType(merged)
  BY <1>1, <1>2, UpdateIsReport
<1>4. /\ Merged \in StatusType /\ Merged.conditions = merged
      /\ Merged.enabled = mem.enabled /\ Merged.healthy = mem.healthy
  <2> HIDE DEF merged
  <2>1. Merged = [mem EXCEPT !.conditions = merged]
    BY DEF Merged, merged
  <2> QED
    BY <1>1, <1>3, <2>1 DEF StatusType
<1>5. Reports(merged, report.conditions)
  BY <1>1, <1>3 DEF Reports
<1> QED
  BY <1>1, <1>3, <1>4, <1>5

\* What the results of the engine are once they are known for good.
LEMMA OutcomeKept ==
    ASSUME StatusInv, NEW rs \in Outcomes, outcome' = Outcome(rs)
    PROVE  OutcomeInv'
<1>1. rs \in Results
  BY OutcomesAre
<1>2. outcome' = rs \/ outcome' = outcome
  BY DEF Outcome
<1> QED
  BY <1>1, <1>2 DEF StatusInv, OutcomeInv, Results

\* Only the deferred update and the end of the ControlPlane write the status.
LEMMA StatusStep ==
    ASSUME StatusInv, [Next]_vars
    PROVE  StatusInv'
<1> USE DEF StatusInv
<1>1. CASE Get
  <2>1. TypeOK'
    BY <1>1 DEF Get, TypeOK
  <2>2. OutcomeInv' /\ CollectInv' /\ CopyInv'
    BY <1>1 DEF Get, OutcomeInv, CollectInv, CopyInv, TypeOK
  <2>3. StatusIsOneReport' /\ ReadyMeansCounted'
    BY <1>1 DEF Get, StatusIsOneReport, ReadyMeansCounted
  <2> QED
    BY <2>1, <2>2, <2>3
<1>2. CASE EarlyReturn \/ Restart
  <2>1. Forget /\ UNCHANGED <<deleted, status, now, calm, outcome, written, present>>
        /\ queued' \in BOOLEAN
    BY <1>2 DEF EarlyReturn, Restart, TypeOK
  <2>2. TypeOK' /\ CollectInv' /\ CopyInv'
    BY <2>1, PassEnds DEF TypeOK
  <2>3. OutcomeInv' /\ StatusIsOneReport' /\ ReadyMeansCounted'
    BY <2>1 DEF OutcomeInv, StatusIsOneReport, ReadyMeansCounted
  <2> QED
    BY <2>2, <2>3
<1>3. CASE Fails
  <2>1. TypeOK'
    BY <1>3 DEF Fails, TypeOK
  <2>2. newConditions = {} /\ newConditions' = {} /\ report'.conditions = {}
    BY <1>3, Empty DEF Fails, CollectInv
  <2>3. CollectInv'
    BY <2>2 DEF CollectInv, OnePerType, Reports, Entries, Types
  <2>4. OutcomeInv' /\ CopyInv' /\ StatusIsOneReport' /\ ReadyMeansCounted'
    BY <1>3 DEF Fails, OutcomeInv, CopyInv, StatusIsOneReport, ReadyMeansCounted
  <2> QED
    BY <2>1, <2>3, <2>4
<1>4. CASE Update
  <2>1. PICK rs \in Outcomes :
          /\ newConditions' \in WhenUpdated(rs)
          /\ report' = Report(rs, path) /\ outcome' = Outcome(rs)
          /\ mem' = [mem EXCEPT !.enabled = Cardinality(Enabled(rs)),
                                !.healthy = Cardinality(Healthy(rs))]
    BY <1>4 DEF Update
  <2>2. rs \in Results /\ now \in 0..Ticks - 1 /\ path = "updated"
    BY <1>4, OutcomesAre DEF Update, TypeOK
  <2>3. /\ newConditions' \in SUBSET Condition /\ OnePerType(newConditions')
        /\ Reports(newConditions', report'.conditions)
    BY <2>1, <2>2, UpdatedReport
  <2>4. /\ mem' \in StatusType /\ mem'.conditions = mem.conditions
        /\ mem'.enabled = Cardinality(Enabled(rs)) /\ mem'.healthy = Cardinality(Healthy(rs))
    BY <2>1, Counters DEF TypeOK, StatusType
  <2>5. report'.enabled = Cardinality(Enabled(rs)) /\ report'.healthy = Cardinality(Healthy(rs))
    BY <2>1 DEF Report
  <2>6. TypeOK'
    BY <1>4, <2>3, <2>4 DEF Update, TypeOK
  <2>7. CollectInv'
    BY <1>4, <2>3, <2>4, <2>5 DEF Update, CollectInv, OnePerType, Reports, Entries, Types
  <2>8. CopyInv' /\ StatusIsOneReport' /\ ReadyMeansCounted'
    BY <1>4, <2>4 DEF Update, CopyInv, StatusIsOneReport, ReadyMeansCounted
  <2> QED
    BY <2>1, <2>6, <2>7, <2>8, OutcomeKept
<1>5. CASE Delete
  <2>1. PICK rs \in Outcomes :
          /\ newConditions' \in WhenDeleted(rs)
          /\ report' = Report(rs, path) /\ outcome' = Outcome(rs)
          /\ remaining' = \E c \in Registered(rs) \ Keep : rs[c].is # "Disabled"
    BY <1>5 DEF Delete
  <2>2. rs \in Results /\ now \in 0..Ticks - 1 /\ path = "deleted"
    BY <1>5, OutcomesAre DEF Delete, TypeOK
  <2>3. /\ newConditions' \in SUBSET Condition /\ OnePerType(newConditions')
        /\ "Ready" \notin Types(newConditions')
        /\ Reports(newConditions', report'.conditions)
    BY <2>1, <2>2, DeletedReport
  <2>4. remaining' \in BOOLEAN
    BY <2>1
  <2>5. TypeOK'
    BY <1>5, <2>3, <2>4 DEF Delete, TypeOK
  <2>6. CollectInv'
    BY <1>5, <2>3 DEF Delete, CollectInv, OnePerType, Reports, Entries, Types
  <2>7. CopyInv' /\ StatusIsOneReport' /\ ReadyMeansCounted'
    BY <1>5 DEF Delete, CopyInv, StatusIsOneReport, ReadyMeansCounted
  <2> QED
    BY <2>1, <2>5, <2>6, <2>7, OutcomeKept
<1>6. CASE UpdateStatus
  <2>1. /\ pc = "defer" /\ Forget /\ queued' = TRUE
        /\ UNCHANGED <<present, deleted, now, calm, outcome>>
    BY <1>6 DEF UpdateStatus
  <2>2. CASE status' = Merged /\ written' = report
    <3>1. TypeOK' /\ CollectInv' /\ CopyInv'
      BY <2>1, <2>2, PassEnds, MergedIsReport DEF TypeOK
    <3>2. StatusIsOneReport'
      BY <2>1, <2>2, MergedIsReport DEF StatusIsOneReport, Reports, Entries, OnePerType
    <3>3. ReadyMeansCounted'
      BY <2>1, <2>2, MergedIsReport DEF ReadyMeansCounted
    <3>4. OutcomeInv'
      BY <2>1 DEF OutcomeInv
    <3> QED
      BY <3>1, <3>2, <3>3, <3>4
  <2>3. CASE UNCHANGED <<status, written>>
    <3>1. TypeOK' /\ CollectInv' /\ CopyInv'
      BY <2>1, <2>3, PassEnds DEF TypeOK
    <3>2. OutcomeInv' /\ StatusIsOneReport' /\ ReadyMeansCounted'
      BY <2>1, <2>3 DEF OutcomeInv, StatusIsOneReport, ReadyMeansCounted
    <3> QED
      BY <3>1, <3>2
  <2> QED
    BY <1>6, <2>2, <2>3 DEF UpdateStatus
<1>7. CASE Release
  <2>1. /\ present' = FALSE /\ deleted' = FALSE /\ queued' = TRUE /\ Forget
        /\ status' = NoStatus /\ written' = NoReport
        /\ UNCHANGED <<now, calm, outcome>>
    BY <1>7 DEF Release
  <2>2. TypeOK' /\ CollectInv' /\ CopyInv'
    BY <2>1, PassEnds, Empty DEF TypeOK
  <2>3. OutcomeInv' /\ StatusIsOneReport' /\ ReadyMeansCounted'
    BY <2>1, Empty DEF OutcomeInv, StatusIsOneReport, ReadyMeansCounted, Types
  <2> QED
    BY <2>2, <2>3
<1>8. CASE Tick \/ UserCreates \/ UserWrites \/ CalmDown \/ UNCHANGED vars
  <2>1. /\ UNCHANGED <<status, pc, mem, report, remaining, newConditions, path, outcome, written>>
        /\ current' \in {current, FALSE}
    BY <1>8 DEF Tick, UserCreates, UserWrites, CalmDown, vars, pass
  <2>2. /\ present' \in BOOLEAN /\ deleted' \in BOOLEAN /\ queued' \in BOOLEAN
        /\ calm' \in BOOLEAN /\ now' \in 0..Ticks - 1 /\ current' \in BOOLEAN
    <3>1. now' = now \/ now' = (now + 1) % Ticks
      BY <1>8 DEF Tick, UserCreates, UserWrites, CalmDown, vars
    <3>2. now' \in 0..Ticks - 1
      BY <3>1 DEF Ticks, TypeOK
    <3>3. current' \in BOOLEAN
      BY <2>1 DEF TypeOK
    <3>4. CASE Tick
      BY <3>2, <3>3, <3>4 DEF Tick, TypeOK
    <3>5. CASE UserCreates
      BY <3>2, <3>3, <3>5 DEF UserCreates, TypeOK
    <3>6. CASE UserWrites
      BY <3>2, <3>3, <3>6 DEF UserWrites, TypeOK
    <3>7. CASE CalmDown \/ UNCHANGED vars
      BY <3>2, <3>3, <3>7 DEF CalmDown, vars, TypeOK
    <3> QED
      BY <1>8, <3>4, <3>5, <3>6, <3>7
  <2>3. TypeOK'
    BY <2>1, <2>2 DEF TypeOK
  <2>4. CollectInv'
    BY <2>1 DEF CollectInv, OnePerType, Reports, Entries, Types
  <2>5. CopyInv'
    BY <2>1 DEF CopyInv, TypeOK
  <2>6. OutcomeInv' /\ StatusIsOneReport' /\ ReadyMeansCounted'
    BY <2>1 DEF OutcomeInv, StatusIsOneReport, ReadyMeansCounted
  <2> QED
    BY <2>3, <2>4, <2>5, <2>6
<1> QED
  BY <1>1, <1>2, <1>3, <1>4, <1>5, <1>6, <1>7, <1>8 DEF Next, Reconcile

\* The transition times of a step.
LEMMA TimesStep ==
    ASSUME StatusInv, [Next]_vars,
           NEW c \in status.conditions, NEW d \in status'.conditions, c.type = d.type
    PROVE  IF c.status = d.status THEN d.time = c.time ELSE d \in newConditions
<1>1. status.conditions \in SUBSET Condition /\ mem.conditions \in SUBSET Condition
      /\ newConditions \in SUBSET Condition /\ OnePerType(newConditions)
  BY DEF StatusInv, TypeOK, StatusType, CollectInv
<1>2. OnePerType(status.conditions)
  BY DEF StatusInv, StatusIsOneReport, OnePerType
<1>3. CASE UNCHANGED status
  BY <1>2, <1>3 DEF OnePerType
<1>4. CASE UpdateStatus /\ ~UNCHANGED status
  <2>1. pc = "defer" /\ current /\ status' = Merged
    BY <1>4 DEF UpdateStatus
  <2>2. mem.conditions = status.conditions
    BY <2>1 DEF StatusInv, CopyInv
  <2>3. status'.conditions = UpdateConditions(status.conditions, newConditions)
    BY <2>1, <2>2, MergedIsReport
  <2> QED
    BY <1>1, <1>2, <2>3, UpdateKeepsTimes
<1>5. CASE Release
  BY <1>5, Empty DEF Release
<1>6. UNCHANGED status \/ UpdateStatus \/ Release
  BY DEF Next, Reconcile, Get, EarlyReturn, Fails, Update, Delete, Restart, Tick,
         UserCreates, UserWrites, CalmDown, vars
<1> QED
  BY <1>3, <1>4, <1>5, <1>6

----------------------------------------------------------------------------
(* The theorems.                                                            *)

LEMMA StatusInvariant == Spec => []StatusInv
<1>1. StatusInv /\ [Next]_vars => StatusInv'
  BY StatusStep
<1> QED
  BY <1>1, StatusInit, PTL DEF Spec

\* Every variable of the status keeps its type, and an idle worker holds nothing
\* of an earlier pass: with any components, Reconcile forgets its copy.
THEOREM StatusTypes == Spec => []TypeOK
<1>1. StatusInv => TypeOK
  BY DEF StatusInv
<1> QED
  BY <1>1, StatusInvariant, PTL

\* The stored conditions are those of one pass, one for each type it reports,
\* whatever UpdateConditions finds in the list, however many passes fail or lose
\* their update, and whichever components share a type.
THEOREM StoredIsOneReport == Spec => []StatusIsOneReport
<1>1. StatusInv => StatusIsOneReport
  BY DEF StatusInv
<1> QED
  BY <1>1, StatusInvariant, PTL

\* A Ready condition comes with the counters of its own pass: no pass that
\* leaves the counters alone, failing or deleting, stores Ready.
THEOREM ReadyIsCounted == Spec => []ReadyMeansCounted
<1>1. StatusInv => ReadyMeansCounted
  BY DEF StatusInv
<1> QED
  BY <1>1, StatusInvariant, PTL

\* UpdateConditions moves a stored transition time only when the stored status
\* flips: the pass merges into the conditions that are stored, or loses.
THEOREM TimesAreKept == Spec => TransitionTimesKept
<1>1. StatusInv /\ [Next]_vars =>
        [\A c \in status.conditions, d \in status'.conditions :
           c.type = d.type => IF c.status = d.status THEN d.time = c.time
                              ELSE d \in newConditions]_vars
  BY TimesStep
<1> QED
  BY <1>1, StatusInvariant, PTL DEF Spec, TransitionTimesKept

=============================================================================
