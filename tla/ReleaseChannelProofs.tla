------------------------ MODULE ReleaseChannelProofs ------------------------
(***************************************************************************)
(* Proofs about ReleaseChannel, for any channels and versions.  Whatever   *)
(* is on its way from a registry to a cluster has been offered: in the     *)
(* listing of the worker, in a status, in the config of a pass; the        *)
(* config may also hold what a user has named.                             *)
(***************************************************************************)
EXTENDS ReleaseChannel, TLAPS

RegistryOK ==
    /\ registry \in [Channel -> [Version -> Entry]]
    /\ offered \subseteq Version
    /\ \A c \in Channel, v \in Version : registry[c][v] = "offered" => v \in offered

\* A worker that is busy knows its key.
WorkType == [at : {"idle", "list", "lookup"}, key : Channel \cup {"none"},
             current : BOOLEAN, left : SUBSET Version, found : SUBSET Version]
WorkOK ==
    /\ work \in WorkType
    /\ work.at = "idle" => work = Asleep
    /\ work.at # "idle" => work.key \in Channel
    /\ work.found \subseteq offered

ChannelOK ==
    /\ channel \in [Channel -> [exists : BOOLEAN, listed : SUBSET Version]]
    /\ todo \subseteq Channel
    /\ \A c \in Channel : channel[c].listed \subseteq offered

\* A pass that is under way knows its component, and that of a chart has filled the
\* chart of the config before it comes to the installation.
PassType == [at : {"idle", "observe", "uninstall", "check", "apply"},
             item : Item \cup {"none"}, version : Version \cup {""},
             chart : Installable \cup {"nil", Unresolved}]
PassOK ==
    /\ pass \in PassType
    /\ pass.at = "idle" => pass = NoPass
    /\ pass.at # "idle" => pass.item \in Item
    /\ pass.chart \in Installable => pass.chart \in offered \cup named
    /\ pass.item = "chart" /\ pass.at \in {"check", "apply"} => pass.chart # "nil"

InstalledOK ==
    /\ installed \in [Item -> Installable \cup {"absent", Unresolved}]
    /\ OnlyOffered
    /\ PackagesAreResolved

UsersOK ==
    /\ wanted \in [Item -> Version \cup {""}]
    /\ custom \in ChartVersion \cup {"nil"}
    /\ named \subseteq ChartVersion
    /\ custom # "nil" => custom \in named
    /\ calm \in BOOLEAN

Inv == RegistryOK /\ WorkOK /\ ChannelOK /\ PassOK /\ InstalledOK /\ UsersOK

\* The invariant contains the type invariant.
LEMMA InvTypeOK == Inv => TypeOK
BY DEF Inv, RegistryOK, WorkOK, WorkType, ChannelOK, PassOK, PassType, InstalledOK, UsersOK, TypeOK

\* What stands for no version is not one, and a version of a registry is one.
LEMMA InstallableFacts == /\ {"nil", "absent", Unresolved} \cap Installable = {}
                          /\ Version \subseteq Installable
BY ChannelAssumption DEF Installable, Unresolved

\* A look-up that succeeds has found a real version, and one that was offered.
LEMMA FoundIsOffered ==
    ASSUME ChannelOK, NEW v, NEW found \in GetOCMComponent(v), found
    PROVE  v \in Version /\ v \in offered /\ v # Unresolved
<1>1. Found(v)
  BY DEF GetOCMComponent
<1>2. PICK c \in Channel : v \in channel[c].listed
  BY <1>1 DEF Found
<1>3. channel[c].listed \subseteq Version
  BY DEF ChannelOK
<1> QED
  BY <1>2, <1>3, ChannelAssumption DEF ChannelOK, Unresolved

\* An idle worker and a finished pass hold nothing.
LEMMA AsleepOK == work = Asleep => WorkOK
BY DEF WorkOK, WorkType, Asleep

LEMMA NoPassOK == NoPass \in PassType /\ NoPass.at = "idle" /\ NoPass.chart \notin Installable
<1>1. "nil" \notin Installable
  BY InstallableFacts
<1> QED
  BY <1>1 DEF PassType, NoPass

LEMMA InitInv == Init => Inv
<1> SUFFICES ASSUME Init
             PROVE  Inv
  OBVIOUS
<1>1. RegistryOK
  BY DEF Init, RegistryOK, Entry
<1>2. WorkOK
  BY AsleepOK DEF Init
<1>3. ChannelOK
  BY DEF Init, ChannelOK, NoChannel
<1>4. PassOK
  BY NoPassOK DEF Init, PassOK
<1>5. InstalledOK
  BY InstallableFacts DEF Init, InstalledOK, OnlyOffered, Known, PackagesAreResolved, Item, Unresolved
<1>6. UsersOK
  BY DEF Init, UsersOK
<1> QED
  BY <1>1, <1>2, <1>3, <1>4, <1>5, <1>6 DEF Inv

\* An error sends the worker to sleep and gives the key back.
LEMMA RetryStep ==
    ASSUME Inv, work.at # "idle", Retry, UNCHANGED <<channel, offered>>
    PROVE  WorkOK' /\ ChannelOK'
<1>1. WorkOK'
  BY DEF Retry, WorkOK, WorkType, Asleep
<1>2. ChannelOK'
  BY DEF Retry, Inv, WorkOK, ChannelOK
<1> QED
  BY <1>1, <1>2

\* The worker of the channel controller lists and writes statuses.
LEMMA WorkerStep ==
    ASSUME Inv, \/ \E c \in Channel : Get(c)
                \/ Working
                \/ ReconcileFails
    PROVE  Inv'
<1>0. UNCHANGED <<registry, users, pass, installed, offered, calm>>
  BY DEF Get, Working, ListVersions, LookupVersion, UpdateStatus, ReconcileFails
<1>1. RegistryOK' /\ PassOK' /\ InstalledOK' /\ UsersOK'
  BY <1>0 DEF users, Inv, RegistryOK, PassOK, InstalledOK, UsersOK, OnlyOffered, Known, PackagesAreResolved
<1> SUFFICES WorkOK' /\ ChannelOK'
  BY <1>1 DEF Inv
<1>2. ASSUME NEW c \in Channel, Get(c)
      PROVE  WorkOK' /\ ChannelOK'
  <2>1. ChannelOK'
    BY <1>0, <1>2 DEF Get, Inv, ChannelOK
  <2>2. CASE channel[c].exists
    BY <1>2, <2>1, <2>2 DEF Get, WorkOK, WorkType, Asleep
  <2>3. CASE ~channel[c].exists
    BY <1>0, <1>2, <2>1, <2>3 DEF Get, Inv, WorkOK
  <2> QED
    BY <2>2, <2>3
<1>3. CASE ListVersions
  <2>1. ChannelOK'
    BY <1>0, <1>3 DEF ListVersions, Inv, ChannelOK
  <2>2. PICK left \in SUBSET Version : work' = [work EXCEPT !.at = "lookup", !.left = left]
    BY <1>3 DEF ListVersions
  <2> QED
    BY <1>0, <1>3, <2>1, <2>2 DEF ListVersions, Inv, WorkOK, WorkType
<1>4. ASSUME NEW v \in Version, LookupVersion(v)
      PROVE  WorkOK' /\ ChannelOK'
  <2>1. work.at # "idle" /\ work.key \in Channel
    BY <1>4 DEF LookupVersion, Inv, WorkOK
  <2>2. CASE registry[work.key][v] \in {"missing", "broken"}
    BY <1>0, <1>4, <2>1, <2>2, RetryStep DEF LookupVersion
  <2>3. CASE registry[work.key][v] \notin {"missing", "broken"}
    <3>1. /\ work' = [work EXCEPT !.left = @ \ {v},
                         !.found = IF Skipped(registry[work.key][v]) THEN @ ELSE @ \cup {v}]
          /\ UNCHANGED <<channel, todo>>
      BY <1>4, <2>3 DEF LookupVersion
    <3>2. ~Skipped(registry[work.key][v]) => v \in offered
      BY <2>1, <2>3 DEF Skipped, Entry, Inv, RegistryOK
    <3>3. PICK found \in SUBSET offered :
             work' = [work EXCEPT !.left = @ \ {v}, !.found = found]
      BY <3>1, <3>2 DEF Inv, WorkOK, WorkType
    <3>4. found \subseteq Version
      BY DEF Inv, RegistryOK
    <3> QED
      BY <1>0, <2>1, <3>1, <3>3, <3>4 DEF Inv, WorkOK, WorkType, ChannelOK
  <2> QED
    BY <2>2, <2>3
<1>5. CASE UpdateStatus
  <2>1. work.at # "idle" /\ work.key \in Channel
    BY <1>5 DEF UpdateStatus, Inv, WorkOK
  <2>2. CASE work.current
    <3>1. Listed
      BY <1>5, <2>2 DEF UpdateStatus
    <3>2. WorkOK'
      BY <3>1 DEF Listed, WorkOK, WorkType, Asleep
    <3>3. work.found \subseteq Version /\ work.found \subseteq offered
      BY DEF Inv, WorkOK, WorkType
    <3>4. ChannelOK'
      BY <1>0, <2>1, <3>1, <3>3 DEF Listed, Inv, ChannelOK
    <3> QED
      BY <3>2, <3>4
  <2>3. CASE ~work.current
    BY <1>0, <1>5, <2>1, <2>3, RetryStep DEF UpdateStatus
  <2> QED
    BY <2>2, <2>3
<1>6. CASE ReconcileFails
  BY <1>0, <1>6, RetryStep DEF ReconcileFails
<1> QED
  BY <1>2, <1>3, <1>4, <1>5, <1>6 DEF Working

\* A pass installs what a look-up has found.
LEMMA PassStep ==
    ASSUME Inv, \/ \E i \in Item : StartPass(i)
                \/ Passing
                \/ PassFails
    PROVE  Inv'
<1>0. UNCHANGED <<registry, channel, work, todo, users, offered, calm>>
  BY DEF StartPass, Passing, ObserveChart, ObservePackage, Uninstall, IsInstallable, ApplyChart,
     ApplyPackage, PassFails
<1>1. RegistryOK' /\ WorkOK' /\ ChannelOK' /\ UsersOK'
  BY <1>0 DEF users, Inv, RegistryOK, WorkOK, ChannelOK, UsersOK
<1> SUFFICES PassOK' /\ InstalledOK'
  BY <1>1 DEF Inv
<1>a. UNCHANGED installed => InstalledOK'
  BY <1>0 DEF users, Inv, InstalledOK, OnlyOffered, Known, PackagesAreResolved
<1>b. pass' = NoPass => PassOK'
  BY NoPassOK DEF PassOK, PassType
<1>2. ASSUME NEW i \in Item, StartPass(i)
      PROVE  PassOK' /\ InstalledOK'
  <2>1. /\ wanted[i] \in Version \cup {""}
        /\ custom \in Installable \cup {"", "nil"}
        /\ custom \in Installable => custom \in named /\ custom # "nil"
    BY ChannelAssumption DEF Inv, UsersOK, Installable, Unresolved
  <2>2. PassOK'
    BY <1>0, <1>2, <2>1, InstallableFacts DEF users, StartPass, PassOK, PassType, NoPass, Unresolved
  <2> QED
    BY <1>2, <1>a, <2>2 DEF StartPass
<1>3. CASE ObserveChart
  <2>1. PICK found \in GetOCMComponent(pass.version) :
           pass' = [pass EXCEPT !.at = Observed, !.chart = Chart(found)]
    BY <1>3 DEF ObserveChart
  <2>2. found => pass.version \in Version /\ pass.version \in offered
    BY <2>1, FoundIsOffered DEF Inv
  <2>3. PICK chart \in Installable \cup {Unresolved} :
           /\ pass' = [pass EXCEPT !.at = Observed, !.chart = chart]
           /\ chart \in Installable => chart \in offered \cup named
           /\ chart # "nil"
    BY <2>1, <2>2, ChannelAssumption DEF Chart, Unresolved, Inv, PassOK, PassType, Installable
  <2>4. PassOK'
    BY <1>0, <1>3, <2>3 DEF users, ObserveChart, Observed, Inv, PassOK, PassType
  <2> QED
    BY <1>3, <1>a, <2>4 DEF ObserveChart
<1>4. CASE ObservePackage
  <2>1. PassOK'
    BY <1>0, <1>4 DEF users, ObservePackage, Observed, Inv, PassOK, PassType
  <2> QED
    BY <1>4, <1>a, <2>1 DEF ObservePackage
<1>5. CASE Uninstall
  <2>1. InstalledOK'
    BY <1>0, <1>5, InstallableFacts DEF users, Uninstall, Inv, InstalledOK, OnlyOffered, Known,
       PackagesAreResolved, Item, Unresolved
  <2> QED
    BY <1>5, <1>b, <2>1 DEF Uninstall
<1>6. CASE IsInstallable
  <2>1. pass' = [pass EXCEPT !.at = "apply"] \/ pass' = NoPass
    BY <1>6 DEF IsInstallable
  <2>2. pass' = [pass EXCEPT !.at = "apply"] => PassOK'
    BY <1>0, <1>6 DEF users, IsInstallable, Inv, PassOK, PassType
  <2> QED
    BY <1>6, <1>a, <1>b, <2>1, <2>2 DEF IsInstallable
<1>7. CASE ApplyChart
  <2>1. pass.chart \in Installable \cup {Unresolved}
    BY <1>7 DEF ApplyChart, Inv, PassOK, PassType
  <2>2. InstalledOK'
    BY <1>0, <1>7, <2>1, ChannelAssumption DEF users, ApplyChart, Inv, PassOK, PassType, InstalledOK,
       OnlyOffered, Known, PackagesAreResolved, Item, Unresolved
  <2> QED
    BY <1>7, <1>b, <2>2 DEF ApplyChart
<1>8. CASE ApplyPackage
  <2>1. PICK found \in GetOCMComponent(pass.version) :
           installed' = IF found THEN [installed EXCEPT !["package"] = pass.version] ELSE installed
    BY <1>8 DEF ApplyPackage
  <2>2. found => /\ pass.version \in Version /\ pass.version \in offered
                 /\ pass.version # Unresolved
    BY <2>1, FoundIsOffered DEF Inv
  <2>3. CASE found
    <3>1. InstalledOK'
      BY <1>0, <2>1, <2>2, <2>3, InstallableFacts DEF users, Inv, InstalledOK, OnlyOffered, Known, PackagesAreResolved, Item
    <3> QED
      BY <1>8, <1>b, <3>1 DEF ApplyPackage
  <2>4. CASE ~found
    BY <1>8, <1>a, <1>b, <2>1, <2>4 DEF ApplyPackage
  <2> QED
    BY <2>3, <2>4
<1>9. CASE PassFails
  BY <1>9, <1>a, <1>b DEF PassFails
<1> QED
  BY <1>2, <1>3, <1>4, <1>5, <1>6, <1>7, <1>8, <1>9 DEF Passing

\* Registries, users and a restart leave what has been offered where it is.
LEMMA WorldStep ==
    ASSUME Inv, \/ Restart
                \/ \E c \in Channel : \/ \E v \in Version, e \in Entry : RegistryChanges(c, v, e)
                                      \/ CreateChannel(c) \/ DeleteChannel(c) \/ EditChannel(c)
                \/ \E i \in Item, v \in Version \cup {""} : EditWanted(i, v)
                \/ \E chart \in ChartVersion \cup {"nil"} : EditChart(chart)
                \/ CalmDown
    PROVE  Inv'
<1>1. CASE Restart
  <2>1. WorkOK'
    BY <1>1 DEF Restart, WorkOK, WorkType, Asleep
  <2>2. PassOK'
    BY <1>1, NoPassOK DEF Restart, PassOK, PassType
  <2> QED
    BY <1>1, <2>1, <2>2 DEF users, Restart, Inv, RegistryOK, ChannelOK, InstalledOK, UsersOK, OnlyOffered, Known,
       PackagesAreResolved
<1>2. ASSUME NEW c \in Channel, NEW v \in Version, NEW e \in Entry, RegistryChanges(c, v, e)
      PROVE  Inv'
  <2>1. UNCHANGED <<channel, work, todo, users, pass, installed, calm>>
    BY <1>2 DEF RegistryChanges
  <2>2. RegistryOK'
    BY <1>2 DEF RegistryChanges, Inv, RegistryOK
  <2>3. offered \subseteq offered'
    BY <1>2 DEF RegistryChanges
  <2>4. WorkOK' /\ ChannelOK'
    BY <2>1, <2>3 DEF Inv, WorkOK, ChannelOK
  <2>5. PassOK' /\ InstalledOK' /\ UsersOK'
    BY <2>1, <2>3 DEF users, Inv, PassOK, InstalledOK, UsersOK, OnlyOffered, Known, PackagesAreResolved
  <2> QED
    BY <2>2, <2>4, <2>5 DEF Inv
<1>3. ASSUME NEW c \in Channel, CreateChannel(c) \/ DeleteChannel(c) \/ EditChannel(c)
      PROVE  Inv'
  <2>1. UNCHANGED <<registry, users, pass, installed, offered, calm>>
    BY <1>3 DEF CreateChannel, DeleteChannel, EditChannel
  <2>2. RegistryOK' /\ PassOK' /\ InstalledOK' /\ UsersOK'
    BY <2>1 DEF users, Inv, RegistryOK, PassOK, InstalledOK, UsersOK, OnlyOffered, Known, PackagesAreResolved
  <2>3. ChannelOK'
    <3>1. \/ UNCHANGED channel
          \/ \E b \in BOOLEAN : channel' = [channel EXCEPT ![c] = [exists |-> b, listed |-> {}]]
      BY <1>3 DEF CreateChannel, DeleteChannel, EditChannel, NoChannel
    <3>2. todo' = todo \cup {c}
      BY <1>3 DEF CreateChannel, DeleteChannel, EditChannel
    <3>3. CASE UNCHANGED channel
      BY <2>1, <3>2, <3>3 DEF Inv, ChannelOK
    <3>4. ASSUME NEW b \in BOOLEAN, channel' = [channel EXCEPT ![c] = [exists |-> b, listed |-> {}]]
          PROVE  ChannelOK'
      <4>1. channel \in [Channel -> [exists : BOOLEAN, listed : SUBSET Version]]
        BY DEF Inv, ChannelOK
      <4>2. channel' \in [Channel -> [exists : BOOLEAN, listed : SUBSET Version]]
        BY <3>4, <4>1
      <4>3. \A d \in Channel : channel'[d].listed \subseteq offered'
        BY <2>1, <3>4, <4>1 DEF Inv, ChannelOK
      <4> QED
        BY <3>2, <4>2, <4>3 DEF Inv, ChannelOK
    <3> QED
      BY <3>1, <3>3, <3>4
  <2>4. work' = [work EXCEPT !.current = @ /\ work.key # c]
    BY <1>3 DEF CreateChannel, DeleteChannel, EditChannel, Outdated
  <2>5. CASE work.at = "idle"
    <3>1. "none" # c
      BY ChannelAssumption
    <3>2. work = Asleep
      BY <2>5 DEF Inv, WorkOK
    <3>3. work' = Asleep
      BY <2>4, <3>1, <3>2 DEF Asleep
    <3> QED
      BY <2>2, <2>3, <3>3 DEF Inv, WorkOK, WorkType, Asleep
  <2>6. CASE work.at # "idle"
    <3>1. PICK b \in BOOLEAN : work' = [work EXCEPT !.current = b]
      BY <2>4 DEF Inv, WorkOK, WorkType
    <3> QED
      BY <2>1, <2>2, <2>3, <2>6, <3>1 DEF Inv, WorkOK, WorkType
  <2> QED
    BY <2>5, <2>6
<1>4. ASSUME NEW i \in Item, NEW v \in Version \cup {""}, EditWanted(i, v)
      PROVE  Inv'
  BY <1>4 DEF EditWanted, Inv, RegistryOK, WorkOK, ChannelOK, PassOK, InstalledOK, UsersOK,
     OnlyOffered, Known, PackagesAreResolved
<1>5. CASE CalmDown
  BY <1>5 DEF users, CalmDown, Inv, RegistryOK, WorkOK, ChannelOK, PassOK, InstalledOK, UsersOK,
     OnlyOffered, Known, PackagesAreResolved
<1>6. ASSUME NEW chart \in ChartVersion \cup {"nil"}, EditChart(chart)
      PROVE  Inv'
  <2>1. /\ UNCHANGED <<registry, channel, work, todo, wanted, pass, installed, offered, calm>>
        /\ custom' = chart /\ named' = named \cup ({chart} \ {"nil"})
    BY <1>6 DEF EditChart
  <2>2. RegistryOK' /\ WorkOK' /\ ChannelOK'
    BY <2>1 DEF Inv, RegistryOK, WorkOK, ChannelOK
  <2>3. UsersOK'
    BY <2>1 DEF Inv, UsersOK
  <2>4. PassOK' /\ InstalledOK'
    BY <2>1 DEF Inv, PassOK, InstalledOK, OnlyOffered, Known, PackagesAreResolved
  <2> QED
    BY <2>2, <2>3, <2>4 DEF Inv
<1> QED
  BY <1>1, <1>2, <1>3, <1>4, <1>5, <1>6

\* The invariant is inductive.
LEMMA Invariance == Spec => []Inv
<1>1. ASSUME Inv, [Next]_vars
      PROVE  Inv'
  <2>1. CASE UNCHANGED vars
    BY <1>1, <2>1 DEF vars, users, Inv, RegistryOK, WorkOK, ChannelOK, PassOK, InstalledOK, UsersOK,
       OnlyOffered, Known, PackagesAreResolved
  <2>2. CASE Next
    BY <1>1, <2>2, WorkerStep, PassStep, WorldStep DEF Next
  <2> QED
    BY <1>1, <2>1, <2>2
<1> QED
  BY <1>1, InitInv, PTL DEF Spec

\* Every variable stays within its type in every execution, and a worker or a pass
\* that is idle holds nothing of the reconciliation before it.
THEOREM TypeCorrect == Spec => []TypeOK
BY Invariance, InvTypeOK, PTL

\* Whatever the channel controller, the look-ups of the components, the registries
\* and the users do in between, a Provider only ever names a version that some
\* registry has offered, and a HelmRelease one that was offered or that a user has
\* given to a chart of their own: otherwise the filter of
\* GetOCMComponentsWithVersions (ignore label, no resources) is not bypassed.
THEOREM OnlyOfferedIsInstalled == Spec => []OnlyOffered
<1>1. Inv => OnlyOffered
  BY DEF Inv, InstalledOK
<1> QED
  BY <1>1, Invariance, PTL

\* ReconcileObject of a Provider never writes a package without a version, although
\* the channel may lose the version after IsInstallable has seen it.
THEOREM PackagesHaveVersions == Spec => []PackagesAreResolved
<1>1. Inv => PackagesAreResolved
  BY DEF Inv, InstalledOK
<1> QED
  BY <1>1, Invariance, PTL

=============================================================================
