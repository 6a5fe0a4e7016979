--------------------------- MODULE ReleaseChannel ---------------------------
(***************************************************************************)
(* The way of a version from an OCM registry to a cluster: the             *)
(* ReleaseChannelReconciler lists the registries into the status of the    *)
(* channels (internal/controller/releasechannel_controller.go,             *)
(* internal/ocm), and the components of a ControlPlane look their versions *)
(* up there, once or twice in a pass.                                      *)
(*                                                                         *)
(* Two components stand for all: a chart from a fixed repository, which    *)
(* takes its version from the first look-up of a pass (Kyverno, Flux,      *)
(* cert-manager, ESO, BTP service operator), and a package, which takes it *)
(* from the last one (a Crossplane provider).  Users may put a chart of    *)
(* their own into the spec; its version is not looked up.                  *)
(***************************************************************************)
EXTENDS Naturals, FiniteSets

CONSTANTS
    Channel,    \* the ReleaseChannels
    Version,    \* versions the registries may carry
    ChartVersion,   \* those users give to charts of their own, "" for none, and
                    \* offered by a registry or not
    MayCalm     \* may failures, registries and users come to rest for good?

ASSUME ChannelAssumption ==
    /\ {"", "nil", "absent"} \cap Version = {}
    /\ {"nil", "absent"} \cap ChartVersion = {}
    /\ "none" \notin Channel
    /\ MayCalm \in BOOLEAN

VARIABLES
    registry,   \* what the registry of a channel has of each version
    channel,    \* the ReleaseChannel objects with the versions in their status
    work,       \* the worker of the channel controller
    todo,       \* the channels in its work queue
    wanted,     \* the version in the spec of each component, "" for none
    custom,     \* the version of the chart in the spec, "nil" for no such chart
    pass,       \* the pass that is under way
    installed,  \* the version in the HelmRelease or the Provider
    offered,    \* history: the versions a registry has ever offered
    named,      \* history: the versions users have ever given to a chart of theirs
    calm        \* failures, registries and users have come to rest

users == <<wanted, custom, named>>
vars == <<registry, channel, work, todo, users, pass, installed, offered, calm>>

Item == {"chart", "package"}

\* A version may be labelled to be ignored or have no resources ("hidden"), or
\* have an access method that nobody supports, which fails the whole listing
\* ("broken"), as does a spec that names no registry.
Entry == {"missing", "offered", "hidden", "broken"}

\* The empty ComponentVersion: what applyDefaultChartSpec is left with when it
\* ignores the error of the look-up.
Unresolved == ""

\* The versions something can be installed in.
Installable == (Version \cup ChartVersion) \ {Unresolved}

Asleep == [at |-> "idle", key |-> "none", current |-> TRUE, left |-> {}, found |-> {}]
NoPass == [at |-> "idle", item |-> "none", version |-> "", chart |-> "nil"]
NoChannel == [exists |-> FALSE, listed |-> {}]

Init ==
    /\ registry = [c \in Channel |-> [v \in Version |-> "missing"]]
    /\ channel = [c \in Channel |-> NoChannel]
    /\ work = Asleep /\ todo = {}
    /\ wanted = [i \in Item |-> ""] /\ custom = "nil" /\ named = {}
    /\ pass = NoPass
    /\ installed = [i \in Item |-> "absent"]
    /\ offered = {} /\ calm = FALSE

----------------------------------------------------------------------------
(* The channel controller.                                                  *)

\* The key leaves the queue; a channel that is gone needs nothing.
Get(c) ==
    /\ work.at = "idle" /\ c \in todo
    /\ todo' = todo \ {c}
    /\ work' = IF channel[c].exists THEN [Asleep EXCEPT !.at = "list", !.key = c] ELSE work
    /\ UNCHANGED <<registry, channel, users, pass, installed, offered, calm>>

\* A variant: the listing of the failed reconciliation is not thrown away.
Retry_KeepsListing == work' = [work EXCEPT !.at = "idle"] /\ todo' = todo \cup {work.key}

\* An error brings the key back, sooner or later.
Retry == work' = Asleep /\ todo' = todo \cup {work.key}

\* The versions the registry lists.  The error of ListVersions is dropped, and
\* the component then has none.
ListVersions ==
    /\ work.at = "list"
    /\ \E answered \in IF calm THEN {TRUE} ELSE BOOLEAN :
          work' = [work EXCEPT !.at = "lookup",
                               !.left = {v \in Version : answered /\ registry[work.key][v] # "missing"}]
    /\ UNCHANGED <<registry, channel, todo, users, pass, installed, offered, calm>>

\* A variant: labels and missing resources are not looked at.
Skipped_Never(e) == FALSE

\* One turn of the loop over the versions: a version that has gone or cannot be
\* accessed fails the listing, one that is hidden is skipped.
Skipped(e) == e = "hidden"

LookupVersion(v) ==
    /\ work.at = "lookup" /\ v \in work.left
    /\ LET entry == registry[work.key][v]
       IN  IF entry \in {"missing", "broken"}
             THEN Retry
             ELSE /\ work' = [work EXCEPT !.left = @ \ {v},
                                          !.found = IF Skipped(entry) THEN @ ELSE @ \cup {v}]
                  /\ UNCHANGED todo
    /\ UNCHANGED <<registry, channel, users, pass, installed, offered, calm>>

\* A variant: a listing that has succeeded is the last one.
Listed_NoRequeue ==
    /\ channel' = [channel EXCEPT ![work.key].listed = work.found]
    /\ work' = Asleep /\ UNCHANGED todo

\* The key comes back after spec.interval.
Listed ==
    /\ channel' = [channel EXCEPT ![work.key].listed = work.found]
    /\ work' = Asleep /\ todo' = todo \cup {work.key}

\* Status().Update with the resource version that Get has read.
UpdateStatus ==
    /\ work.at = "lookup" /\ work.left = {}
    /\ IF work.current THEN Listed ELSE Retry /\ UNCHANGED channel
    /\ UNCHANGED <<registry, users, pass, installed, offered, calm>>

\* Any other call fails.
ReconcileFails ==
    /\ ~calm /\ work.at # "idle"
    /\ Retry
    /\ UNCHANGED <<registry, channel, users, pass, installed, offered, calm>>

----------------------------------------------------------------------------
(* A component of a ControlPlane.                                           *)

\* GetOCMComponent: the first channel whose status has the version, and not
\* found if none has.
Found(v) == \E c \in Channel : channel[c].exists /\ v \in channel[c].listed

\* What a look-up may answer: the List may fail as well.
GetOCMComponent(v) ==
    IF Found(v) THEN IF calm THEN {TRUE} ELSE BOOLEAN ELSE {FALSE}

\* Reconcile has read the ControlPlane and comes to the component.
StartPass(i) ==
    /\ pass.at = "idle"
    /\ pass' = [NoPass EXCEPT !.at = "observe", !.item = i, !.version = wanted[i],
                              !.chart = IF i = "chart" THEN custom ELSE @]
    /\ UNCHANGED <<registry, channel, work, todo, users, installed, offered, calm>>

\* IsEnabled
Enabled == pass.version # ""
Observed == IF Enabled THEN "check" ELSE "uninstall"

\* A variant: the version that was looked up goes over the one of the spec.
Chart_LookedUp(found) == IF found THEN pass.version ELSE Unresolved

\* applyDefaultChartSpec: a chart of the spec stays as it is, with any version or
\* none; otherwise it is filled with whatever the look-up has returned.
Chart(found) ==
    IF pass.chart # "nil" THEN pass.chart
    ELSE IF found THEN pass.version ELSE Unresolved

\* Observe of a chart: BuildSourceRepository settles the chart of the config, which
\* the rest of the pass uses.
ObserveChart ==
    /\ pass.at = "observe" /\ pass.item = "chart"
    /\ \E found \in GetOCMComponent(pass.version) :
          pass' = [pass EXCEPT !.at = Observed, !.chart = Chart(found)]
    /\ UNCHANGED <<registry, channel, work, todo, users, installed, offered, calm>>

ObservePackage ==
    /\ pass.at = "observe" /\ pass.item = "package"
    /\ pass' = [pass EXCEPT !.at = Observed]
    /\ UNCHANGED <<registry, channel, work, todo, users, installed, offered, calm>>

\* A component that is not enabled goes, and does nothing if it is not there.
Uninstall ==
    /\ pass.at = "uninstall"
    /\ installed' = [installed EXCEPT ![pass.item] = "absent"]
    /\ pass' = NoPass
    /\ UNCHANGED <<registry, channel, work, todo, users, offered, calm>>

\* IsInstallable.  Without the version nothing is written, be the component
\* installed (StatusHealthy) or not (StatusInstallFailed).
IsInstallable ==
    /\ pass.at = "check"
    /\ \E found \in GetOCMComponent(pass.version) :
          pass' = IF found THEN [pass EXCEPT !.at = "apply"] ELSE NoPass
    /\ UNCHANGED <<registry, channel, work, todo, users, installed, offered, calm>>

\* Install or Update of a chart: the HelmRelease gets the version in the config.
ApplyChart ==
    /\ pass.at = "apply" /\ pass.item = "chart"
    /\ installed' = [installed EXCEPT !["chart"] = pass.chart]
    /\ pass' = NoPass
    /\ UNCHANGED <<registry, channel, work, todo, users, offered, calm>>

\* A variant: the error of the second look-up is ignored, as it is for charts.
ApplyPackage_IgnoresError ==
    /\ pass.at = "apply" /\ pass.item = "package"
    /\ \E found \in GetOCMComponent(pass.version) :
          installed' = [installed EXCEPT !["package"] = IF found THEN pass.version ELSE Unresolved]
    /\ pass' = NoPass
    /\ UNCHANGED <<registry, channel, work, todo, users, offered, calm>>

\* Install or Update of a Provider: ReconcileObject looks the version up again
\* and gives up if that fails.
ApplyPackage ==
    /\ pass.at = "apply" /\ pass.item = "package"
    /\ \E found \in GetOCMComponent(pass.version) :
          installed' = IF found
                         THEN [installed EXCEPT !["package"] = pass.version]
                         ELSE installed
    /\ pass' = NoPass
    /\ UNCHANGED <<registry, channel, work, todo, users, offered, calm>>

\* Any other call fails, or the pass ends before it comes to the component.
PassFails ==
    /\ ~calm /\ pass.at # "idle"
    /\ pass' = NoPass
    /\ UNCHANGED <<registry, channel, work, todo, users, installed, offered, calm>>

----------------------------------------------------------------------------
(* The world.                                                               *)

\* The process restarts: the informer lists all channels.
Restart ==
    /\ ~calm
    /\ work' = Asleep /\ pass' = NoPass
    /\ todo' = {c \in Channel : channel[c].exists}
    /\ UNCHANGED <<registry, channel, users, installed, offered, calm>>

\* A registry changes; nobody is told.
RegistryChanges(c, v, e) ==
    /\ ~calm /\ registry[c][v] # e
    /\ registry' = [registry EXCEPT ![c][v] = e]
    /\ offered' = IF e = "offered" THEN offered \cup {v} ELSE offered
    /\ UNCHANGED <<channel, work, todo, users, pass, installed, calm>>

\* Create and delete events, and updates that change the spec, queue the key.
Outdated(c) == [work EXCEPT !.current = @ /\ work.key # c]

CreateChannel(c) ==
    /\ ~calm /\ ~channel[c].exists
    /\ channel' = [channel EXCEPT ![c] = [exists |-> TRUE, listed |-> {}]]
    /\ todo' = todo \cup {c} /\ work' = Outdated(c)
    /\ UNCHANGED <<registry, users, pass, installed, offered, calm>>

DeleteChannel(c) ==
    /\ ~calm /\ channel[c].exists
    /\ channel' = [channel EXCEPT ![c] = NoChannel]
    /\ todo' = todo \cup {c} /\ work' = Outdated(c)
    /\ UNCHANGED <<registry, users, pass, installed, offered, calm>>

EditChannel(c) ==
    /\ ~calm /\ channel[c].exists
    /\ todo' = todo \cup {c} /\ work' = Outdated(c)
    /\ UNCHANGED <<registry, channel, users, pass, installed, offered, calm>>

EditWanted(i, v) ==
    /\ ~calm /\ wanted[i] # v
    /\ wanted' = [wanted EXCEPT ![i] = v]
    /\ UNCHANGED <<registry, channel, work, todo, custom, named, pass, installed, offered, calm>>

\* spec.<component>.chart: a chart with a version, one without, or no chart.
EditChart(chart) ==
    /\ ~calm /\ custom # chart
    /\ custom' = chart /\ named' = named \cup ({chart} \ {"nil"})
    /\ UNCHANGED <<registry, channel, work, todo, wanted, pass, installed, offered, calm>>

CalmDown ==
    /\ MayCalm /\ ~calm /\ calm' = TRUE
    /\ UNCHANGED <<registry, channel, work, todo, users, pass, installed, offered>>

Working == ListVersions \/ (\E v \in Version : LookupVersion(v)) \/ UpdateStatus
Passing == ObserveChart \/ ObservePackage \/ Uninstall \/ IsInstallable \/ ApplyChart \/ ApplyPackage

Next ==
    \/ \E c \in Channel : Get(c)
    \/ Working \/ ReconcileFails
    \/ \E i \in Item : StartPass(i)
    \/ Passing \/ PassFails
    \/ Restart
    \/ \E c \in Channel : \/ \E v \in Version, e \in Entry : RegistryChanges(c, v, e)
                          \/ CreateChannel(c) \/ DeleteChannel(c) \/ EditChannel(c)
    \/ \E i \in Item, v \in Version \cup {""} : EditWanted(i, v)
    \/ \E chart \in ChartVersion \cup {"nil"} : EditChart(chart)
    \/ CalmDown

\* The work queues serve every key, and a pass comes to every component again
\* and again (ReconcilePeriod).
Fairness ==
    /\ WF_vars(Working) /\ WF_vars(Passing)
    /\ \A c \in Channel : SF_vars(Get(c))
    /\ \A i \in Item : SF_vars(StartPass(i))

Spec == Init /\ [][Next]_vars
FairSpec == Spec /\ Fairness

----------------------------------------------------------------------------
(* Properties.                                                              *)

\* Every variable stays within its type, and idle workers hold no work.
TypeOK ==
    /\ registry \in [Channel -> [Version -> Entry]]
    /\ channel \in [Channel -> [exists : BOOLEAN, listed : SUBSET Version]]
    /\ work \in [at : {"idle", "list", "lookup"}, key : Channel \cup {"none"},
                current : BOOLEAN, left : SUBSET Version, found : SUBSET Version]
    /\ work.at = "idle" => work = Asleep
    /\ todo \subseteq Channel
    /\ wanted \in [Item -> Version \cup {""}]
    /\ custom \in ChartVersion \cup {"nil"} /\ named \subseteq ChartVersion
    /\ pass \in [at : {"idle", "observe", "uninstall", "check", "apply"},
                item : Item \cup {"none"}, version : Version \cup {""},
                chart : Installable \cup {"nil", Unresolved}]
    /\ pass.at = "idle" => pass = NoPass
    /\ installed \in [Item -> Installable \cup {"absent", Unresolved}]
    /\ offered \subseteq Version
    /\ calm \in BOOLEAN

\* Where the version of an item may come from: a registry that has offered it, or
\* the user's own chart, which is not checked.
Known(i) == offered \cup (IF i = "chart" THEN named ELSE {})

\* No version is installed that neither a registry has ever offered nor a user has
\* named in a chart of their own: one labelled openmcp.cloud/ignore, or without
\* resources, does not reach a cluster through spec.version, whatever the listing,
\* the look-ups and the edits of the spec read in between.
OnlyOffered == \A i \in Item : installed[i] \in Installable => installed[i] \in Known(i)

\* A Provider always gets a version: between IsInstallable and ReconcileObject the
\* channel may lose it, and then nothing is written.
PackagesAreResolved == installed["package"] # Unresolved

\* KyvernoConfig.Version is "the Version of Kyverno to install": unless a user has
\* put a chart without a version into the spec, a chart is never released without
\* one, which flux would read as the latest.
ChartsAreResolved == installed["chart"] = Unresolved => Unresolved \in named

\* The status of a channel catches up with its registry after failed listings,
\* conflicts, restarts and silent changes, unless the registry cannot be listed.
ChannelsFollow ==
    \A c \in Channel :
        (calm /\ channel[c].exists /\ \A v \in Version : registry[c][v] # "broken")
            ~> [](channel[c].listed = {v \in Version : registry[c][v] = "offered"})

\* The version that an item is to have: of the user's own chart, if there is one.
Chosen(i) == IF i = "chart" /\ custom # "nil" THEN custom ELSE wanted[i]

\* Once a channel can list the wanted version, the chosen one is installed and stays,
\* also if a failed look-up had released the chart without a version before.  A
\* custom chart has to wait for a wanted version that is found as well.
VersionConverges ==
    \A i \in Item, v \in Version, c \in Channel :
        (/\ calm /\ wanted[i] = v /\ channel[c].exists /\ registry[c][v] = "offered"
         /\ \A u \in Version : registry[c][u] # "broken")
            ~> [](installed[i] = Chosen(i))

=============================================================================
