----------------------------- MODULE Kubeconfig -----------------------------
(***************************************************************************)
(* The access of flux to the target cluster over time: every pass of the   *)
(* ControlPlane reconciler applies the ServiceAccount and its binding on   *)
(* the target the spec names and then looks at the kubeconfig secret of    *)
(* the tenant: a token that lasts long enough stays, any other is replaced *)
(* by a new one.  Users edit the target, its administrators delete         *)
(* accounts, calls fail, and passes come late.                             *)
(*                                                                         *)
(* Time passes in ticks.  Lifetimes are counted down, so that no variable  *)
(* grows with the age of the system.                                       *)
(***************************************************************************)
EXTENDS Integers

CONSTANTS
    Target,     \* values of spec.target: a cluster and a ServiceAccount on it
    Period,     \* ReconcilePeriod
    Lifetime,   \* FluxTokenLifetime, the lifetime that is asked for
    Shortest,   \* the shortest lifetime the API server grants instead
    Delay,      \* how much later than planned a pass gets its kubeconfig done
    None        \* no secret, no token

\* kubeconfigs.go: a token with less than this left is replaced.
Threshold == IF Period < Lifetime \div 3 THEN Lifetime \div 3 ELSE Period

\* The longest time between two passes that get past ensureKubeconfig.
Gap == Period + Delay

ASSUME TargetAssumption == Target # {}
ASSUME TimeAssumption ==
    /\ Period \in Nat /\ Lifetime \in Nat /\ Shortest \in Nat /\ Delay \in Nat
    /\ Shortest <= Lifetime
    /\ Gap < Threshold /\ Threshold <= Lifetime
\* A token that is requested at the start of a gap and stored at its end has
\* to last for the next gap.
ASSUME GrantAssumption == Gap + Gap < Shortest

VARIABLES
    target,     \* spec.target
    account,    \* the targets on which the ServiceAccount exists
    secret,     \* the kubeconfig secret of the tenant
    pc,         \* the next call of the pass
    snap,       \* the target the pass has read
    token,      \* the kubeconfig the pass has generated and not stored yet
    since,      \* ticks since the last pass got past ensureKubeconfig
    quiet       \* ticks the secret has not fitted without another disturbance

vars == <<target, account, secret, pc, snap, token, since, quiet>>

Kubeconfigs == [for : Target, alive : BOOLEAN, left : 0..Lifetime]
ASSUME NoneAssumption == None \notin Kubeconfigs

Somewhere == CHOOSE t \in Target : TRUE

\* Does a kubeconfig let flux into the cluster the spec asks for?
Fits(k) == k # None /\ k.for = target /\ k.alive

QuietAfter(k) == IF Fits(k) THEN 0 ELSE quiet

----------------------------------------------------------------------------
Init ==
    /\ target \in Target
    /\ account = {}
    /\ secret = None /\ token = None
    /\ pc = "idle" /\ snap = Somewhere
    /\ since = 0 /\ quiet = 0

\* Variant: the pass keeps the kubeconfig it has generated.
Return_KeepsToken == pc' = "idle" /\ token' = token /\ snap' = Somewhere

\* Reconcile returns, with a result or an error; the key comes back.
Return == pc' = "idle" /\ token' = None /\ snap' = Somewhere

\* Reconcile reads the ControlPlane and builds a client for its target.
Get ==
    /\ pc = "idle"
    /\ pc' = "account" /\ snap' = target
    /\ UNCHANGED <<target, account, secret, token, since, quiet>>

\* targetrbac.Apply.  No token depends on the ClusterRoleBinding, which is
\* applied in the same call.
ApplyAccount ==
    /\ pc = "account"
    /\ pc' = "check" /\ account' = account \cup {snap}
    /\ UNCHANGED <<target, secret, snap, token, since, quiet>>

\* Variant: only the next planned reconciliation counts.
Expired_PeriodOnly(left) == left < Period

Expired(left) == left < Period \/ left < Lifetime \div 3

Valid(k) == k # None /\ ~Expired(k.left)

\* ensureKubeconfig reads the secret: it keeps what there is or goes on.
StillValid ==
    /\ pc = "check" /\ Valid(secret)
    /\ Return /\ since' = 0
    /\ UNCHANGED <<target, account, secret, quiet>>

NeedsToken ==
    /\ pc = "check" /\ ~Valid(secret)
    /\ pc' = "request"
    /\ UNCHANGED <<target, account, secret, snap, token, since, quiet>>

\* ForServiceAccount: Get of the account, then the TokenRequest for it.  The
\* API server may grant less than it is asked for.
ForServiceAccount ==
    /\ pc = "request" /\ snap \in account
    /\ \E left \in Shortest..Lifetime :
          token' = [for |-> snap, alive |-> TRUE, left |-> left]
    /\ pc' = "save"
    /\ UNCHANGED <<target, account, secret, snap, since, quiet>>

AccountMissing ==
    /\ pc = "request" /\ snap \notin account
    /\ Return
    /\ UNCHANGED <<target, account, secret, since, quiet>>

\* Variant: a secret that exists only gets a new expiration date.
Save_ExpirationOnly ==
    /\ pc = "save"
    /\ secret' = IF secret = None THEN token ELSE [secret EXCEPT !.left = token.left]
    /\ quiet' = QuietAfter(secret')
    /\ since' = 0 /\ Return
    /\ UNCHANGED <<target, account>>

\* The secret gets the kubeconfig and its expiration date.
Save ==
    /\ pc = "save"
    /\ secret' = token
    /\ quiet' = QuietAfter(token)
    /\ since' = 0 /\ Return
    /\ UNCHANGED <<target, account>>

\* Any call may fail and the process may die: the pass starts again.  What it
\* has written stays.
PassFails ==
    /\ pc # "idle"
    /\ Return
    /\ UNCHANGED <<target, account, secret, since, quiet>>

----------------------------------------------------------------------------
(* The environment.                                                         *)

\* One tick.  Passes get past ensureKubeconfig at least once in every gap.
Older(k) == IF k = None THEN None ELSE [k EXCEPT !.left = IF @ > 0 THEN @ - 1 ELSE 0]

Bound == (Lifetime - Threshold) + Gap + Gap

Tick ==
    /\ since < Gap /\ since' = since + 1
    /\ secret' = Older(secret) /\ token' = Older(token)
    /\ quiet' = IF secret = None \/ Fits(secret) \/ quiet > Bound THEN quiet ELSE quiet + 1
    /\ UNCHANGED <<target, account, pc, snap>>

\* A user edits spec.target.
UserEditsTarget ==
    /\ target' \in Target \ {target}
    /\ quiet' = 0
    /\ UNCHANGED <<account, secret, pc, snap, token, since>>

\* The account of a target is deleted, and with it every token it was given.
Invalid(k, t) == IF k # None /\ k.for = t THEN [k EXCEPT !.alive = FALSE] ELSE k

AccountDeleted(t) ==
    /\ t \in account
    /\ account' = account \ {t}
    /\ secret' = Invalid(secret, t) /\ token' = Invalid(token, t)
    /\ quiet' = IF t = target THEN 0 ELSE quiet
    /\ UNCHANGED <<target, pc, snap, since>>

SecretDeleted ==
    /\ secret # None
    /\ secret' = None /\ quiet' = 0
    /\ UNCHANGED <<target, account, pc, snap, token, since>>

----------------------------------------------------------------------------
Reconcile == \/ Get \/ ApplyAccount \/ StillValid \/ NeedsToken
             \/ ForServiceAccount \/ AccountMissing \/ Save \/ PassFails

Environment == \/ Tick \/ UserEditsTarget \/ SecretDeleted
               \/ \E t \in Target : AccountDeleted(t)

Next == Reconcile \/ Environment

Spec == Init /\ [][Next]_vars

----------------------------------------------------------------------------
(* Properties.                                                              *)

\* Every variable stays within its type, and the pass holds a token exactly
\* between requesting and storing it.
TypeOK ==
    /\ target \in Target /\ account \subseteq Target
    /\ secret \in Kubeconfigs \cup {None} /\ token \in Kubeconfigs \cup {None}
    /\ pc \in {"idle", "account", "check", "request", "save"}
    /\ snap \in Target
    /\ since \in 0..Gap /\ quiet \in Nat
    /\ (token # None) = (pc = "save")

\* Flux never finds an expired token in the secret, however late within its gap
\* a pass renews it and however much of the lifetime the API server has cut
\* (kubeconfigs.go: "check if token would expire before next planned
\* reconciliation or less than a third of the desired lifetime is left").
NeverExpired == secret # None => secret.left > 0

\* A kubeconfig for another target, or of an account that is gone, is replaced
\* within a bounded time after the last edit or deletion, although nobody
\* looks at what is in it: only because its token runs out.  Until then every
\* pass takes it for one that "is still valid".
MisfitIsBounded == secret # None /\ ~Fits(secret) => quiet <= Bound

=============================================================================
