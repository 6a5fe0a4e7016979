----------------------------- MODULE Lifecycle -----------------------------
(***************************************************************************)
(* What the component engine promises to those who do not look inside: the *)
(* life of each component, whatever resources it consists of, and which    *)
(* steps of it depend on the spec, on the hooks and on other components.   *)
(***************************************************************************)
CONSTANTS
    Component,      \* the components that can be registered
    Guards,         \* c -> the components that have to be gone before c goes
    Gates,          \* c -> the components that have to be there before c comes
    Keep,           \* those that stay
    Touched,        \* those that users of the target cluster delete themselves
    Placed          \* those that stand on the target cluster

VARIABLES
    wanted,         \* the components the operator works to have installed
    phase           \* the phase of each component

vars == <<wanted, phase>>

Init ==
    /\ wanted = {}
    /\ phase = [c \in Component |-> "absent"]

\* A pass starts with a new spec, ends or is lost.
Decide == wanted' \in SUBSET Component /\ UNCHANGED phase

\* A component comes, or comes back while its last resources are still leaving.
Install(c) ==
    /\ c \in wanted /\ phase[c] # "installed"
    /\ \A g \in Gates[c] : phase[g] = "installed"
    /\ phase' = [phase EXCEPT ![c] = "installed"]
    /\ UNCHANGED wanted

\* The last resource of a component that is not being deleted yet is deleted.
Remove(c) ==
    /\ c \notin wanted \cup Keep /\ phase[c] = "installed"
    /\ \A g \in Guards[c] : phase[g] = "absent"
    /\ phase' = [phase EXCEPT ![c] = "leaving"]
    /\ UNCHANGED wanted

UserRemoves(c) ==
    /\ c \in Touched /\ phase[c] = "installed"
    /\ phase' = [phase EXCEPT ![c] = "leaving"]
    /\ UNCHANGED wanted

\* The finalizers of the last resource complete.
Gone(c) ==
    /\ phase[c] = "leaving"
    /\ phase' = [phase EXCEPT ![c] = "absent"]
    /\ UNCHANGED wanted

\* The operator moves on to another target cluster: what stood on the one it
\* leaves is out of its sight.
Move ==
    /\ phase' = [c \in Component |-> IF c \in Placed THEN "absent" ELSE phase[c]]
    /\ UNCHANGED wanted

Next == \/ Decide \/ Move
        \/ \E c \in Component : Install(c) \/ Remove(c) \/ Gone(c) \/ UserRemoves(c)

Spec == Init /\ [][Next]_vars

=============================================================================
