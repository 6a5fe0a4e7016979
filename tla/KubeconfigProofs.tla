-------------------------- MODULE KubeconfigProofs --------------------------
(***************************************************************************)
(* Proofs about Kubeconfig for every set of targets and all durations that *)
(* satisfy the assumptions on time: flux never finds an expired token, and *)
(* a kubeconfig that does not fit is replaced within Bound ticks.          *)
(***************************************************************************)
EXTENDS Kubeconfig, TLAPS

USE DEF Gap

\* Facts about the constants, with the division by three out of the way.
LEMMA Durations ==
    /\ Period \in Nat /\ Lifetime \in Nat /\ Shortest \in Nat /\ Gap \in Nat
    /\ Threshold \in Nat /\ Gap < Threshold /\ Threshold <= Lifetime
    /\ Gap + Gap < Shortest /\ Shortest <= Lifetime
    /\ \A left \in Nat : ~Expired(left) => Threshold <= left
<1>1. Lifetime \div 3 \in Nat
  BY TimeAssumption
<1>2. Threshold \in Nat
  BY <1>1, TimeAssumption DEF Threshold
<1>3. \A left \in Nat : ~Expired(left) => Threshold <= left
  BY <1>1, TimeAssumption DEF Threshold, Expired
<1> QED
  BY <1>2, <1>3, TimeAssumption, GrantAssumption

\* A kubeconfig is not None.
LEMMA Distinct == \A k \in Kubeconfigs : k # None
  BY NoneAssumption

\* The target stands for some element of the set.
LEMMA SomewhereIsATarget == Somewhere \in Target
  BY TargetAssumption DEF Somewhere

\* What a tick does to a kubeconfig.
LEMMA Ageing ==
    ASSUME NEW k \in Kubeconfigs
    PROVE  /\ Older(k) \in Kubeconfigs /\ Older(k) # None
           /\ Older(k).for = k.for /\ Older(k).alive = k.alive
           /\ k.left > 0 => Older(k).left = k.left - 1
<1>1. k # None
  BY Distinct
<1>2. Older(k) = [k EXCEPT !.left = IF k.left > 0 THEN k.left - 1 ELSE 0]
  BY <1>1 DEF Older
<1>3. Older(k) \in Kubeconfigs
  BY <1>2, Durations DEF Kubeconfigs
<1> QED
  BY <1>2, <1>3, Distinct DEF Kubeconfigs

\* What the deletion of an account does to a kubeconfig.
LEMMA Invalidation ==
    ASSUME NEW k \in Kubeconfigs, NEW t
    PROVE  /\ Invalid(k, t) \in Kubeconfigs /\ Invalid(k, t) # None
           /\ Invalid(k, t).for = k.for /\ Invalid(k, t).left = k.left
           /\ k.for # t => Invalid(k, t) = k
<1>1. Invalid(k, t) \in Kubeconfigs
  BY DEF Invalid, Kubeconfigs
<1> QED
  BY <1>1, Distinct DEF Invalid, Kubeconfigs

----------------------------------------------------------------------------
\* Type correctness is inductive as it stands.
LEMMA TypeInit == Init => TypeOK
  BY SomewhereIsATarget, Durations DEF Init, TypeOK

LEMMA TypeNext == TypeOK /\ [Next]_vars => TypeOK'
<1> SUFFICES ASSUME TypeOK, [Next]_vars PROVE TypeOK'
  OBVIOUS
<1> USE Durations, Distinct, SomewhereIsATarget
<1>1. CASE Get
  BY <1>1 DEF TypeOK, Get
<1>2. CASE ApplyAccount
  BY <1>2 DEF TypeOK, ApplyAccount
<1>3. CASE StillValid
  BY <1>3 DEF TypeOK, StillValid, Return
<1>4. CASE NeedsToken
  BY <1>4 DEF TypeOK, NeedsToken
<1>5. CASE ForServiceAccount
  <2>1. PICK left \in Shortest..Lifetime :
           token' = [for |-> snap, alive |-> TRUE, left |-> left]
    BY <1>5 DEF ForServiceAccount
  <2>2. token' \in Kubeconfigs
    BY <2>1 DEF TypeOK, Kubeconfigs
  <2> QED
    BY <1>5, <2>2 DEF TypeOK, ForServiceAccount
<1>6. CASE AccountMissing
  BY <1>6 DEF TypeOK, AccountMissing, Return
<1>7. CASE Save
  BY <1>7 DEF TypeOK, Save, Return, QuietAfter
<1>8. CASE PassFails
  BY <1>8 DEF TypeOK, PassFails, Return
<1>9. CASE Tick
  <2>1. /\ secret' \in Kubeconfigs \cup {None}
        /\ token' \in Kubeconfigs \cup {None}
        /\ (token' # None) = (token # None)
    BY <1>9, Ageing DEF TypeOK, Tick, Older
  <2>2. since' \in 0..Gap /\ quiet' \in Nat
    BY <1>9 DEF TypeOK, Tick
  <2> QED
    BY <1>9, <2>1, <2>2 DEF TypeOK, Tick
<1>10. CASE UserEditsTarget
  BY <1>10 DEF TypeOK, UserEditsTarget
<1>11. CASE \E t \in Target : AccountDeleted(t)
  <2>1. PICK t \in Target : AccountDeleted(t)
    BY <1>11
  <2>2. /\ secret' \in Kubeconfigs \cup {None}
        /\ token' \in Kubeconfigs \cup {None}
        /\ (token' # None) = (token # None)
    BY <2>1, Invalidation DEF TypeOK, AccountDeleted, Invalid
  <2> QED
    BY <2>1, <2>2 DEF TypeOK, AccountDeleted
<1>12. CASE SecretDeleted
  BY <1>12 DEF TypeOK, SecretDeleted
<1>13. CASE UNCHANGED vars
  BY <1>13 DEF TypeOK, vars
<1> QED
  BY <1>1, <1>2, <1>3, <1>4, <1>5, <1>6, <1>7, <1>8, <1>9, <1>10, <1>11, <1>12, <1>13
     DEF Next, Reconcile, Environment

\* Every behaviour is type-correct; a pass holds a token exactly between the
\* TokenRequest and the write of the secret (ensureKubeconfig).
THEOREM TypeCorrect == Spec => []TypeOK
  BY TypeInit, TypeNext, PTL DEF Spec

----------------------------------------------------------------------------
(* Renewal.  Between two passes that get past ensureKubeconfig lies at most  *)
(* one gap: what such a pass leaves behind lasts for longer than a gap, and  *)
(* a token that a pass is about to store for longer than two.                *)

RenewalInv ==
    /\ secret # None => Gap < secret.left + since
    /\ token # None => Gap + Gap < token.left + since

LEMMA RenewalInit == Init => RenewalInv
  BY DEF Init, RenewalInv

LEMMA RenewalNext == TypeOK /\ RenewalInv /\ [Next]_vars => RenewalInv'
<1> SUFFICES ASSUME TypeOK, RenewalInv, [Next]_vars PROVE RenewalInv'
  OBVIOUS
<1> USE Durations, Distinct
<1>0. /\ secret # None => secret \in Kubeconfigs /\ secret.left \in Nat
      /\ token # None => token \in Kubeconfigs /\ token.left \in Nat
      /\ since \in Nat /\ since <= Gap
  BY DEF TypeOK, Kubeconfigs
<1>1. CASE \/ Get \/ ApplyAccount \/ NeedsToken \/ UserEditsTarget \/ UNCHANGED vars
  BY <1>1 DEF RenewalInv, Get, ApplyAccount, NeedsToken, UserEditsTarget, vars
<1>2. CASE StillValid
  <2>1. secret # None /\ Threshold <= secret.left
    BY <1>0, <1>2 DEF StillValid, Valid
  <2> QED
    BY <1>0, <1>2, <2>1 DEF RenewalInv, StillValid, Return
<1>3. CASE ForServiceAccount
  <2>1. PICK left \in Shortest..Lifetime :
           token' = [for |-> snap, alive |-> TRUE, left |-> left]
    BY <1>3 DEF ForServiceAccount
  <2> QED
    BY <1>0, <1>3, <2>1 DEF RenewalInv, ForServiceAccount
<1>4. CASE AccountMissing \/ PassFails
  BY <1>4 DEF RenewalInv, AccountMissing, PassFails, Return
<1>5. CASE Save
  BY <1>0, <1>5 DEF RenewalInv, Save, Return, TypeOK
<1>6. CASE Tick
  <2>1. ASSUME secret # None PROVE Gap < secret'.left + since'
    <3>1. secret.left > 0 /\ since' = since + 1 /\ secret' = Older(secret)
      BY <1>0, <1>6, <2>1 DEF RenewalInv, Tick
    <3>2. secret'.left = secret.left - 1
      BY <1>0, <2>1, <3>1, Ageing
    <3> QED
      BY <1>0, <2>1, <3>1, <3>2 DEF RenewalInv
  <2>2. ASSUME token # None PROVE Gap + Gap < token'.left + since'
    <3>1. token.left > 0 /\ since' = since + 1 /\ token' = Older(token)
      BY <1>0, <1>6, <2>2 DEF RenewalInv, Tick
    <3>2. token'.left = token.left - 1
      BY <1>0, <2>2, <3>1, Ageing
    <3> QED
      BY <1>0, <2>2, <3>1, <3>2 DEF RenewalInv
  <2>3. (secret = None => secret' = None) /\ (token = None => token' = None)
    BY <1>6 DEF Tick, Older
  <2> QED
    BY <2>1, <2>2, <2>3 DEF RenewalInv
<1>7. CASE \E t \in Target : AccountDeleted(t)
  <2>1. PICK t \in Target : AccountDeleted(t)
    BY <1>7
  <2>2. /\ secret # None => secret'.left = secret.left
        /\ token # None => token'.left = token.left
    BY <1>0, <2>1, Invalidation DEF AccountDeleted
  <2>3. (secret = None => secret' = None) /\ (token = None => token' = None)
    BY <2>1 DEF AccountDeleted, Invalid
  <2> QED
    BY <1>0, <2>1, <2>2, <2>3 DEF RenewalInv, AccountDeleted
<1>8. CASE SecretDeleted
  BY <1>8 DEF RenewalInv, SecretDeleted
<1> QED
  BY <1>1, <1>2, <1>3, <1>4, <1>5, <1>6, <1>7, <1>8 DEF Next, Reconcile, Environment

\* Flux never finds an expired token in the kubeconfig secret, for any period,
\* lifetime and delay with a gap below the threshold of ensureKubeconfig, and
\* for any grant of the API server that outlasts two gaps.
THEOREM TokensNeverExpire == Spec => []NeverExpired
<1>1. Init => TypeOK /\ RenewalInv
  BY TypeInit, RenewalInit
<1>2. TypeOK /\ RenewalInv /\ [Next]_vars => TypeOK' /\ RenewalInv'
  BY TypeNext, RenewalNext
<1>3. TypeOK /\ RenewalInv => NeverExpired
  BY Durations, Distinct DEF TypeOK, RenewalInv, NeverExpired, Kubeconfigs
<1> QED
  BY <1>1, <1>2, <1>3, PTL DEF Spec

----------------------------------------------------------------------------
(* Misfits.  A pass that stores a kubeconfig that does not fit has been      *)
(* disturbed since it started, less than a gap ago.  After that the token    *)
(* only grows older, and every pass that keeps it has found the threshold    *)
(* left.                                                                     *)

PassInv ==
    /\ token # None => token.for = snap
    /\ pc # "idle" /\ (snap # target \/ (token # None /\ ~token.alive)) => quiet <= since

MisfitInv ==
    secret # None /\ ~Fits(secret) =>
        /\ secret.left + quiet <= Lifetime + Gap
        /\ quiet <= Gap + since \/ Threshold <= secret.left + since

LEMMA MisfitInit == Init => PassInv /\ MisfitInv
  BY DEF Init, PassInv, MisfitInv

LEMMA PassNext == TypeOK /\ PassInv /\ [Next]_vars => PassInv'
<1> SUFFICES ASSUME TypeOK, PassInv, [Next]_vars PROVE PassInv'
  OBVIOUS
<1> USE Durations, Distinct
<1>0. /\ token # None => token \in Kubeconfigs /\ token.alive \in BOOLEAN
      /\ since \in Nat /\ since <= Gap /\ quiet \in Nat
      /\ (token # None) = (pc = "save")
  BY DEF TypeOK, Kubeconfigs
<1>1. CASE \/ Get \/ ApplyAccount \/ NeedsToken \/ SecretDeleted \/ UNCHANGED vars
  BY <1>0, <1>1 DEF PassInv, Get, ApplyAccount, NeedsToken, SecretDeleted, vars
<1>2. CASE StillValid \/ AccountMissing \/ Save \/ PassFails
  BY <1>2 DEF PassInv, StillValid, AccountMissing, Save, PassFails, Return
<1>3. CASE ForServiceAccount
  BY <1>0, <1>3 DEF PassInv, ForServiceAccount
<1>4. CASE Tick
  <2>1. token # None => /\ token' # None /\ token'.for = token.for
                        /\ token'.alive = token.alive
    BY <1>0, <1>4, Ageing DEF Tick
  <2>2. token = None => token' = None
    BY <1>4 DEF Tick, Older
  <2>3. quiet' <= quiet + 1 /\ since' = since + 1 /\ quiet' \in Nat
    BY <1>0, <1>4 DEF Tick
  <2>4. UNCHANGED <<target, pc, snap>>
    BY <1>4 DEF Tick
  <2> QED
    BY <1>0, <2>1, <2>2, <2>3, <2>4 DEF PassInv
<1>5. CASE UserEditsTarget
  BY <1>0, <1>5 DEF PassInv, UserEditsTarget
<1>6. CASE \E t \in Target : AccountDeleted(t)
  <2>1. PICK t \in Target : AccountDeleted(t)
    BY <1>6
  <2>2. token # None => /\ token' # None /\ token'.for = token.for
                        /\ token.for # t => token' = token
    BY <1>0, <2>1, Invalidation DEF AccountDeleted
  <2>3. token = None => token' = None
    BY <2>1 DEF AccountDeleted, Invalid
  <2>4. /\ UNCHANGED <<target, pc, snap, since>>
        /\ quiet' = IF t = target THEN 0 ELSE quiet
    BY <2>1 DEF AccountDeleted
  <2> QED
    BY <1>0, <2>2, <2>3, <2>4 DEF PassInv
<1> QED
  BY <1>1, <1>2, <1>3, <1>4, <1>5, <1>6 DEF Next, Reconcile, Environment

LEMMA MisfitNext ==
    TypeOK /\ RenewalInv /\ PassInv /\ MisfitInv /\ [Next]_vars => MisfitInv'
<1> SUFFICES ASSUME TypeOK, RenewalInv, PassInv, MisfitInv, [Next]_vars PROVE MisfitInv'
  OBVIOUS
<1> USE Durations, Distinct
<1>0. /\ secret # None => /\ secret \in Kubeconfigs /\ secret.alive \in BOOLEAN
                          /\ secret.left \in Nat /\ secret.left <= Lifetime
      /\ token # None => /\ token \in Kubeconfigs /\ token.alive \in BOOLEAN
                         /\ token.left \in Nat /\ token.left <= Lifetime
      /\ since \in Nat /\ since <= Gap /\ quiet \in Nat
      /\ (token # None) = (pc = "save")
  BY DEF TypeOK, Kubeconfigs
<1>1. CASE \/ Get \/ ApplyAccount \/ NeedsToken \/ ForServiceAccount \/ UNCHANGED vars
  BY <1>1 DEF MisfitInv, Fits, Get, ApplyAccount, NeedsToken, ForServiceAccount, vars
<1>2. CASE StillValid
  <2>1. secret # None /\ Threshold <= secret.left
    BY <1>0, <1>2 DEF StillValid, Valid
  <2> QED
    BY <1>0, <1>2, <2>1 DEF MisfitInv, Fits, StillValid
<1>3. CASE AccountMissing \/ PassFails
  BY <1>3 DEF MisfitInv, Fits, AccountMissing, PassFails
<1>4. CASE Save
  <2>1. ~Fits(token) => quiet <= since
    BY <1>0, <1>4 DEF PassInv, Fits, Save
  <2>2. secret' = token /\ since' = 0 /\ target' = target
    BY <1>4 DEF Save
  <2>3. ~Fits(token) => quiet' = quiet
    BY <1>4 DEF Save, QuietAfter
  <2> QED
    BY <1>0, <2>1, <2>2, <2>3 DEF MisfitInv, Fits
<1>5. CASE Tick
  <2>1. CASE secret = None
    BY <1>5, <2>1 DEF MisfitInv, Tick, Older
  <2>2. CASE secret # None
    <3>1. secret.left > 0 /\ since' = since + 1 /\ secret' = Older(secret)
      BY <1>0, <1>5, <2>2 DEF RenewalInv, Tick
    <3>2. /\ secret'.left = secret.left - 1
          /\ secret'.for = secret.for /\ secret'.alive = secret.alive
      BY <1>0, <2>2, <3>1, Ageing
    <3>3. quiet' <= quiet + 1 /\ quiet' \in Nat /\ target' = target
      BY <1>0, <1>5 DEF Tick
    <3> QED
      BY <1>0, <2>2, <3>1, <3>2, <3>3 DEF MisfitInv, Fits
  <2> QED
    BY <2>1, <2>2
<1>6. CASE UserEditsTarget
  BY <1>0, <1>6 DEF MisfitInv, UserEditsTarget
<1>7. CASE \E t \in Target : AccountDeleted(t)
  <2>1. PICK t \in Target : AccountDeleted(t)
    BY <1>7
  <2>2. /\ UNCHANGED <<target, since>>
        /\ quiet' = IF t = target THEN 0 ELSE quiet
        /\ secret' = Invalid(secret, t)
    BY <2>1 DEF AccountDeleted
  <2>3. CASE secret = None
    BY <2>2, <2>3 DEF MisfitInv, Invalid
  <2>4. CASE secret # None
    <3>1. /\ secret'.left = secret.left /\ secret'.for = secret.for
          /\ secret.for # t => secret' = secret
      BY <1>0, <2>2, <2>4, Invalidation
    <3> QED
      BY <1>0, <2>2, <2>4, <3>1 DEF MisfitInv, Fits
  <2> QED
    BY <2>3, <2>4
<1>8. CASE SecretDeleted
  BY <1>8 DEF MisfitInv, SecretDeleted
<1> QED
  BY <1>1, <1>2, <1>3, <1>4, <1>5, <1>6, <1>7, <1>8 DEF Next, Reconcile, Environment

\* A kubeconfig for another target or of a deleted account is replaced at most
\* Bound ticks after the last edit of spec.target or deletion of the account,
\* although ensureKubeconfig never compares it with either.
THEOREM MisfitsAreReplaced == Spec => []MisfitIsBounded
<1> DEFINE Inv == TypeOK /\ RenewalInv /\ PassInv /\ MisfitInv
<1>1. Init => Inv
  BY TypeInit, RenewalInit, MisfitInit
<1>2. Inv /\ [Next]_vars => Inv'
  BY TypeNext, RenewalNext, PassNext, MisfitNext
<1>3. Inv => MisfitIsBounded
  <2> SUFFICES ASSUME TypeOK, MisfitInv, secret # None, ~Fits(secret)
               PROVE  quiet <= Bound
    BY DEF MisfitIsBounded
  <2>1. secret.left \in Nat /\ since \in Nat /\ since <= Gap /\ quiet \in Nat
    BY Distinct, Durations DEF TypeOK, Kubeconfigs
  <2> QED
    BY <2>1, Durations DEF MisfitInv, Bound
<1> QED
  BY <1>1, <1>2, <1>3, PTL DEF Spec

=============================================================================
