---------------------------- MODULE LeaseProofs ----------------------------
(* Proofs about the promise of Lease, for any set of sessions and any      *)
(* bound on the times to live.                                             *)
EXTENDS Lease, TLAPS

(* A countdown stays within its bound, never goes up, and reaches zero     *)
(* no later than a countdown that started no lower.                        *)
LEMMA CountdownBounds ==
  ASSUME NEW max \in Nat, NEW m \in 0..max, NEW n \in 0..max
  PROVE  /\ Countdown(n) \in 0..max
         /\ Countdown(n) > 0 => n > 0
         /\ m <= n => Countdown(m) <= Countdown(n)
  BY DEF Countdown

(* The variables keep their types: an expiry stays in range whoever writes *)
(* it and however time passes.                                             *)
THEOREM TypeCorrect == Spec => []TypeOK
<1>1. Init => TypeOK
  BY LeaseAssumption DEF Init, TypeOK
<1>2. TypeOK /\ [Next]_vars => TypeOK'
  <2> SUFFICES ASSUME TypeOK, [Next]_vars PROVE TypeOK'
    OBVIOUS
  <2> USE LeaseAssumption DEF TypeOK
  <2>1. ASSUME NEW p \in Proc, Take(p) PROVE TypeOK'
    BY <2>1 DEF Take
  <2>2. ASSUME NEW p \in Proc, Renew(p) PROVE TypeOK'
    BY <2>2 DEF Renew
  <2>3. ASSUME NEW p \in Proc, Grant(p) PROVE TypeOK'
    BY <2>3 DEF Grant
  <2>4. ASSUME NEW p \in Proc, Forget(p) PROVE TypeOK'
    BY <2>4 DEF Forget
  <2>5. ASSUME NEW p \in Proc, Release(p) PROVE TypeOK'
    BY <2>5 DEF Release
  <2>6. CASE Override
    BY <2>6 DEF Override
  <2>7. CASE Reap
    BY <2>7 DEF Reap
  <2>8. CASE Tick
    BY <2>8, CountdownBounds DEF Tick
  <2>9. CASE UNCHANGED vars
    BY <2>9 DEF vars
  <2>10. QED
    BY <2>1, <2>2, <2>3, <2>4, <2>5, <2>6, <2>7, <2>8, <2>9 DEF Next
<1>3. QED
  BY <1>1, <1>2, PTL DEF Spec

(* What a session was told is always covered by the record: the inductive  *)
(* reason for exclusion.  A key is only taken when nothing is left, and    *)
(* then no session that a human did not clear has a claim.                 *)
THEOREM ClaimsAreRecorded == Spec => []ClaimsRecorded
<1>1. Init => ClaimsRecorded
  BY DEF Init, ClaimsRecorded, Claim
<1>2. TypeOK /\ ClaimsRecorded /\ [Next]_vars => ClaimsRecorded'
  <2> SUFFICES ASSUME TypeOK, ClaimsRecorded, [Next]_vars PROVE ClaimsRecorded'
    OBVIOUS
  <2> USE LeaseAssumption DEF TypeOK, ClaimsRecorded, Claim
  <2>1. ASSUME NEW p \in Proc, Take(p) PROVE ClaimsRecorded'
    BY <2>1 DEF Take
  <2>2. ASSUME NEW p \in Proc, Renew(p) PROVE ClaimsRecorded'
    BY <2>2 DEF Renew
  <2>3. ASSUME NEW p \in Proc, Grant(p) PROVE ClaimsRecorded'
    BY <2>3 DEF Grant
  <2>4. ASSUME NEW p \in Proc, Forget(p) PROVE ClaimsRecorded'
    BY <2>4 DEF Forget
  <2>5. ASSUME NEW p \in Proc, Release(p) PROVE ClaimsRecorded'
    BY <2>5 DEF Release
  <2>6. CASE Override
    BY <2>6 DEF Override
  <2>7. CASE Reap
    BY <2>7 DEF Reap
  <2>8. CASE Tick
    <3> SUFFICES ASSUME NEW p \in Proc \ cleared, Countdown(grant[p]) > 0
                 PROVE  owner = p /\ Countdown(grant[p]) <= Countdown(left)
      BY <2>8 DEF Tick
    <3>1. grant[p] > 0
      BY CountdownBounds
    <3>2. QED
      BY <3>1, CountdownBounds
  <2>9. CASE UNCHANGED vars
    BY <2>9 DEF vars
  <2>10. QED
    BY <2>1, <2>2, <2>3, <2>4, <2>5, <2>6, <2>7, <2>8, <2>9 DEF Next
<1>3. QED
  BY <1>1, <1>2, TypeCorrect, PTL DEF Spec

(* At most one session at a time relies on the key, unless a human cleared *)
(* its lease.                                                              *)
THEOREM ExclusionHolds == Spec => []Exclusion
<1>1. ClaimsRecorded => Exclusion
  BY DEF ClaimsRecorded, Claim, Exclusion
<1>2. QED
  BY <1>1, ClaimsAreRecorded, PTL
=============================================================================
