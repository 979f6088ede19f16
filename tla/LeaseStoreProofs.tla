-------------------------- MODULE LeaseStoreProofs --------------------------
(* Proofs about LeaseStore, for any set of sessions, any times to live,    *)
(* freshness windows and stalls: the types, the invariant that a section   *)
(* under the guard rests on, that the store implements Lease; and of its   *)
(* queue, that a prompt waiter keeps its entry and that no acquire writes  *)
(* the lease past a prompt waiter that was ahead of it.                    *)
EXTENDS LeaseStore, TLAPS

(* A countdown stays within its bound, never goes up, and of two the lower *)
(* one stays the lower.                                                    *)
LEMMA CountdownBounds ==
  ASSUME NEW max \in Nat, NEW m \in 0..max, NEW n \in 0..max
  PROVE  /\ Countdown(n) \in 0..max
         /\ Countdown(n) <= n
         /\ Countdown(n) > 0 => n > 0
         /\ m <= n => Countdown(m) <= Countdown(n)
  BY DEF Countdown

(* Ages are counted up to a natural number.                                *)
LEMMA AgeCapNat == AgeCap \in Nat
  BY StoreAssumption DEF AgeCap

-----------------------------------------------------------------------------
(* Types                                                                   *)

LEMMA TypeInit == Init => TypeOK
  BY StoreAssumption, AgeCapNat DEF Init, TypeOK, PCs, Ended

LEMMA TypeStep == TypeOK /\ [Next]_vars => TypeOK'
<1> SUFFICES ASSUME TypeOK, [Next]_vars PROVE TypeOK'
  OBVIOUS
<1> USE StoreAssumption, AgeCapNat DEF TypeOK, PCs, Ended, disk, section, session
<1>1. ASSUME NEW p \in Proc, Attempt(p) PROVE TypeOK'
  <2>1. CASE FindHeld(p)
    BY <2>1 DEF FindHeld, Trying, Blocked
  <2>2. CASE Enter(p)
    BY <2>2 DEF Enter, Lock
  <2>3. CASE Scan(p)
    BY <2>3 DEF Scan, ScanOf, FreshEntries, Blocked, Unlock
  <2>4. CASE Write(p)
    BY <2>4 DEF Write
  <2>5. CASE Finish(p)
    BY <2>5 DEF Finish, RemoveEntry, Unlock, Without
  <2>6. CASE Fail(p)
    BY <2>6 DEF Fail, Failed, Unlock
  <2>7. CASE GuardTimeout(p)
    BY <2>7 DEF GuardTimeout, Failed
  <2>8. QED
    BY <1>1, <2>1, <2>2, <2>3, <2>4, <2>5, <2>6, <2>7 DEF Attempt
<1>2. ASSUME NEW p \in Proc, Wait(p) PROVE TypeOK'
  <2>1. CASE Start(p)
    BY <2>1 DEF Start
  <2>2. CASE GiveUp(p)
    BY <2>2 DEF GiveUp, Without
  <2>3. CASE Stamp(p)
    BY <2>3 DEF Stamp, Named
  <2>4. CASE Enqueue(p)
    BY <2>4 DEF Enqueue, Touch
  <2>5. CASE Heartbeat(p)
    BY <2>5 DEF Heartbeat, Touch
  <2>6. CASE Timeout(p)
    BY <2>6 DEF Timeout, Leave, RemoveEntry, Without
  <2>7. CASE Interrupt(p)
    BY <2>7 DEF Interrupt, Leave, RemoveEntry, Without
  <2>8. CASE Wake(p)
    BY <2>8 DEF Wake
  <2>9. QED
    BY <1>2, <2>1, <2>2, <2>3, <2>4, <2>5, <2>6, <2>7, <2>8 DEF Wait
<1>3. ASSUME NEW p \in Proc, Hold(p) PROVE TypeOK'
  <2>1. CASE Renew(p)
    BY <2>1 DEF Renew, Lock
  <2>2. CASE Reclaim(p)
    BY <2>2 DEF Reclaim, Lock
  <2>3. CASE Lose(p)
    BY <2>3 DEF Lose
  <2>4. CASE Release(p)
    BY <2>4 DEF Release, EndSession
  <2>5. QED
    BY <1>3, <2>1, <2>2, <2>3, <2>4 DEF Hold
<1>4. ASSUME NEW p \in Proc, Die(p) PROVE TypeOK'
  <2>1. CASE Crash(p)
    BY <2>1 DEF Crash, EndSession, Unlock, Without
  <2>2. CASE ReusePID(p)
    BY <2>2 DEF ReusePID
  <2>3. CASE FreePID(p)
    BY <2>3 DEF FreePID
  <2>4. QED
    BY <1>4, <2>1, <2>2, <2>3 DEF Die
<1>5. CASE ForceRelease
  BY <1>5 DEF ForceRelease
<1>6. CASE Prune
  <2>1. CASE PruneEnter
    BY <2>1 DEF PruneEnter, Lock
  <2>2. ASSUME NEW q \in Proc, PruneJudge(q) PROVE TypeOK'
    BY <2>2 DEF PruneJudge, Judge
  <2>3. CASE PruneRemove
    BY <2>3 DEF PruneRemove, Without
  <2>4. CASE PruneExit
    BY <2>4 DEF PruneExit, Unlock
  <2>5. QED
    BY <1>6, <2>1, <2>2, <2>3, <2>4 DEF Prune
<1>7. CASE Tick
  <2>1. /\ left' \in 0..MaxTTL
        /\ grant' \in [Proc -> 0..MaxTTL]
    BY <1>7, CountdownBounds DEF Tick
  <2>2. age' \in [Proc -> 0..AgeCap]
    BY <1>7 DEF Tick
  <2>3. guard = NoProc => lag' = lag
    BY <1>7 DEF Tick
  <2>4. lag' \in 0..SectionMax
    BY <1>7 DEF Tick
  <2>5. QED
    BY <1>7, <2>1, <2>2, <2>4 DEF Tick
<1>8. CASE UNCHANGED vars
  BY <1>8 DEF vars
<1>9. QED
  BY <1>1, <1>2, <1>3, <1>4, <1>5, <1>6, <1>7, <1>8 DEF Next

(* The variables keep their types, the ages and the section's clock within *)
(* their bounds.                                                           *)
THEOREM TypeCorrect == Spec => []TypeOK
  BY TypeInit, TypeStep, PTL DEF Spec

-----------------------------------------------------------------------------
(* The section under the guard                                             *)

(* The steps that leave a section and the record it works on alone: those  *)
(* of a session that holds no guard.                                       *)
Quiet(p) ==
  \/ FindHeld(p) \/ GuardTimeout(p) \/ Wait(p) \/ Lose(p) \/ ReusePID(p) \/ FreePID(p)

LEMMA QuietSteps ==
  ASSUME TypeOK, GuardInv, NEW p \in Proc, Quiet(p)
  PROVE  /\ UNCHANGED <<token, left, guard, at, lag, grant, cleared>>
         /\ guard \in Proc => pc'[guard] = pc[guard]
<1> USE StoreAssumption DEF TypeOK, GuardInv, disk, section, session, Ended
<1>1. CASE FindHeld(p)
  BY <1>1 DEF FindHeld, Blocked
<1>2. CASE GuardTimeout(p)
  BY <1>2 DEF GuardTimeout, Failed
<1>3. CASE Wait(p)
  BY <1>3 DEF Wait, Start, GiveUp, Stamp, Enqueue, Heartbeat, Timeout, Interrupt, Leave, Wake
<1>4. CASE Lose(p)
  BY <1>4 DEF Lose
<1>5. CASE ReusePID(p) \/ FreePID(p)
  BY <1>5 DEF ReusePID, FreePID
<1>6. QED
  BY <1>1, <1>2, <1>3, <1>4, <1>5 DEF Quiet

(* A step is one of these; the case split of every proof below.            *)
LEMMA StepCases ==
  ASSUME [Next]_vars
  PROVE  \/ \E p \in Proc : Quiet(p)
         \/ \E p \in Proc : Enter(p) \/ Scan(p) \/ Write(p) \/ Finish(p) \/ Fail(p)
         \/ \E p \in Proc : Renew(p) \/ Reclaim(p) \/ Release(p) \/ Crash(p)
         \/ ForceRelease \/ PruneEnter \/ (\E q \in Proc : PruneJudge(q))
         \/ PruneRemove \/ PruneExit \/ Tick
         \/ UNCHANGED vars
  BY DEF Next, Quiet, Attempt, Hold, Die, Prune

LEMMA SectionStep ==
  ASSUME TypeOK, TypeOK', GuardInv, LeaseInv, SectionInv, [Next]_vars
  PROVE  GuardInv' /\ LeaseInv' /\ SectionInv'
<1> DEFINE Goal == GuardInv /\ LeaseInv /\ SectionInv
<1> USE StoreAssumption DEF TypeOK, GuardInv, Trying, LeaseInv, SectionInv, disk, section, session, Ended
<1>1. ASSUME NEW p \in Proc, Quiet(p) PROVE Goal'
  BY <1>1, QuietSteps
<1>2. ASSUME NEW p \in Proc, Enter(p) PROVE Goal'
  BY <1>2 DEF Enter, Lock, Trying
<1>3. ASSUME NEW p \in Proc, Scan(p) PROVE Goal'
  BY <1>3 DEF Scan, ScanOf, In, Blocked, Unlock
<1>4. ASSUME NEW p \in Proc, Write(p) PROVE Goal'
  BY <1>4 DEF Write, In
<1>5. ASSUME NEW p \in Proc, Finish(p) PROVE Goal'
  BY <1>5 DEF Finish, In, Unlock
<1>6. ASSUME NEW p \in Proc, Fail(p) PROVE Goal'
  BY <1>6 DEF Fail, In, Unlock
<1>7. ASSUME NEW p \in Proc, Renew(p) PROVE Goal'
  BY <1>7 DEF Renew, Lock
<1>8. ASSUME NEW p \in Proc, Reclaim(p) PROVE Goal'
  BY <1>8 DEF Reclaim, Lock
<1>9. ASSUME NEW p \in Proc, Release(p) PROVE Goal'
  BY <1>9 DEF Release, EndSession
<1>10. ASSUME NEW p \in Proc, Crash(p) PROVE Goal'
  BY <1>10 DEF Crash, EndSession, Unlock
<1>11. CASE ForceRelease
  BY <1>11 DEF ForceRelease
<1>12. CASE PruneEnter
  BY <1>12 DEF PruneEnter, Lock
<1>13. CASE (\E q \in Proc : PruneJudge(q)) \/ PruneRemove
  BY <1>13 DEF PruneJudge, Judge, PruneRemove, In
<1>14. CASE PruneExit
  BY <1>14 DEF PruneExit, Unlock
<1>15. CASE Tick
  BY <1>15 DEF Tick, Countdown
<1>16. CASE UNCHANGED vars
  BY <1>16 DEF vars
<1>17. QED
  BY StepCases, <1>1, <1>2, <1>3, <1>4, <1>5, <1>6, <1>7, <1>8, <1>9, <1>10,
     <1>11, <1>12, <1>13, <1>14, <1>15, <1>16

-----------------------------------------------------------------------------
(* The claims of the sessions                                              *)

LEMMA ClaimStep ==
  ASSUME StoreInv, TypeOK', [Next]_vars
  PROVE  ClaimInv'
<1> USE StoreAssumption DEF StoreInv, TypeOK, ClaimInv, disk, section, session
<1>1. ASSUME NEW p \in Proc, Quiet(p) PROVE ClaimInv'
  BY <1>1, QuietSteps
<1>2. ASSUME NEW p \in Proc, Enter(p) \/ Renew(p) \/ Reclaim(p) PROVE ClaimInv'
  BY <1>2 DEF Enter, Renew, Reclaim
<1>3. ASSUME NEW p \in Proc, Scan(p) \/ Fail(p) PROVE ClaimInv'
  BY <1>3 DEF Scan, ScanOf, Fail
<1>4. ASSUME NEW p \in Proc, Write(p) PROVE ClaimInv'
  <2>1. left = 0 \/ (token = p /\ left + lag <= TTL[p])
    BY <1>4 DEF Write, In, SectionInv
  <2>2. token' = p /\ left <= left' /\ UNCHANGED <<grant, cleared>>
    BY <1>4, <2>1 DEF Write
  <2>3. QED
    BY <2>1, <2>2
<1>5. ASSUME NEW p \in Proc, Finish(p) PROVE ClaimInv'
  BY <1>5 DEF Finish, In, SectionInv
<1>6. ASSUME NEW p \in Proc, Release(p) PROVE ClaimInv'
  BY <1>6 DEF Release, EndSession
<1>7. ASSUME NEW p \in Proc, Crash(p) PROVE ClaimInv'
  BY <1>7 DEF Crash, EndSession
<1>8. CASE ForceRelease
  BY <1>8 DEF ForceRelease
<1>9. CASE PruneEnter
  BY <1>9 DEF PruneEnter
<1>10. CASE (\E q \in Proc : PruneJudge(q)) \/ PruneRemove \/ PruneExit
  BY <1>10 DEF PruneJudge, Judge, PruneRemove, PruneExit
<1>11. CASE Tick
  <2> SUFFICES ASSUME NEW p \in Proc \ cleared, Countdown(grant[p]) > 0
               PROVE  token = p /\ Countdown(grant[p]) <= Countdown(left)
    BY <1>11 DEF Tick
  <2>1. grant[p] > 0
    BY CountdownBounds
  <2>2. QED
    BY <2>1, CountdownBounds
<1>12. CASE UNCHANGED vars
  BY <1>12 DEF vars
<1>13. QED
  BY StepCases, <1>1, <1>2, <1>3, <1>4, <1>5, <1>6, <1>7, <1>8, <1>9, <1>10, <1>11, <1>12

(* The inductive invariant: a section that reaches its write found no live *)
(* lease or renews its own, so what a session was told is always covered   *)
(* by holder.json.                                                         *)
THEOREM StoreCorrect == Spec => []StoreInv
<1>1. Init => StoreInv
  BY TypeInit, StoreAssumption
     DEF Init, StoreInv, GuardInv, LeaseInv, SectionInv, ClaimInv
<1>2. StoreInv /\ [Next]_vars => StoreInv'
  BY TypeStep, SectionStep, ClaimStep DEF StoreInv
<1>3. QED
  BY <1>1, <1>2, PTL DEF Spec

(* Two sessions never rely on the key at the same time, unless a human     *)
(* cleared the lease of one of them: for any number of sessions, any stall *)
(* of a section and any pattern of crashes.                                *)
THEOREM ExclusionHolds == Spec => []MutualExclusion
<1>1. StoreInv => MutualExclusion
  BY DEF StoreInv, ClaimInv, MutualExclusion
<1>2. QED
  BY <1>1, StoreCorrect, PTL

(* A live lease is only ever ended by its owner's release or by a force-   *)
(* release.                                                                *)
THEOREM NothingStolen == Spec => NoStealing
<1>1. ASSUME StoreInv, [Next]_vars, left > 0, token' # token
      PROVE  Release(token) \/ ForceRelease
  <2> USE <1>1, StoreAssumption DEF StoreInv, TypeOK, disk, section, session
  <2>1. ASSUME NEW p \in Proc, Quiet(p) PROVE FALSE
    BY <2>1, QuietSteps
  <2>2. ASSUME NEW p \in Proc,
               Enter(p) \/ Scan(p) \/ Finish(p) \/ Fail(p) \/ Renew(p) \/ Reclaim(p) \/ Crash(p)
        PROVE  FALSE
    BY <2>2 DEF Enter, Scan, ScanOf, Finish, Fail, Renew, Reclaim, Crash
  <2>3. ASSUME NEW p \in Proc, Write(p) PROVE FALSE
    BY <2>3 DEF Write, In, SectionInv
  <2>4. ASSUME NEW p \in Proc, Release(p) PROVE Release(token)
    <3>1. token = p
      BY <2>4 DEF Release
    <3>2. QED
      BY <2>4, <3>1
  <2>5. CASE PruneEnter
    BY <2>5 DEF PruneEnter
  <2>6. CASE (\E q \in Proc : PruneJudge(q)) \/ PruneRemove \/ PruneExit \/ Tick
    BY <2>6 DEF PruneJudge, Judge, PruneRemove, PruneExit, Tick
  <2>7. CASE UNCHANGED vars
    BY <2>7 DEF vars
  <2>8. QED
    BY StepCases, <2>1, <2>2, <2>3, <2>4, <2>5, <2>6, <2>7
<1>2. StoreInv /\ [Next]_vars => [left > 0 /\ token' # token => Release(token) \/ ForceRelease]_vars
  BY <1>1
<1>3. QED
  BY <1>2, StoreCorrect, PTL DEF Spec, NoStealing

-----------------------------------------------------------------------------
(* Refinement                                                              *)

(* Every step of the store is a step of the promise, or changes nothing it *)
(* speaks of: the write of a section is a taking or a renewal, its end a   *)
(* grant, a crash a forgetting.                                            *)
LEMMA PromiseStep ==
  ASSUME StoreInv, TypeOK', [Next]_vars
  PROVE  [Promise!Next]_Promise!vars
<1> USE StoreAssumption DEF StoreInv, TypeOK, disk, section, session, Promise!vars
<1>1. ASSUME NEW p \in Proc, Quiet(p) PROVE UNCHANGED Promise!vars
  BY <1>1, QuietSteps
<1>2. ASSUME NEW p \in Proc, Enter(p) \/ Scan(p) \/ Fail(p) \/ Renew(p) \/ Reclaim(p)
      PROVE  UNCHANGED Promise!vars
  BY <1>2 DEF Enter, Scan, ScanOf, Fail, Renew, Reclaim
<1>3. ASSUME NEW p \in Proc, Write(p) PROVE Promise!Take(p) \/ Promise!Renew(p)
  <2>1. left = 0 \/ (token = p /\ left + lag <= TTL[p])
    BY <1>3 DEF Write, In, SectionInv
  <2>2. token' = p /\ left' \in left..MaxTTL /\ UNCHANGED <<grant, cleared>>
    BY <1>3, <2>1 DEF Write
  <2>3. CASE left = 0
    BY <2>2, <2>3 DEF Promise!Take
  <2>4. CASE token = p
    BY <2>2, <2>4 DEF Promise!Renew
  <2>5. QED
    BY <2>1, <2>3, <2>4
<1>4. ASSUME NEW p \in Proc, Finish(p) PROVE Promise!Grant(p)
  BY <1>4 DEF Finish, In, SectionInv, Promise!Grant
<1>5. ASSUME NEW p \in Proc, Release(p) PROVE Promise!Release(p) \/ Promise!Forget(p)
  BY <1>5 DEF Release, EndSession, Promise!Release, Promise!Forget
<1>6. ASSUME NEW p \in Proc, Crash(p) PROVE Promise!Forget(p)
  BY <1>6 DEF Crash, EndSession, Promise!Forget
<1>7. ForceRelease => Promise!Override
  BY DEF ForceRelease, Promise!Override
<1>8. PruneEnter => Promise!Reap \/ UNCHANGED Promise!vars
  BY DEF PruneEnter, Promise!Reap
<1>9. (\E q \in Proc : PruneJudge(q)) \/ PruneRemove \/ PruneExit => UNCHANGED Promise!vars
  BY DEF PruneJudge, Judge, PruneRemove, PruneExit
<1>10. Tick => Promise!Tick
  BY DEF Tick, Countdown, Promise!Tick, Promise!Countdown
<1>11. UNCHANGED vars => UNCHANGED Promise!vars
  BY DEF vars
<1>12. QED
  BY StepCases, <1>1, <1>2, <1>3, <1>4, <1>5, <1>6, <1>7, <1>8, <1>9, <1>10, <1>11
     DEF Promise!Next

(* The store keeps the promise of Lease: every behaviour of it is one.     *)
THEOREM StoreImplementsLease == Spec => Implements
<1>1. Init => Promise!Init
  BY DEF Init, Promise!Init
<1>2. QED
  BY <1>1, PromiseStep, TypeStep, StoreCorrect, PTL DEF Spec, Implements, Promise!Spec, StoreInv

-----------------------------------------------------------------------------
(* Slots                                                                   *)

(* The entry of a prompt waiter is within its window, so it is fresh to    *)
(* every reading of the clock, however far behind.                         *)
LEMMA PromptIsFresh ==
  ASSUME TypeOK, SlotInv, NEW p \in queue \ Starvable, Waiting(p), NEW n \in Nat
  PROVE  FreshTo(p, n)
<1>1. p \in Proc /\ age[p] <= Window(p)
  BY DEF TypeOK, SlotInv
<1>2. Alive(p)
  BY DEF Waiting, Alive, Ended
<1>3. age[p] - n <= age[p]
  BY <1>1, StoreAssumption, AgeCapNat DEF TypeOK
<1>4. age[p] - n <= Window(p)
  BY <1>1, <1>3, StoreAssumption, AgeCapNat DEF TypeOK, Window
<1>5. QED
  BY <1>1, <1>2, <1>4 DEF FreshTo, Window

LEMMA SlotStep ==
  ASSUME StoreInv, TypeOK', SlotInv, [Next]_vars
  PROVE  SlotInv'
<1> USE StoreAssumption, AgeCapNat
    DEF StoreInv, TypeOK, SlotInv, Waiting, Window, Ended, disk, section, session
<1>1. ASSUME NEW p \in Proc, Quiet(p) PROVE SlotInv'
  <2>1. CASE FindHeld(p)
    BY <2>1 DEF FindHeld, Blocked, Trying
  <2>2. CASE GuardTimeout(p)
    BY <2>2 DEF GuardTimeout, Failed, Trying
  <2>3. CASE Start(p)
    BY <2>3 DEF Start
  <2>4. CASE GiveUp(p)
    BY <2>4 DEF GiveUp
  <2>5. CASE Stamp(p)
    BY <2>5 DEF Stamp
  <2>6. CASE Enqueue(p)
    BY <2>6 DEF Enqueue, Touch
  <2>7. CASE Heartbeat(p)
    BY <2>7 DEF Heartbeat, Touch
  <2>8. CASE Timeout(p)
    BY <2>8 DEF Timeout, Leave, RemoveEntry
  <2>9. CASE Interrupt(p)
    BY <2>9 DEF Interrupt, Leave, RemoveEntry
  <2>10. CASE Wake(p)
    BY <2>10 DEF Wake
  <2>11. CASE Lose(p)
    BY <2>11 DEF Lose
  <2>12. CASE ReusePID(p) \/ FreePID(p)
    BY <2>12 DEF ReusePID, FreePID
  <2>13. QED
    BY <1>1, <2>1, <2>2, <2>3, <2>4, <2>5, <2>6, <2>7, <2>8, <2>9, <2>10, <2>11, <2>12
       DEF Quiet, Wait
<1>2. ASSUME NEW p \in Proc, Enter(p) \/ Renew(p) \/ Reclaim(p) PROVE SlotInv'
  BY <1>2 DEF Enter, Renew, Reclaim, Lock
<1>3. ASSUME NEW p \in Proc, Scan(p) PROVE SlotInv'
  BY <1>3 DEF Scan, ScanOf, In, GuardInv, Trying, Blocked, Unlock
<1>4. ASSUME NEW p \in Proc, Write(p) PROVE SlotInv'
  BY <1>4 DEF Write
<1>5. ASSUME NEW p \in Proc, Finish(p) PROVE SlotInv'
  BY <1>5 DEF Finish, RemoveEntry, In, GuardInv, Unlock
<1>6. ASSUME NEW p \in Proc, Fail(p) PROVE SlotInv'
  BY <1>6 DEF Fail, In, GuardInv, Failed, Unlock
<1>7. ASSUME NEW p \in Proc, Release(p) PROVE SlotInv'
  BY <1>7 DEF Release, EndSession
<1>8. ASSUME NEW p \in Proc, Crash(p) PROVE SlotInv'
  BY <1>8 DEF Crash, EndSession, Unlock
<1>9. CASE ForceRelease
  BY <1>9 DEF ForceRelease
<1>10. CASE PruneEnter
  BY <1>10 DEF PruneEnter, Lock
<1>11. ASSUME NEW q \in Proc, PruneJudge(q) PROVE SlotInv'
  <2>1. q \in queue /\ doomed' = q /\ guard = Pruner /\ UNCHANGED <<queue, age, guard, pc>>
    BY <1>11 DEF PruneJudge, Judge, In
  <2>2. q \in unread' \/ ~Fresh(q)
    BY <1>11 DEF PruneJudge, Judge
  <2>3. q \in Proc \ Starvable => ~Waiting(q) \/ q \in unread'
    BY <2>1, <2>2, PromptIsFresh DEF Fresh
  <2>4. QED
    BY <2>1, <2>3
<1>12. CASE PruneRemove
  BY <1>12 DEF PruneRemove, In
<1>13. CASE PruneExit
  BY <1>13 DEF PruneExit, Unlock
<1>14. CASE Tick
  <2>1. UNCHANGED <<queue, pc, guard, doomed>>
    BY <1>14 DEF Tick
  <2>2. ASSUME NEW p \in queue \ Starvable, Waiting(p) PROVE age'[p] <= Window(p)
    <3>1. p \in Proc /\ age[p] < Window(p)
      BY <1>14, <2>2 DEF Tick
    <3>2. age'[p] = age[p] \/ age'[p] = age[p] + 1
      BY <1>14, <3>1 DEF Tick
    <3>3. QED
      BY <3>1, <3>2
  <2>3. UNCHANGED unread
    BY <1>14 DEF Tick
  <2>4. QED
    BY <2>1, <2>2, <2>3
<1>15. CASE UNCHANGED vars
  BY <1>15 DEF vars
<1>16. QED
  BY StepCases, <1>1, <1>2, <1>3, <1>4, <1>5, <1>6, <1>7, <1>8, <1>9, <1>10, <1>11,
     <1>12, <1>13, <1>14, <1>15

-----------------------------------------------------------------------------
(* The order of the names                                                  *)

(* A session that is about to get a name has none yet.                     *)
LEMMA UnnamedHaveNoOrder ==
  ASSUME TypeOK, SlotInv, OrderInv, NEW p \in Proc, pc[p] \in {"fast", "blocked"},
         NEW q \in Proc
  PROVE  p \notin queue /\ <<p, q>> \notin before /\ <<q, p>> \notin before
<1>1. p \notin queue
  BY DEF SlotInv, Waiting, Ended
<1>2. p \notin Named
  BY <1>1 DEF Named, Waiting
<1>3. QED
  BY <1>1, <1>2 DEF OrderInv

LEMMA OrderStep ==
  ASSUME StoreInv, TypeOK', SlotInv, OrderInv, [Next]_vars
  PROVE  OrderInv'
<1> USE StoreAssumption
    DEF StoreInv, TypeOK, OrderInv, Named, Waiting, Ended, disk, section, session
<1>1. ASSUME NEW p \in Proc, Quiet(p) PROVE OrderInv'
  <2>1. CASE FindHeld(p)
    BY <2>1 DEF FindHeld, Blocked, Trying
  <2>2. CASE GuardTimeout(p)
    BY <2>2 DEF GuardTimeout, Failed, Trying
  <2>3. CASE Start(p)
    BY <2>3 DEF Start
  <2>4. CASE GiveUp(p)
    BY <2>4 DEF GiveUp, Without
  <2>5. CASE Stamp(p)
    BY <2>5, UnnamedHaveNoOrder DEF Stamp
  <2>6. CASE Enqueue(p)
    BY <2>6 DEF Enqueue, Touch
  <2>7. CASE Heartbeat(p)
    BY <2>7 DEF Heartbeat, Touch
  <2>8. CASE Timeout(p)
    BY <2>8 DEF Timeout, Leave, RemoveEntry, Without
  <2>9. CASE Interrupt(p)
    BY <2>9 DEF Interrupt, Leave, RemoveEntry, Without
  <2>10. CASE Wake(p)
    BY <2>10 DEF Wake
  <2>11. CASE Lose(p)
    BY <2>11 DEF Lose
  <2>12. CASE ReusePID(p) \/ FreePID(p)
    BY <2>12 DEF ReusePID, FreePID
  <2>13. QED
    BY <1>1, <2>1, <2>2, <2>3, <2>4, <2>5, <2>6, <2>7, <2>8, <2>9, <2>10, <2>11, <2>12
       DEF Quiet, Wait
<1>2. ASSUME NEW p \in Proc, Enter(p) \/ Renew(p) \/ Reclaim(p) PROVE OrderInv'
  BY <1>2 DEF Enter, Renew, Reclaim
<1>3. ASSUME NEW p \in Proc, Scan(p) PROVE OrderInv'
  BY <1>3 DEF Scan, ScanOf, In, GuardInv, Trying, Blocked
<1>4. ASSUME NEW p \in Proc, Write(p) PROVE OrderInv'
  BY <1>4 DEF Write
<1>5. ASSUME NEW p \in Proc, Finish(p) PROVE OrderInv'
  BY <1>5 DEF Finish, RemoveEntry, In, GuardInv, Without
<1>6. ASSUME NEW p \in Proc, Fail(p) PROVE OrderInv'
  BY <1>6 DEF Fail, In, GuardInv, Failed
<1>7. ASSUME NEW p \in Proc, Release(p) PROVE OrderInv'
  BY <1>7 DEF Release, EndSession
<1>8. ASSUME NEW p \in Proc, Crash(p) PROVE OrderInv'
  BY <1>8 DEF Crash, EndSession, Without
<1>9. CASE ForceRelease \/ PruneEnter \/ (\E q \in Proc : PruneJudge(q)) \/ PruneExit \/ Tick
  BY <1>9 DEF ForceRelease, PruneEnter, PruneJudge, Judge, PruneExit, Tick
<1>10. CASE PruneRemove
  BY <1>10 DEF PruneRemove, Without
<1>11. CASE UNCHANGED vars
  BY <1>11 DEF vars
<1>12. QED
  BY StepCases, <1>1, <1>2, <1>3, <1>4, <1>5, <1>6, <1>7, <1>8, <1>9, <1>10, <1>11

-----------------------------------------------------------------------------
(* Those ahead                                                             *)

(* Whoever is found to be the head has no prompt waiter ahead of it whose  *)
(* entry was read.                                                         *)
LEMMA HeadHasNoneAhead ==
  ASSUME StoreInv, SlotInv, OrderInv, AheadInv, NEW p \in Proc, In(p, "scan"),
         NEW read \in SUBSET FreshEntries, MayTake(p, read),
         NEW q \in ahead \ (Starvable \cup (FreshEntries \ read))
  PROVE  ~Waiting(q)
<1> SUFFICES ASSUME Waiting(q) PROVE FALSE
  OBVIOUS
<1>1. guard = p /\ at = "scan" /\ Trying(guard) /\ q \in Proc
  BY StoreAssumption DEF StoreInv, TypeOK, GuardInv, In
<1>2. q # p /\ q \in queue /\ (p \notin queue \/ <<q, p>> \in before)
  BY <1>1 DEF AheadInv
<1>3. lag \in Nat
  BY StoreAssumption DEF StoreInv, TypeOK
<1>4. q \in read
  BY <1>1, <1>2, <1>3, PromptIsFresh DEF StoreInv, FreshEntries, Fresh
<1>5. p \in queue /\ <<p, q>> \in before
  BY <1>2, <1>4 DEF MayTake, IsHead, FreshEntries
<1>6. QED
  BY <1>1, <1>2, <1>5 DEF OrderInv

LEMMA AheadStep ==
  ASSUME StoreInv, TypeOK', SlotInv, OrderInv, AheadInv, [Next]_vars
  PROVE  AheadInv'
<1> USE StoreAssumption
    DEF StoreInv, TypeOK, AheadInv, Trying, Waiting, Ended, disk, section, session
<1>1. ASSUME NEW p \in Proc, Quiet(p) PROVE AheadInv'
  <2> USE DEF GuardInv
  <2>1. CASE FindHeld(p)
    BY <2>1 DEF FindHeld
  <2>2. CASE GuardTimeout(p)
    BY <2>2 DEF GuardTimeout, Failed
  <2>3. CASE Start(p)
    BY <2>3 DEF Start
  <2>4. CASE GiveUp(p)
    BY <2>4 DEF GiveUp, Without
  <2>5. CASE Stamp(p)
    BY <2>5 DEF Stamp
  <2>6. CASE Enqueue(p)
    BY <2>6 DEF Enqueue, Touch
  <2>7. CASE Heartbeat(p)
    BY <2>7 DEF Heartbeat, Touch
  <2>8. CASE Timeout(p)
    BY <2>8 DEF Timeout, Leave, RemoveEntry, Without
  <2>9. CASE Interrupt(p)
    BY <2>9 DEF Interrupt, Leave, RemoveEntry, Without
  <2>10. CASE Wake(p)
    BY <2>10 DEF Wake
  <2>11. CASE Lose(p)
    BY <2>11 DEF Lose
  <2>12. CASE ReusePID(p) \/ FreePID(p)
    BY <2>12 DEF ReusePID, FreePID
  <2>13. QED
    BY <1>1, <2>1, <2>2, <2>3, <2>4, <2>5, <2>6, <2>7, <2>8, <2>9, <2>10, <2>11, <2>12
       DEF Quiet, Wait
<1>2. ASSUME NEW p \in Proc, Enter(p) PROVE AheadInv'
  BY <1>2 DEF Enter, Lock, SlotInv
<1>3. ASSUME NEW p \in Proc, Renew(p) \/ Reclaim(p) PROVE AheadInv'
  BY <1>3 DEF Renew, Reclaim, Lock
<1>4. ASSUME NEW p \in Proc, Scan(p) PROVE AheadInv'
  <2>1. PICK read \in SUBSET FreshEntries : ScanOf(p, read)
    BY <1>4 DEF Scan
  <2>2. CASE MayTake(p, read)
    <3>1. /\ In(p, "scan") /\ at' = "write" /\ unread' = (ahead \cap FreshEntries) \ read
          /\ UNCHANGED <<queue, before, guard, ahead, pc>>
      BY <1>4, <2>1, <2>2 DEF Scan, ScanOf
    <3>2. \A q \in ahead \ (Starvable \cup unread') : ~Waiting(q)
      BY <2>2, <3>1, HeadHasNoneAhead
    <3>3. QED
      BY <3>1, <3>2 DEF In
  <2>3. CASE ~MayTake(p, read)
    BY <2>1, <2>3 DEF ScanOf, Unlock
  <2>4. QED
    BY <2>2, <2>3
<1>5. ASSUME NEW p \in Proc, Write(p) PROVE AheadInv'
  BY <1>5 DEF Write, In
<1>6. ASSUME NEW p \in Proc, Finish(p) \/ Fail(p) PROVE AheadInv'
  BY <1>6 DEF Finish, Fail, Unlock
<1>7. ASSUME NEW p \in Proc, Release(p) PROVE AheadInv'
  BY <1>7 DEF Release
<1>8. ASSUME NEW p \in Proc, Crash(p) PROVE AheadInv'
  <2>1. CASE guard = p
    BY <1>8, <2>1 DEF Crash, Unlock
  <2>2. CASE guard # p
    BY <1>8, <2>2 DEF Crash, EndSession, Without
  <2>3. QED
    BY <2>1, <2>2
<1>9. CASE ForceRelease
  BY <1>9 DEF ForceRelease
<1>10. CASE PruneEnter \/ (\E q \in Proc : PruneJudge(q)) \/ PruneRemove \/ PruneExit
  BY <1>10 DEF PruneEnter, Lock, PruneJudge, Judge, PruneRemove, PruneExit, In, Unlock
<1>11. CASE Tick
  BY <1>11 DEF Tick
<1>12. CASE UNCHANGED vars
  BY <1>12 DEF vars
<1>13. QED
  BY StepCases, <1>1, <1>2, <1>3, <1>4, <1>5, <1>6, <1>7, <1>8, <1>9, <1>10, <1>11, <1>12

-----------------------------------------------------------------------------

(* The inductive invariant of the queue: who has an entry, how old it may  *)
(* be, how the names order them, and what a section knows of those ahead.  *)
THEOREM QueueCorrect == Spec => []QueueInv
<1>1. Init => QueueInv
  BY StoreAssumption DEF Init, QueueInv, SlotInv, OrderInv, AheadInv, Waiting, Ended
<1>2. StoreInv /\ TypeOK' /\ QueueInv /\ [Next]_vars => QueueInv'
  BY SlotStep, OrderStep, AheadStep DEF QueueInv
<1>3. QED
  BY <1>1, <1>2, TypeCorrect, StoreCorrect, PTL DEF Spec

(* A live waiter that heartbeats within the window its host grants it      *)
(* loses its entry to no winner and to no pruner that could read it.       *)
THEOREM SlotsKept == Spec => PromptKeepsSlot
<1>1. ASSUME StoreInv, SlotInv, [Next]_vars,
             NEW p \in Proc \ Starvable, Waiting(p), p \in queue, p \notin queue'
      PROVE  ~Waiting(p)' \/ (doomed = p /\ p \in unread)
  <2> USE <1>1, StoreAssumption DEF StoreInv, TypeOK, disk, section, session
  <2>1. ASSUME NEW q \in Proc, Quiet(q) PROVE ~Waiting(p)'
    BY <2>1 DEF Quiet, FindHeld, GuardTimeout, Wait, Start, GiveUp, Stamp, Enqueue, Heartbeat,
                Touch, Timeout, Interrupt, Leave, RemoveEntry, Wake, Lose, ReusePID, FreePID,
                Waiting
  <2>2. ASSUME NEW q \in Proc,
               Enter(q) \/ Scan(q) \/ Write(q) \/ Fail(q) \/ Renew(q) \/ Reclaim(q)
                 \/ Release(q) \/ Crash(q)
        PROVE  FALSE
    BY <2>2 DEF Enter, Scan, Write, Fail, Renew, Reclaim, Release, Crash
  <2>3. ASSUME NEW q \in Proc, Finish(q) PROVE ~Waiting(p)'
    BY <2>3 DEF Finish, RemoveEntry, Waiting
  <2>4. CASE PruneRemove
    BY <2>4 DEF PruneRemove, SlotInv
  <2>5. CASE ForceRelease \/ PruneEnter \/ (\E q \in Proc : PruneJudge(q)) \/ PruneExit \/ Tick
    BY <2>5 DEF ForceRelease, PruneEnter, PruneJudge, Judge, PruneExit, Tick
  <2>6. CASE UNCHANGED vars
    BY <2>6 DEF vars
  <2>7. QED
    BY StepCases, <2>1, <2>2, <2>3, <2>4, <2>5, <2>6
<1>2. StoreInv /\ QueueInv /\ [Next]_vars =>
        [\A p \in Proc \ Starvable :
           Waiting(p) /\ p \in queue /\ p \notin queue' =>
             ~Waiting(p)' \/ (doomed = p /\ p \in unread)]_vars
  BY <1>1 DEF QueueInv
<1>3. QED
  BY <1>2, StoreCorrect, QueueCorrect, PTL DEF Spec, PromptKeepsSlot

(* No acquire writes the lease while a prompt waiter that was ahead of it  *)
(* when its section began, and whose entry it could read, is still         *)
(* waiting: first come, first served.                                      *)
THEOREM NobodyBarges == Spec => []NoBarging
<1>1. StoreInv /\ QueueInv => NoBarging
  <2> SUFFICES ASSUME StoreInv, QueueInv, at \in {"write", "finish"}, Trying(guard)
               PROVE  \A q \in ahead \ (Starvable \cup unread) : ~Waiting(q)
    BY DEF NoBarging
  <2>1. guard \in Proc
    BY DEF StoreInv, TypeOK, GuardInv
  <2>2. QED
    BY <2>1 DEF QueueInv, AheadInv
<1>2. QED
  BY <1>1, StoreCorrect, QueueCorrect, PTL
=============================================================================
