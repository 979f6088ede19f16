--------------------------- MODULE WinGuardProofs ---------------------------
(* The exclusion of the marker-file guard (WinGuard), for any number of    *)
(* processes and any StaleAfter, AcquireMax and StallMax.                  *)
EXTENDS WinGuard, TLAPS

(* Type correctness of the guard: the age and the waits stay within their  *)
(* bounds (the loop of lockGuard, guard_windows.go:36-73).                 *)
THEOREM TypeCorrect == Spec => []TypeOK
<1> USE WinGuardAssumption DEF WinGuardAssumption
<1>1. Init => TypeOK
  <2>1. Init => age \in 0..(StaleAfter + 1) /\ waited \in [Proc -> 0..(AcquireMax + 1)]
    BY DEF Init
  <2> QED
    BY <2>1 DEF Init, TypeOK
<1>2. TypeOK /\ [Next]_vars => TypeOK'
  <2> SUFFICES ASSUME TypeOK, [Next]_vars
               PROVE  TypeOK'
    OBVIOUS
  <2> USE DEF TypeOK
  <2>1. ASSUME NEW p \in Proc, Call(p) \/ Step(p) \/ Fail(p)
        PROVE  TypeOK'
    <3>1. CASE Call(p)
      BY <3>1 DEF Call
    <3>2. CASE Create(p)
      BY <3>2 DEF Create
    <3>3. CASE Write(p)
      BY <3>3 DEF Write
    <3>4. CASE FindStale(p) \/ Poll(p) \/ GiveUp(p)
      BY <3>4 DEF FindStale, Poll, GiveUp
    <3>5. CASE Rename(p) \/ Verify(p) \/ Remove(p)
      BY <3>5 DEF Rename, Verify, Remove
    <3>6. CASE Fail(p)
      BY <3>6 DEF Fail, Abandon
    <3> QED
      BY <2>1, <3>1, <3>2, <3>3, <3>4, <3>5, <3>6 DEF Step
  <2>2. CASE Tick
    <3>1. age' \in 0..(StaleAfter + 1)
      BY <2>2 DEF Tick, Stale
    <3>2. waited' \in [Proc -> 0..(AcquireMax + 1)]
      BY <2>2 DEF Tick
    <3> QED
      BY <2>2, <3>1, <3>2 DEF Tick
  <2>3. CASE UNCHANGED vars
    BY <2>3 DEF vars
  <2> QED
    BY <2>1, <2>2, <2>3 DEF Next
<1> QED
  BY <1>1, <1>2, PTL DEF Spec

(* Until a marker outlives guardStaleAfter or its call, the marker is that *)
(* of the only call past its create (guard_windows.go:37-53).              *)
THEOREM OwnerCorrect == Spec => []OwnerInv
<1> USE WinGuardAssumption DEF WinGuardAssumption
<1>1. Init => OwnerInv
  BY DEF Init, OwnerInv
<1>2. TypeOK /\ OwnerInv /\ [Next]_vars => OwnerInv'
  <2> SUFFICES ASSUME TypeOK, OwnerInv, [Next]_vars, ~overdue'
               PROVE  OwnerInv'
    BY DEF OwnerInv
  <2> USE DEF TypeOK
  <2>1. ASSUME NEW p \in Proc, Call(p) \/ Step(p) \/ Fail(p)
        PROVE  OwnerInv'
    <3>1. CASE Call(p)
      BY <3>1 DEF Call, OwnerInv, Stale
    (* The exclusive create is the one step that lets a call past.         *)
    <3>2. CASE Create(p)
      BY <3>2 DEF Create, OwnerInv, Stale
    <3>3. CASE Write(p)
      BY <3>3 DEF Write, OwnerInv, Stale
    (* The marker of a call in time is not found stale.                    *)
    <3>4. CASE FindStale(p)
      BY <3>4 DEF FindStale, OwnerInv
    <3>5. CASE Poll(p) \/ GiveUp(p)
      BY <3>5 DEF Poll, GiveUp, OwnerInv, Stale
    <3>6. CASE Rename(p)
      BY <3>6 DEF Rename, OwnerInv
    <3>7. CASE Verify(p)
      BY <3>7 DEF Verify, OwnerInv, Stale
    (* What is removed is the remover's own marker.                        *)
    <3>8. CASE Remove(p)
      BY <3>8 DEF Remove, Open, OwnerInv, Stale
    <3>9. CASE Fail(p)
      BY <3>9 DEF Fail, Abandon, OwnerInv, Stale
    <3> QED
      BY <2>1, <3>1, <3>2, <3>3, <3>4, <3>5, <3>6, <3>7, <3>8, <3>9 DEF Step
  (* The marker of a call is not let past StaleAfter: that is overdue.     *)
  <2>2. CASE Tick
    <3>1. ~overdue /\ (marker \in Proc => age # StaleAfter)
      BY <2>2 DEF Tick
    <3>2. marker \in Proc => ~(Stale')
      BY <2>2, <3>1 DEF Tick, OwnerInv, Stale
    <3> QED
      BY <2>2, <3>1, <3>2 DEF Tick, OwnerInv
  <2>3. CASE UNCHANGED vars
    BY <2>3 DEF vars, OwnerInv, Stale
  <2> QED
    BY <2>1, <2>2, <2>3 DEF Next
<1> QED
  BY <1>1, <1>2, TypeCorrect, PTL DEF Spec

(* No two processes are inside their sections at once until a marker       *)
(* outlives guardStaleAfter or its own call (lockGuard).                   *)
THEOREM GuardIsExclusive == Spec => []GuardExcludes
<1>1. OwnerInv => GuardExcludes
  BY DEF OwnerInv, GuardExcludes, Inside
<1> QED
  BY <1>1, OwnerCorrect, PTL
=============================================================================
