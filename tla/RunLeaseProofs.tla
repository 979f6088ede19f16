--------------------------- MODULE RunLeaseProofs ---------------------------
(* Proofs about RunLease, for any ttl, kill grace, cap on the hold and     *)
(* duration of the store's calls: the types, that no lease is left behind, *)
(* that the cap holds, that the command is protected while it runs, and    *)
(* how long it may run beside another's lease.                             *)
EXTENDS RunLease, TLAPS

(* A timer stays at or below its value and does not pass zero.             *)
LEMMA CountdownBounds ==
  ASSUME NEW max \in Nat
  PROVE  /\ \A n \in 0..max : Countdown(n) \in 0..max
         /\ \A n \in NoTimer..max : Countdown(n) \in NoTimer..max
         /\ \A n \in NoTimer..max : Countdown(n) <= n /\ (Countdown(n) = NoTimer <=> n = NoTimer)
         /\ \A n \in NoTimer..max : n > 0 => Countdown(n) = n - 1
  BY DEF Countdown, NoTimer

-----------------------------------------------------------------------------
(* Types                                                                   *)

(* The part of the types that is arithmetic, and the part that is truth    *)
(* values: each is a matter of a prover of its own.                        *)
Numbers ==
  /\ maxHold \in MaxHolds
  /\ left \in 0..TTL
  /\ busy \in 0..CallMax
  /\ good \in 0..TTL
  /\ next \in 1..Interval
  /\ kill \in NoTimer..KillGrace
  /\ hold \in NoTimer..maxHold
  /\ overlap \in Nat
  /\ ran \in Nat

Names ==
  /\ onLoss \in {"terminate", "continue"}
  /\ owner \in {"none", "run", "other"}
  /\ watch \in {"wait", "renew", "reclaim", "return", "stopped"}
  /\ child \in {"none", "running", "ended"}
  /\ sig \in {"none", "term", "hup"}
  /\ main \in {"start", "child", "join", "release", "exit"}
  /\ code \in {"none", "child", "127", "14"}

Truths ==
  /\ due \in BOOLEAN
  /\ lost \in BOOLEAN
  /\ lostSeen \in BOOLEAN
  /\ escalating \in BOOLEAN
  /\ maxHoldHit \in BOOLEAN
  /\ stuck \in BOOLEAN
  /\ faulted \in BOOLEAN
  /\ meddled \in BOOLEAN
  /\ overlapped \in BOOLEAN

LEMMA TypeParts == TypeOK <=> Numbers /\ Names /\ Truths
  BY DEF TypeOK, Numbers, Names, Truths

LEMMA NumbersStep == Numbers /\ [Next]_vars => Numbers'
<1> SUFFICES ASSUME Numbers, [Next]_vars PROVE Numbers'
  OBVIOUS
<1> USE RunAssumption DEF Numbers, NoTimer, flags, key, dog, ticker, signals, ghosts
<1>1. CASE Environment
  BY <1>1 DEF Environment, OtherHolds, OtherReleases, Cleared, ChildEnds, SignalArrives, Suspend
<1>2. CASE Watchdog
  <2>1. TTL \in 0..TTL /\ 0 \in 0..CallMax
    OBVIOUS
  <2>2. CASE TickArrives \/ Return \/ StopWatch
    BY <2>2 DEF TickArrives, Return, StopWatch
  <2>3. CASE Renew
    BY <2>1, <2>3 DEF Renew, Extend, LoseTo, Fault
  <2>4. CASE Reclaim
    BY <2>1, <2>4 DEF Reclaim, Extend, LoseTo, Fault
  <2>5. QED
    BY <1>2, <2>2, <2>3, <2>4 DEF Watchdog
<1>3. CASE Supervisor
  BY <1>3 DEF Supervisor, Forward, SeeLoss, HoldTooLong, KillTree, Escalate
<1>4. CASE MainGoroutine
  <2>1. CASE StartChild
    <3>1. maxHold \in Nat /\ hold' \in {maxHold, NoTimer, hold}
      BY <2>1 DEF StartChild
    <3>2. hold' \in NoTimer..maxHold
      BY <3>1
    <3>3. UNCHANGED <<maxHold, left, busy, good, next, kill, overlap, ran>>
      BY <2>1 DEF StartChild
    <3>4. QED
      BY <3>2, <3>3
  <2>2. CASE ChildWaited \/ Joined
    BY <2>2 DEF ChildWaited, Joined
  <2>3. CASE Release
    <3>1. left' \in {0, left} /\ UNCHANGED <<maxHold, busy, good, next, kill, hold, overlap, ran>>
      BY <2>3, Zenon DEF Release
    <3>2. QED
      BY <3>1
  <2>4. QED
    BY <1>4, <2>1, <2>2, <2>3 DEF MainGoroutine
<1>5. CASE Tick
  <2>1. left' \in 0..TTL /\ good' \in 0..TTL /\ maxHold' = maxHold
    BY <1>5, CountdownBounds DEF Tick
  <2>2. kill' \in NoTimer..KillGrace /\ hold' \in NoTimer..maxHold
    BY <1>5, CountdownBounds DEF Tick
  <2>3. next' \in 1..Interval
    BY <1>5 DEF Tick, Period
  <2>4. busy' \in 0..CallMax
    BY <1>5 DEF Tick, Urgent, Calling
  <2>5. overlap' \in Nat /\ ran' \in Nat
    BY <1>5 DEF Tick
  <2>6. QED
    BY <2>1, <2>2, <2>3, <2>4, <2>5
<1>6. CASE UNCHANGED vars
  BY <1>6 DEF vars
<1>7. QED
  BY <1>1, <1>2, <1>3, <1>4, <1>5, <1>6 DEF Next

LEMMA NamesStep == Names /\ [Next]_vars => Names'
<1> SUFFICES ASSUME Names, [Next]_vars PROVE Names'
  OBVIOUS
<1> USE DEF Names, flags, key, dog, ticker, signals, ghosts
<1>1. CASE Environment
  BY <1>1 DEF Environment, OtherHolds, OtherReleases, Cleared, ChildEnds, SignalArrives, Suspend
<1>2. CASE Watchdog
  BY <1>2 DEF Watchdog, TickArrives, Renew, Reclaim, Return, StopWatch, Extend, LoseTo, Fault
<1>3. CASE Supervisor
  BY <1>3 DEF Supervisor, Forward, SeeLoss, HoldTooLong, KillTree
<1>4. CASE MainGoroutine
  BY <1>4 DEF MainGoroutine, StartChild, ChildWaited, Joined, Release, ExitCode
<1>5. CASE Tick
  BY <1>5 DEF Tick
<1>6. CASE UNCHANGED vars
  BY <1>6 DEF vars
<1>7. QED
  BY <1>1, <1>2, <1>3, <1>4, <1>5, <1>6 DEF Next

LEMMA TruthsStep == Truths /\ [Next]_vars => Truths'
<1> SUFFICES ASSUME Truths, [Next]_vars PROVE Truths'
  OBVIOUS
<1> USE DEF Truths, flags, key, dog, ticker, signals, ghosts
<1>1. CASE Environment
  BY <1>1, ZenonT(60) DEF Environment, OtherHolds, OtherReleases, Cleared, ChildEnds, SignalArrives, Suspend
<1>2. CASE Watchdog
  BY <1>2, ZenonT(60) DEF Watchdog, TickArrives, Renew, Reclaim, Return, StopWatch, Extend, LoseTo, Fault
<1>3. CASE Supervisor
  BY <1>3, ZenonT(60) DEF Supervisor, Forward, SeeLoss, HoldTooLong, KillTree, Escalate
<1>4. CASE MainGoroutine
  BY <1>4, ZenonT(60) DEF MainGoroutine, StartChild, ChildWaited, Joined, Release
<1>5. CASE Tick
  BY <1>5, ZenonT(60) DEF Tick, Overlapping
<1>6. CASE UNCHANGED vars
  BY <1>6 DEF vars
<1>7. QED
  BY <1>1, <1>2, <1>3, <1>4, <1>5, <1>6 DEF Next

(* The variables keep their types, the timers within their bounds.         *)
THEOREM TypeCorrect == Spec => []TypeOK
<1>1. Init => Numbers
  BY RunAssumption DEF Init, Numbers, NoTimer
<1>2. Init => Names /\ Truths
  BY DEF Init, Names, Truths
<1>3. QED
  BY <1>1, <1>2, TypeParts, NumbersStep, NamesStep, TruthsStep, PTL DEF Spec

-----------------------------------------------------------------------------
(* The end of a run                                                        *)

(* The watchdog has returned for good before the release, and a lease      *)
(* under run's token outlives it only if the release failed.               *)
EndInv ==
  /\ main \in {"release", "exit"} => watch = "stopped"
  /\ NoLeak

(* Once run has exited its lease is not left behind, unless the release    *)
(* itself failed, however the watchdog and the main goroutine interleave.  *)
THEOREM NothingLeaks == Spec => []NoLeak
<1>1. Init => EndInv
  BY DEF Init, EndInv, NoLeak
<1>2. EndInv /\ [Next]_vars => EndInv'
  <2> SUFFICES ASSUME EndInv, [Next]_vars PROVE EndInv'
    OBVIOUS
  <2> USE DEF EndInv, NoLeak, flags, key, dog, ticker, signals, ghosts
  <2>1. CASE Environment
    BY <2>1 DEF Environment, OtherHolds, OtherReleases, Cleared, ChildEnds, SignalArrives, Suspend
  <2>2. CASE Watchdog
    BY <2>2 DEF Watchdog, TickArrives, Renew, Reclaim, Return, StopWatch, Extend, LoseTo, Fault
  <2>3. CASE Supervisor
    BY <2>3 DEF Supervisor, Forward, SeeLoss, HoldTooLong, KillTree
  <2>4. CASE MainGoroutine
    BY <2>4 DEF MainGoroutine, StartChild, ChildWaited, Joined, Release
  <2>5. CASE Tick
    BY <2>5 DEF Tick
  <2>6. CASE UNCHANGED vars
    BY <2>6 DEF vars
  <2>7. QED
    BY <2>1, <2>2, <2>3, <2>4, <2>5, <2>6 DEF Next
<1>3. EndInv => NoLeak
  BY DEF EndInv
<1>4. QED
  BY <1>1, <1>2, <1>3, PTL DEF Spec

-----------------------------------------------------------------------------
(* The cap on the hold                                                     *)

(* A capped command that runs either still has its cap ahead of it, or is  *)
(* being killed; the timer says how long that takes at the most.           *)
CapInv ==
  /\ main = "start" => child = "none" /\ ran = 0 /\ ~escalating
  /\ child = "none" => ran = 0
  /\ child = "running" => main = "child"
  /\ ran <= RanBound
  /\ child = "running" /\ maxHold > 0 =>
       /\ hold # NoTimer \/ escalating
       /\ hold # NoTimer => ran + hold <= maxHold
       /\ escalating => kill # NoTimer /\ ran + kill <= RanBound

(* A command under --max-hold is gone after the cap and the kill grace,    *)
(* whatever it traps and whatever signals and losses came before.          *)
THEOREM CapHolds == Spec => []MaxHoldBounded
<1>1. Init => CapInv
  BY RunAssumption DEF Init, CapInv, RanBound
<1>2. Numbers /\ CapInv /\ [Next]_vars => CapInv'
  <2> SUFFICES ASSUME Numbers, CapInv, [Next]_vars PROVE CapInv'
    OBVIOUS
  <2> DEFINE Frame == <<main, child, maxHold, hold, kill, escalating, ran>>
  <2> USE DEF flags, key, dog, ticker, signals, ghosts
  <2>1. /\ maxHold \in Nat /\ KillGrace \in Nat /\ ran \in Nat
        /\ maxHold + KillGrace \in Nat
        /\ hold \in NoTimer..maxHold /\ kill \in NoTimer..KillGrace
    BY RunAssumption DEF Numbers
  <2>2. UNCHANGED Frame => CapInv'
    BY DEF CapInv, RanBound
  <2>3. CASE Environment
    <3>1. CASE ChildEnds
      BY <2>1, <3>1 DEF ChildEnds, CapInv, RanBound
    <3>2. CASE Suspend
      <4>1. /\ UNCHANGED <<main, child, maxHold, escalating, ran>>
            /\ \/ UNCHANGED <<kill, hold>>
               \/ /\ kill' = (IF kill = NoTimer THEN NoTimer ELSE 0)
                  /\ hold' = (IF hold = NoTimer THEN NoTimer ELSE 0)
        BY <3>2 DEF Suspend
      <4>2. CASE UNCHANGED <<kill, hold>>
        BY <2>2, <4>1, <4>2
      <4>3. CASE ~UNCHANGED <<kill, hold>>
        BY <2>1, <4>1, <4>3 DEF CapInv, RanBound, NoTimer
      <4> QED BY <4>2, <4>3
    <3>3. CASE OtherHolds \/ OtherReleases \/ Cleared \/ SignalArrives
      <4>1. CASE SignalArrives
        <5>1. UNCHANGED Frame
          BY <4>1 DEF SignalArrives
        <5>2. QED
          BY <2>2, <5>1
      <4>2. CASE OtherHolds \/ OtherReleases \/ Cleared
        <5>1. UNCHANGED Frame
          BY <4>2 DEF OtherHolds, OtherReleases, Cleared
        <5>2. QED
          BY <2>2, <5>1
      <4>3. QED
        BY <3>3, <4>1, <4>2
    <3>4. QED
      BY <2>3, <3>1, <3>2, <3>3 DEF Environment
  <2>4. CASE Watchdog
    <3>1. UNCHANGED Frame
      BY <2>4 DEF Watchdog, TickArrives, Renew, Reclaim, Return, StopWatch, Extend, LoseTo, Fault
    <3>2. QED
      BY <2>2, <3>1
  <2>5. CASE Forward \/ SeeLoss
    <3>1. UNCHANGED <<main, child, maxHold, hold, ran>> /\ main = "child"
      BY <2>5 DEF Forward, SeeLoss, Selecting
    <3>2. \/ UNCHANGED <<escalating, kill>>
          \/ ~escalating /\ escalating' /\ kill' = KillGrace
      BY <2>5 DEF Forward, SeeLoss, Escalate
    <3>3. QED
      BY <2>1, <3>1, <3>2 DEF CapInv, RanBound, NoTimer
  <2>6. CASE HoldTooLong
    <3>1. UNCHANGED <<main, child, maxHold, ran>> /\ main = "child" /\ hold = 0
      BY <2>6 DEF HoldTooLong, Selecting
    <3>2. \/ escalating /\ UNCHANGED <<escalating, kill>>
          \/ ~escalating /\ escalating' /\ kill' = KillGrace
      BY <2>6 DEF HoldTooLong, Escalate
    <3>3. hold' = NoTimer
      BY <2>6 DEF HoldTooLong
    <3>4. QED
      BY <2>1, <3>1, <3>2, <3>3 DEF CapInv, RanBound, NoTimer
  <2>7. CASE KillTree
    BY <2>7 DEF KillTree, CapInv, RanBound
  <2>8. CASE StartChild
    <3>1. CASE child' = "running"
      <4>1. /\ UNCHANGED <<maxHold, ran, escalating>> /\ ran = 0 /\ main' = "child"
            /\ hold' = (IF maxHold > 0 THEN maxHold ELSE NoTimer) /\ ~escalating
        BY <2>8, <3>1 DEF StartChild, CapInv
      <4>2. QED
        BY <2>1, <3>1, <4>1 DEF CapInv, RanBound, NoTimer
    <3>2. CASE child' # "running"
      BY <2>1, <2>8, <3>2 DEF StartChild, CapInv, RanBound
    <3>3. QED
      BY <3>1, <3>2
  <2>9. CASE ChildWaited
    BY <2>1, <2>9 DEF ChildWaited, CapInv, RanBound
  <2>10. CASE Joined \/ Release
    BY <2>10 DEF Joined, Release, CapInv, RanBound
  <2>11. CASE Tick
    <3>1. UNCHANGED <<main, child, maxHold, escalating>>
      BY <2>11 DEF Tick
    <3>2. CASE child = "running" /\ maxHold > 0
      <4>1. kill # 0 /\ hold # 0 /\ ran' \in {ran, ran + 1}
        BY <2>11, <3>2 DEF Tick, Urgent, Selecting, CapInv
      <4>2. kill' = (IF kill = NoTimer THEN NoTimer ELSE kill - 1)
        BY <2>1, <2>11, <4>1 DEF Tick, Countdown, NoTimer
      <4>3. hold' = (IF hold = NoTimer THEN NoTimer ELSE hold - 1)
        BY <2>1, <2>11, <4>1 DEF Tick, Countdown, NoTimer
      <4>4. ASSUME hold # NoTimer, ran + hold <= maxHold
            PROVE  ran' <= maxHold /\ ran' + hold' <= maxHold /\ hold' # NoTimer
        <5>1. hold - 1 # NoTimer /\ hold \in Nat \ {0}
          BY <2>1, <4>1, <4>4 DEF NoTimer
        <5>2. \A n \in {ran, ran + 1} : n <= maxHold /\ n + (hold - 1) <= maxHold
          BY <2>1, <4>4, <5>1
        <5>3. hold' = hold - 1
          BY <4>3, <4>4
        <5>4. QED
          BY <4>1, <5>1, <5>2, <5>3, Zenon
      <4>5. ASSUME kill # NoTimer, ran + kill <= maxHold + KillGrace
            PROVE  ran' <= maxHold + KillGrace /\ ran' + kill' <= maxHold + KillGrace /\ kill' # NoTimer
        <5>1. kill - 1 # NoTimer /\ kill \in Nat \ {0}
          BY <2>1, <4>1, <4>5 DEF NoTimer
        <5>2. \A n \in {ran, ran + 1} : n <= maxHold + KillGrace /\ n + (kill - 1) <= maxHold + KillGrace
          BY <2>1, <4>5, <5>1
        <5>3. kill' = kill - 1
          BY <4>2, <4>5
        <5>4. QED
          BY <4>1, <5>1, <5>2, <5>3, Zenon
      <4>6. ran' <= maxHold => ran' <= maxHold + KillGrace
        BY <2>1, <4>1
      <4>7. hold = NoTimer => hold' = NoTimer
        BY <4>3
      <4>8. QED
        BY <3>1, <3>2, <4>4, <4>5, <4>6, <4>7, Zenon DEF CapInv, RanBound
    <3>3. CASE ~(child = "running" /\ maxHold > 0)
      <4>1. ran' = ran
        BY <2>11, <3>3 DEF Tick
      <4>2. QED
        BY <3>1, <3>3, <4>1 DEF CapInv, RanBound
    <3>4. QED
      BY <3>2, <3>3
  <2>12. CASE UNCHANGED vars
    <3>1. UNCHANGED Frame
      BY <2>12 DEF vars
    <3>2. QED
      BY <2>2, <3>1
  <2>13. QED
    BY <2>3, <2>4, <2>5, <2>6, <2>7, <2>8, <2>9, <2>10, <2>11, <2>12
       DEF Next, Supervisor, MainGoroutine
<1>3. CapInv => MaxHoldBounded
  BY DEF CapInv, MaxHoldBounded
<1>4. QED
  BY <1>1, <1>2, <1>3, TypeCorrect, TypeParts, PTL DEF Spec

-----------------------------------------------------------------------------
(* Protection                                                              *)

(* Until somebody meddles, the lease is run's.  A call begins with a tick  *)
(* and returns before the next; the clock that the lease was last extended *)
(* by was read less than a call before an earlier tick.                    *)
DogInv ==
  /\ child = "running" => main = "child"
  /\ main \in {"start", "child"} /\ ~meddled =>
       /\ owner = "run"
       /\ \/ /\ watch = "wait"
             /\ due => next = Interval
             /\ left >= 2 * Interval - CallMax + (IF due THEN 0 ELSE next)
          \/ /\ watch = "renew"
             /\ ~due /\ busy + next = Interval
             /\ left >= 2 * Interval - CallMax - busy
          \/ /\ watch = "return"
             /\ ~due /\ busy + next = Interval
             /\ left >= 2 * Interval - CallMax + next
  /\ watch = "wait" => busy = 0

(* While the command runs, nobody meddles with the key and each call       *)
(* returns before the next tick, the lease is run's own and has not        *)
(* expired, though it counts from a clock that was read within the call.   *)
THEOREM CommandProtected ==
  ASSUME CallMax < Interval
  PROVE  Spec => []Protected
<1>1. Init => DogInv
  BY RunAssumption DEF Init, DogInv
<1>2. Numbers /\ DogInv /\ [Next]_vars => DogInv'
  <2> SUFFICES ASSUME Numbers, DogInv, [Next]_vars PROVE DogInv'
    OBVIOUS
  <2> USE DEF DogInv, flags, key, dog, ticker, signals, ghosts
  <2>0. /\ Interval \in Nat \ {0} /\ TTL = 3 * Interval /\ CallMax \in Nat
        /\ next \in 1..Interval /\ left \in 0..TTL /\ busy \in 0..CallMax
    BY RunAssumption DEF Numbers
  <2>1. CASE Environment
    BY <2>0, <2>1 DEF Environment, OtherHolds, OtherReleases, Cleared, ChildEnds, SignalArrives, Suspend
  <2>2. CASE Watchdog
    <3>1. CASE TickArrives
      BY <2>0, <3>1 DEF TickArrives
    <3>2. CASE Renew
      BY <2>0, <3>2 DEF Renew, Extend, LoseTo, Fault
    <3>3. CASE Reclaim
      BY <2>0, <3>3 DEF Reclaim, Extend, LoseTo, Fault
    <3>4. CASE StopWatch
      BY <3>4 DEF StopWatch
    <3>5. CASE Return
      BY <2>0, <3>5 DEF Return
    <3>6. QED
      BY <2>2, <3>1, <3>2, <3>3, <3>4, <3>5 DEF Watchdog
  <2>3. CASE Supervisor
    BY <2>3 DEF Supervisor, Forward, SeeLoss, HoldTooLong, KillTree
  <2>4. CASE MainGoroutine
    <3>1. UNCHANGED <<watch, busy, due, next, meddled>>
      BY <2>4 DEF MainGoroutine, StartChild, ChildWaited, Joined, Release
    <3>2. main' \in {"start", "child"} => main = "start" /\ UNCHANGED <<owner, left>>
      BY <2>4 DEF MainGoroutine, StartChild, ChildWaited, Joined, Release
    <3>3. child' = "running" => main' = "child"
      BY <2>4 DEF MainGoroutine, StartChild, ChildWaited, Joined, Release
    <3>4. QED
      BY <3>1, <3>2, <3>3
  <2>5. CASE Tick
    <3>1. /\ UNCHANGED <<owner, watch, main, child, meddled>>
          /\ left > 0 => left' = left - 1
          /\ watch = "wait" => ~due /\ busy' = 0
          /\ watch \in {"renew", "return"} => busy' = busy + 1 /\ busy < CallMax
      BY <2>0, <2>5 DEF Tick, Urgent, Calling, Countdown
    <3>2. watch = "wait" /\ next = 1 => due' /\ next' = Interval
      BY <2>5 DEF Tick, Period
    <3>3. watch \in {"wait", "renew", "return"} /\ next # 1 /\ ~due => next' = next - 1 /\ ~due'
      BY <2>5 DEF Tick
    <3>4. QED
      BY <2>0, <3>1, <3>2, <3>3
  <2>6. CASE UNCHANGED vars
    BY <2>6 DEF vars
  <2>7. QED
    BY <2>1, <2>2, <2>3, <2>4, <2>5, <2>6 DEF Next
<1>3. Numbers /\ DogInv => Protected
  BY RunAssumption DEF DogInv, Numbers, Protected
<1>4. QED
  BY <1>1, <1>2, <1>3, TypeCorrect, TypeParts, PTL DEF Spec

-----------------------------------------------------------------------------
(* A command beside another's lease                                        *)

(* Where the goroutines can be together.                                   *)
PhaseInv ==
  /\ main = "start" => child = "none"
  /\ child = "running" => main = "child"
  /\ lost => watch = "stopped"
  /\ main \in {"start", "child"} /\ watch = "stopped" => lost
  /\ escalating => kill # NoTimer
  /\ ~escalating => kill = NoTimer
  /\ onLoss = "terminate" /\ lostSeen => kill # NoTimer
  /\ child = "none" => overlap = 0

(* All steps keep them so.                                                 *)
LEMMA PhaseStep == Numbers /\ PhaseInv /\ [Next]_vars => PhaseInv'
<1> SUFFICES ASSUME Numbers, PhaseInv, [Next]_vars PROVE PhaseInv'
  OBVIOUS
<1> USE RunAssumption DEF PhaseInv, flags, key, dog, ticker, signals, ghosts
<1>0. KillGrace \in Nat /\ KillGrace # NoTimer /\ kill \in NoTimer..KillGrace
  BY DEF Numbers, NoTimer
<1>1. CASE Environment
  BY <1>0, <1>1
     DEF Environment, OtherHolds, OtherReleases, Cleared, ChildEnds, SignalArrives, Suspend, NoTimer
<1>2. CASE Watchdog
  BY <1>2 DEF Watchdog, TickArrives, Renew, Reclaim, Return, StopWatch, Extend, LoseTo, Fault
<1>3. CASE Supervisor
  BY <1>0, <1>3 DEF Supervisor, Forward, SeeLoss, HoldTooLong, KillTree, Escalate
<1>4. CASE MainGoroutine
  <2>1. CASE StartChild
    BY <2>1 DEF StartChild
  <2>2. CASE ChildWaited
    BY <2>2 DEF ChildWaited
  <2>3. CASE Joined \/ Release
    <3>1. UNCHANGED <<onLoss, watch, lost, child, lostSeen, escalating, kill, overlap>>
      BY <2>3 DEF Joined, Release
    <3>2. main \in {"join", "release"} /\ main' \in {"release", "exit"}
      BY <2>3 DEF Joined, Release
    <3>3. child # "running"
      BY <3>2
    <3> QED BY <3>1, <3>2, <3>3
  <2> QED BY <1>4, <2>1, <2>2, <2>3 DEF MainGoroutine
<1>5. CASE Tick
  <2>1. kill' = NoTimer <=> kill = NoTimer
    BY <1>0, <1>5 DEF Tick, Countdown, NoTimer
  <2>2. child = "none" => overlap' = overlap
    BY <1>5 DEF Tick, Overlapping
  <2>3. UNCHANGED <<main, child, lost, watch, escalating, onLoss, lostSeen>>
    BY <1>5 DEF Tick
  <2> QED BY <2>1, <2>2, <2>3
<1>6. CASE UNCHANGED vars
  BY <1>6 DEF vars
<1> QED BY <1>1, <1>2, <1>3, <1>4, <1>5, <1>6 DEF Next

(* The command runs, under `terminate`, while the key is another's.        *)
Beside == onLoss = "terminate" /\ child = "running" /\ owner = "other"

(* What can happen to such a command, as far as its time is concerned.     *)
Clocks == <<overlap, kill, good, watch, busy, lost, next, due, faulted>>

Begins == overlap' = 0

Notices ==
  /\ watch = "wait" /\ due /\ watch' = "renew"
  /\ UNCHANGED <<overlap, kill, good, busy, lost, faulted>>

Returns ==
  /\ watch = "return" /\ watch' = "wait"
  /\ busy' = 0
  /\ UNCHANGED <<overlap, kill, good, lost, next, due, faulted>>

Fails ==
  /\ \/ watch = "renew" /\ watch' = "reclaim"
     \/ watch = "reclaim" /\ watch' = "wait" /\ good > 0
  /\ busy' = 0
  /\ faulted'
  /\ UNCHANGED <<overlap, kill, good, lost, next, due>>

Loses ==
  /\ watch \in {"renew", "reclaim"}
  /\ lost'
  /\ watch' = "stopped"
  /\ faulted => faulted'
  /\ UNCHANGED <<overlap, kill>>

Kills ==
  /\ kill = NoTimer
  /\ kill' = KillGrace
  /\ UNCHANGED <<overlap, lost, faulted>>

Sleeps ==
  /\ good' = 0
  /\ due'
  /\ kill' = (IF kill = NoTimer THEN NoTimer ELSE 0)
  /\ UNCHANGED <<overlap, watch, busy, lost, next, faulted>>

Ages ==
  /\ overlap' \in {overlap, overlap + 1}
  /\ kill # NoTimer => kill > 0 /\ kill' = kill - 1
  /\ kill = NoTimer => kill' = NoTimer /\ ~lost
  /\ good' = (IF good > 0 THEN good - 1 ELSE 0)
  /\ watch = "wait" =>
       /\ ~due
       /\ IF next = 1 THEN due' ELSE ~due' /\ next' = next - 1
  /\ Calling => busy' = busy + 1 /\ busy < CallMax
  /\ watch = "return" => IF next = 1 THEN due' ELSE (due' <=> due) /\ next' = next - 1
  /\ UNCHANGED <<watch, lost, faulted>>

(* There is nothing else.                                                  *)
LEMMA BesideStep ==
  ASSUME Numbers, Names, PhaseInv, PhaseInv', [Next]_vars, Beside'
  PROVE  \/ Begins
         \/ Beside /\ (UNCHANGED Clocks \/ Notices \/ Returns \/ Fails \/ Loses \/ Kills \/ Sleeps \/ Ages)
<1> USE DEF Beside, flags, key, dog, ticker, signals, ghosts
<1>0. onLoss' = onLoss
  BY DEF Next, Environment, OtherHolds, OtherReleases, Cleared, ChildEnds, SignalArrives, Suspend,
         Watchdog, TickArrives, Renew, Reclaim, Return, StopWatch,
         Supervisor, Forward, SeeLoss, HoldTooLong, KillTree,
         MainGoroutine, StartChild, ChildWaited, Joined, Release, Tick, vars
<1>1. CASE Environment
  <2>1. CASE OtherHolds
    BY <1>0, <2>1 DEF OtherHolds, Begins, Clocks
  <2>2. CASE OtherReleases \/ Cleared \/ ChildEnds
    BY <2>2 DEF OtherReleases, Cleared, ChildEnds
  <2>3. CASE SignalArrives
    BY <1>0, <2>3 DEF SignalArrives, Clocks
  <2>4. CASE Suspend
    <3>1. CASE UNCHANGED <<good, due, kill, hold>>
      BY <1>0, <2>4, <3>1 DEF Suspend, Clocks
    <3>2. CASE ~UNCHANGED <<good, due, kill, hold>>
      BY <1>0, <2>4, <3>2 DEF Suspend, Sleeps
    <3> QED BY <3>1, <3>2
  <2> QED BY <1>1, <2>1, <2>2, <2>3, <2>4 DEF Environment
<1>2. CASE Watchdog
  <2>1. CASE TickArrives
    BY <1>0, <2>1 DEF TickArrives, Notices
  <2>2. CASE Renew
    BY <1>0, <2>2 DEF Renew, Extend, LoseTo, Fault, Loses, Fails
  <2>3. CASE Reclaim
    BY <1>0, <2>3 DEF Reclaim, Extend, LoseTo, Fault, Loses, Fails
  <2>4. CASE StopWatch
    BY <2>4 DEF StopWatch, PhaseInv
  <2>5. CASE Return
    BY <1>0, <2>5 DEF Return, Returns
  <2> QED BY <1>2, <2>1, <2>2, <2>3, <2>4, <2>5 DEF Watchdog
<1>3. CASE Supervisor
  <2>1. CASE Forward \/ SeeLoss \/ HoldTooLong
    <3>1. UNCHANGED <<child, owner, overlap, good, watch, busy, lost, next, due, faulted>>
      BY <2>1 DEF Forward, SeeLoss, HoldTooLong
    <3>2. kill' = kill \/ (~escalating /\ kill' = KillGrace)
      BY <2>1 DEF Forward, SeeLoss, HoldTooLong, Escalate
    <3> QED BY <1>0, <3>1, <3>2 DEF Kills, Clocks, PhaseInv
  <2>2. CASE KillTree
    BY <2>2 DEF KillTree
  <2> QED BY <1>3, <2>1, <2>2 DEF Supervisor
<1>4. CASE MainGoroutine
  <2>1. CASE StartChild
    BY <2>1 DEF StartChild, PhaseInv, Begins
  <2>2. CASE ChildWaited \/ Joined \/ Release
    BY <1>0, <2>2 DEF ChildWaited, Joined, Release, PhaseInv
  <2> QED BY <1>4, <2>1, <2>2 DEF MainGoroutine
<1>5. CASE Tick
  <2>1. /\ UNCHANGED <<child, owner, watch, lost, faulted>>
        /\ overlap' \in {overlap, overlap + 1}
    BY <1>5 DEF Tick
  <2>2. /\ kill \in NoTimer..KillGrace /\ KillGrace \in Nat
        /\ good \in 0..TTL /\ TTL \in Nat
    BY RunAssumption DEF Numbers
  <2>3. child = "running" /\ main = "child"
    BY <2>1 DEF PhaseInv
  <2>4. kill # 0
    BY <1>5, <2>3 DEF Tick, Urgent
  <2>5. kill # NoTimer => kill > 0 /\ kill' = kill - 1
    BY <1>5, <2>2, <2>4 DEF Tick, Countdown, NoTimer
  <2>6. kill = NoTimer => kill' = NoTimer
    BY <1>5 DEF Tick, Countdown, NoTimer
  <2>7. kill = NoTimer => ~lost
    BY <1>0, <1>5, <2>3 DEF Tick, Urgent, Selecting, PhaseInv
  <2>8. good' = (IF good > 0 THEN good - 1 ELSE 0)
    BY <1>5, <2>2 DEF Tick, Countdown
  <2>9. watch = "wait" => /\ ~due
                          /\ IF next = 1 THEN due' ELSE ~due' /\ next' = next - 1
    BY <1>5 DEF Tick, Urgent
  <2>10. Calling => busy' = busy + 1 /\ busy # CallMax
    BY <1>5 DEF Tick, Urgent
  <2>11. Calling => busy' = busy + 1 /\ busy < CallMax
    BY <2>10, RunAssumption DEF Numbers
  <2>12. watch = "return" => IF next = 1 THEN due' ELSE (due' <=> due) /\ next' = next - 1
    BY <1>5 DEF Tick
  <2> QED BY <1>0, <2>1, <2>5, <2>6, <2>7, <2>8, <2>9, <2>11, <2>12 DEF Ages
<1>6. CASE UNCHANGED vars
  BY <1>6 DEF vars, Clocks
<1> QED BY <1>1, <1>2, <1>3, <1>4, <1>5, <1>6 DEF Next

-----------------------------------------------------------------------------
(* How long that lasts                                                     *)

(* The command's end is only a matter of the kill grace.                   *)
Doomed == lost \/ kill # NoTimer

ToKill == IF kill # NoTimer THEN kill ELSE KillGrace

ToTick == IF due THEN 0 ELSE next

(* A call that has done its work may yet be late to return.                *)
ToNext == IF CallMax - busy > ToTick THEN CallMax - busy ELSE ToTick

(* The time until the command is dead at the latest, if no call fails: the *)
(* next tick, the two calls that may be needed to meet the other's lease,  *)
(* and the kill grace.                                                     *)
ToLoss ==
  IF watch = "wait" THEN ToTick + 2 * CallMax
  ELSE IF watch = "return" THEN ToNext + 2 * CallMax
  ELSE IF watch = "renew" THEN 2 * CallMax - busy
  ELSE CallMax - busy

Remaining == IF Doomed THEN ToKill ELSE KillGrace + ToLoss

Most == KillGrace + 2 * CallMax + Pause

Prompt == overlap + Remaining <= Most

(* If calls fail, the watchdog tries again until the last expiry it knows  *)
(* of has passed.                                                          *)
Late ==
  /\ overlap + Remaining <= TTL + Most
  /\ ~Doomed /\ good > 0 => overlap + good <= TTL

(* The sizes that the arithmetic is about.                                 *)
Sized ==
  /\ Interval \in Nat \ {0} /\ TTL \in Nat /\ CallMax \in Nat /\ KillGrace \in Nat
  /\ overlap \in Nat /\ good \in 0..TTL /\ busy \in 0..CallMax
  /\ kill \in NoTimer..KillGrace
  /\ ToTick \in 0..Interval
  /\ ToNext \in 0..Pause
  /\ ToKill \in 0..KillGrace
  /\ Remaining \in Nat /\ Remaining <= Most /\ Most \in Nat

(* They follow from the types.                                             *)
LEMMA Sizes == Numbers => Sized
<1> SUFFICES ASSUME Numbers PROVE Sized
  OBVIOUS
<1>1. /\ Interval \in Nat \ {0} /\ TTL \in Nat /\ CallMax \in Nat /\ KillGrace \in Nat
      /\ overlap \in Nat /\ good \in 0..TTL /\ busy \in 0..CallMax
      /\ kill \in NoTimer..KillGrace /\ next \in 1..Interval
  BY RunAssumption DEF Numbers
<1>2. ToTick \in 0..Interval
  <2>1. ToTick = 0 \/ ToTick = next
    BY DEF ToTick
  <2> QED BY <1>1, <2>1
<1>3. ToKill \in 0..KillGrace
  BY <1>1 DEF ToKill, NoTimer
<1>2a. Pause \in Nat /\ Pause >= Interval /\ Pause >= CallMax
  BY <1>1 DEF Pause
<1>2b. ToNext \in 0..Pause
  BY <1>1, <1>2, <1>2a DEF ToNext
<1>4. ToLoss \in 0..(2 * CallMax + Pause)
  <2>1. ToLoss \in {ToTick + 2 * CallMax, ToNext + 2 * CallMax, 2 * CallMax - busy, CallMax - busy}
    BY DEF ToLoss
  <2> QED BY <1>1, <1>2, <1>2a, <1>2b, <2>1
<1>5. Remaining \in 0..Most
  <2>1. Remaining = ToKill \/ Remaining = KillGrace + ToLoss
    BY DEF Remaining
  <2> QED BY <1>1, <1>2a, <1>3, <1>4, <2>1 DEF Most
<1>6. Most \in Nat
  BY <1>1, <1>2a DEF Most
<1> QED BY <1>1, <1>2, <1>2b, <1>3, <1>5, <1>6 DEF Sized

(* The same sizes after a step.                                            *)
LEMMA SizesAfter == Numbers' => Sized'
BY Sizes, PTL

(* What remains, by what the watchdog does.                                *)
Remains ==
  /\ Doomed => Remaining = ToKill
  /\ ~Doomed /\ watch = "wait" => Remaining = KillGrace + (ToTick + 2 * CallMax)
  /\ ~Doomed /\ watch = "return" => Remaining = KillGrace + (ToNext + 2 * CallMax)
  /\ ~Doomed /\ watch = "renew" => Remaining = KillGrace + (2 * CallMax - busy)
  /\ ~Doomed /\ watch = "reclaim" => Remaining = KillGrace + (CallMax - busy)

(* So before and after every step.                                         *)
LEMMA RemainsSo == Remains
BY DEF Remains, Remaining, ToLoss

(* After a step.                                                           *)
LEMMA RemainsAfter == Remains'
BY RemainsSo, PTL

(* What time does to the sums.                                             *)
LEMMA Sums ==
  \A o, r \in Nat :
    /\ \A s \in Nat : s <= r => o + s <= o + r
    /\ \A p \in {o, o + 1} : p + (r - 1) <= o + r
    /\ \A p \in {o, o + 1} :
         (IF r > 0 THEN r - 1 ELSE 0) > 0 => r > 0 /\ p + (IF r > 0 THEN r - 1 ELSE 0) <= o + r
OBVIOUS

(* Bounds on sums.                                                         *)
LEMMA Chains ==
  \A o, r, m \in Nat :
    /\ o + r <= m => o <= m
    /\ o = 0 /\ r <= m => o + r <= m
    /\ \A n \in Nat : o <= n /\ r <= m => o + r <= n + m
    /\ \A n \in Nat : r <= m => r <= n + m
OBVIOUS

(* The order is transitive, and sums have their place in it.               *)
LEMMA Orders ==
  /\ \A o, r \in Nat : o + r \in Nat
  /\ \A a, b, m \in Nat : a <= b /\ b <= m => a <= m
OBVIOUS

(* A step of a command beside another's lease, but for a failing call,     *)
(* does not put its end off.                                               *)
LEMMA NeverLater ==
  ASSUME Numbers, Sized, Sized', Names, PhaseInv,
         UNCHANGED Clocks \/ Notices \/ Returns \/ Loses \/ Kills \/ Sleeps \/ Ages,
         child = "running"
  PROVE  /\ overlap' + Remaining' <= overlap + Remaining
         /\ Doomed => Doomed'
         /\ ~Doomed' /\ good' > 0 => good > 0 /\ overlap' + good' <= overlap + good
<1>a. Remains /\ Remains'
  BY RemainsSo, RemainsAfter
<1>b. /\ overlap \in Nat /\ good \in Nat /\ busy \in Nat /\ kill \in Int
      /\ ToTick \in Nat /\ ToNext \in Nat /\ ToKill \in Nat /\ Remaining \in Nat
      /\ CallMax \in Nat /\ KillGrace \in Nat /\ busy <= CallMax /\ ToKill <= KillGrace
  BY DEF Sized, Pause, NoTimer
<1>c. /\ ToTick' \in Nat /\ ToNext' \in Nat
      /\ overlap' \in Nat /\ good' \in Nat /\ Remaining' \in Nat /\ ToKill' \in Nat /\ ToKill' <= KillGrace
  BY DEF Sized, Pause
<1>0. watch \in {"wait", "renew", "reclaim", "return", "stopped"} /\ (~Doomed => watch # "stopped")
  BY DEF Names, PhaseInv, Doomed
<1>1. CASE UNCHANGED Clocks
  <2>1. /\ UNCHANGED <<overlap, good>> /\ Doomed' = Doomed /\ Remaining' = Remaining
    BY <1>1 DEF Clocks, Doomed, Remaining, ToKill, ToLoss, ToNext, ToTick
  <2> QED BY <1>b, <1>c, <2>1
<1>2. CASE Notices
  <2>1. UNCHANGED <<overlap, good, busy>> /\ watch = "wait" /\ watch' = "renew"
    BY <1>2 DEF Notices
  <2>2. (Doomed' <=> Doomed) /\ ToKill' = ToKill /\ ToTick = 0
    BY <1>2 DEF Notices, Doomed, ToKill, ToTick
  <2>3. CASE Doomed
    <3>1. Remaining' = Remaining
      BY <1>a, <2>2, <2>3 DEF Remains
    <3> QED BY <1>b, <1>c, <2>1, <2>3, <2>2, <3>1
  <2>4. CASE ~Doomed
    <3>1. Remaining' = KillGrace + (2 * CallMax - busy) /\ Remaining = KillGrace + (0 + 2 * CallMax)
      BY <1>a, <2>1, <2>2, <2>4 DEF Remains
    <3> QED BY <1>b, <1>c, <2>1, <2>4, <3>1
  <2> QED BY <2>3, <2>4
<1>3. CASE Loses
  <2>0. overlap' = overlap
    BY <1>3 DEF Loses
  <2>1. overlap' = overlap /\ Doomed' /\ watch \in {"renew", "reclaim"} /\ ToKill' = ToKill
    BY <1>3 DEF Loses, Doomed, ToKill
  <2>2. Remaining' = ToKill
    BY <1>a, <2>1 DEF Remains
  <2>3. CASE Doomed
    <3>1. Remaining = ToKill
      BY <1>a, <2>3 DEF Remains
    <3> QED BY <1>b, <1>c, <2>1, <2>2, <3>1
  <2>4. CASE ~Doomed
    <3>1. Remaining = KillGrace + (2 * CallMax - busy) \/ Remaining = KillGrace + (CallMax - busy)
      BY <1>a, <2>1, <2>4 DEF Remains
    <3>2. Remaining' <= Remaining
      BY <1>b, <1>c, <2>2, <3>1
    <3>3. overlap' + Remaining' <= overlap + Remaining
      BY <1>b, <1>c, <2>0, <3>2, Sums, Zenon
    <3> QED BY <2>1, <2>4, <3>3
  <2> QED BY <2>3, <2>4
<1>4. CASE Kills
  <2>1. overlap' = overlap /\ kill = NoTimer /\ kill' = KillGrace /\ kill' # NoTimer
    BY <1>b, <1>4 DEF Kills, NoTimer
  <2>2. Doomed' /\ ToKill' = KillGrace /\ ToKill = KillGrace
    BY <2>1 DEF Doomed, ToKill
  <2>3. Remaining' = KillGrace
    BY <1>a, <2>2 DEF Remains
  <2>4. Remaining >= KillGrace
    <3>1. Remaining \in {KillGrace, KillGrace + (ToTick + 2 * CallMax),
                         KillGrace + (ToNext + 2 * CallMax),
                         KillGrace + (2 * CallMax - busy), KillGrace + (CallMax - busy)}
      BY <1>a, <1>0, <2>2 DEF Remains
    <3> QED BY <1>b, <1>c, <3>1
  <2> QED BY <1>b, <1>c, <2>1, <2>2, <2>3, <2>4
<1>5. CASE Sleeps
  <2>1. overlap' = overlap /\ good' = 0
    BY <1>5 DEF Sleeps
  <2>2. UNCHANGED <<overlap, watch, busy>> /\ good' = 0 /\ ToTick' = 0
    BY <1>5 DEF Sleeps, ToTick
  <2>2a. ToNext' <= ToNext
    BY <1>b, <2>2 DEF ToNext
  <2>3. ~(good' > 0)
    BY <2>1
  <2>4. (Doomed' <=> Doomed) /\ (kill = NoTimer <=> kill' = NoTimer)
    BY <1>5 DEF Sleeps, Doomed, NoTimer
  <2>5. ToKill' <= ToKill
    <3>1. CASE kill = NoTimer
      BY <1>b, <1>c, <2>4, <3>1 DEF ToKill
    <3>2. CASE kill # NoTimer
      <4>1. ToKill' = 0
        BY <1>5, <2>4, <3>2 DEF Sleeps, ToKill
      <4> QED BY <1>b, <1>c, <4>1
    <3> QED BY <3>1, <3>2
  <2>6. CASE Doomed
    <3>1. Remaining' = ToKill' /\ Remaining = ToKill
      BY <1>a, <2>4, <2>6 DEF Remains
    <3>2. overlap' + Remaining' <= overlap + Remaining
      BY <1>b, <1>c, <2>1, <2>5, <3>1, Sums, Zenon
    <3> QED BY <2>4, <2>6, <2>3, <3>2
  <2>7. CASE ~Doomed
    <3>1. Remaining' = Remaining
          \/ (Remaining' = KillGrace + (0 + 2 * CallMax) /\ Remaining = KillGrace + (ToTick + 2 * CallMax))
          \/ (Remaining' = KillGrace + (ToNext' + 2 * CallMax) /\ Remaining = KillGrace + (ToNext + 2 * CallMax))
      BY <1>a, <1>0, <2>2, <2>4, <2>7 DEF Remains
    <3>2. Remaining' <= Remaining
      <4>1. CASE Remaining' = Remaining
        BY <1>b, <4>1
      <4>2. CASE /\ Remaining' = KillGrace + (0 + 2 * CallMax)
                 /\ Remaining = KillGrace + (ToTick + 2 * CallMax)
        BY <1>b, <4>2
      <4>3. CASE /\ Remaining' = KillGrace + (ToNext' + 2 * CallMax)
                 /\ Remaining = KillGrace + (ToNext + 2 * CallMax)
        <5>1. \A x, y \in Nat :
                x <= y => KillGrace + (x + 2 * CallMax) <= KillGrace + (y + 2 * CallMax)
          BY <1>b
        <5>2. KillGrace + (ToNext' + 2 * CallMax) <= KillGrace + (ToNext + 2 * CallMax)
          BY <1>b, <1>c, <2>2a, <5>1, Zenon
        <5> QED BY <4>3, <5>2, Zenon
      <4> QED BY <3>1, <4>1, <4>2, <4>3
    <3>3. overlap' + Remaining' <= overlap + Remaining
      BY <1>b, <1>c, <2>1, <3>2, Sums, Zenon
    <3> QED BY <2>7, <2>3, <3>3
  <2> QED BY <2>6, <2>7
<1>6. CASE Ages
  <2>0. overlap' \in {overlap, overlap + 1} /\ good' = (IF good > 0 THEN good - 1 ELSE 0)
    BY <1>6 DEF Ages
  <2>1. UNCHANGED <<watch, lost>> /\ (Calling => busy' = busy + 1 /\ busy < CallMax)
    BY <1>6 DEF Ages
  <2>2. /\ kill # NoTimer => kill > 0 /\ kill' = kill - 1
        /\ kill = NoTimer => kill' = NoTimer /\ ~lost
    BY <1>6 DEF Ages
  <2>3. kill = NoTimer <=> kill' = NoTimer
    BY <1>b, <1>c, <2>2 DEF NoTimer
  <2>4. Doomed' <=> Doomed
    BY <2>1, <2>3 DEF Doomed
  <2>5. good' > 0 => good > 0 /\ overlap' + good' <= overlap + good
    BY <1>b, <2>0, Sums, Zenon
  <2>6. CASE Doomed
    <3>1. kill # NoTimer
      BY <2>2, <2>6 DEF Doomed
    <3>2. ToKill = kill /\ ToKill' = kill - 1
      BY <2>2, <2>3, <3>1 DEF ToKill
    <3>3. Remaining' = kill - 1 /\ Remaining = kill
      BY <1>a, <2>4, <2>6, <3>2 DEF Remains
    <3>4. overlap' + Remaining' <= overlap + Remaining
      BY <1>b, <2>0, <3>3, Sums, Zenon
    <3> QED BY <2>4, <2>5, <2>6, <3>4
  <2>7. CASE ~Doomed
    <3>1. ASSUME watch = "wait" PROVE overlap' + Remaining' <= overlap + Remaining
      <4>1. ToTick = next
        BY <1>6, <3>1 DEF Ages, ToTick
      <4>2. ToTick' = next - 1
        <5>1. CASE next = 1
          BY <1>6, <3>1, <5>1 DEF Ages, ToTick
        <5>2. CASE next # 1
          BY <1>6, <3>1, <5>2 DEF Ages, ToTick
        <5> QED BY <5>1, <5>2
      <4>3. /\ Remaining = KillGrace + (next + 2 * CallMax)
            /\ Remaining' = KillGrace + ((next - 1) + 2 * CallMax)
        BY <1>a, <2>1, <2>4, <2>7, <3>1, <4>1, <4>2 DEF Remains
      <4>4. next \in Nat
        BY <1>b, <1>c, <4>1
      <4>5. Remaining' = Remaining - 1
        BY <1>b, <4>3, <4>4
      <4> QED BY <1>b, <2>0, <4>5, Sums, Zenon
    <3>2. ASSUME watch = "renew" PROVE overlap' + Remaining' <= overlap + Remaining
      <4>1. /\ Remaining = KillGrace + (2 * CallMax - busy)
            /\ Remaining' = KillGrace + (2 * CallMax - (busy + 1))
        BY <1>a, <2>1, <2>4, <2>7, <3>2 DEF Remains, Calling
      <4>2. Remaining' = Remaining - 1
        BY <1>b, <4>1
      <4> QED BY <1>b, <2>0, <4>2, Sums, Zenon
    <3>3. ASSUME watch = "reclaim" PROVE overlap' + Remaining' <= overlap + Remaining
      <4>1. /\ Remaining = KillGrace + (CallMax - busy)
            /\ Remaining' = KillGrace + (CallMax - (busy + 1))
        BY <1>a, <2>1, <2>4, <2>7, <3>3 DEF Remains, Calling
      <4>2. Remaining' = Remaining - 1
        BY <1>b, <4>1
      <4> QED BY <1>b, <2>0, <4>2, Sums, Zenon
    <3>4. ASSUME watch = "return" PROVE overlap' + Remaining' <= overlap + Remaining
      <4>1. busy' = busy + 1 /\ busy < CallMax
        BY <2>1, <3>4 DEF Calling
      <4>2. ToTick' = (IF ToTick > 0 THEN ToTick - 1 ELSE 0)
        <5>1. next \in Nat \ {0}
          BY DEF Numbers
        <5>2. IF next = 1 THEN due' ELSE (due' <=> due) /\ next' = next - 1
          BY <1>6, <3>4 DEF Ages
        <5>3. CASE due
          <6>1. due'
            BY <5>2, <5>3
          <6> QED BY <5>3, <6>1 DEF ToTick
        <5>4. CASE ~due /\ next = 1
          BY <5>1, <5>2, <5>4 DEF ToTick
        <5>5. CASE ~due /\ next # 1
          BY <5>1, <5>2, <5>5 DEF ToTick
        <5> QED BY <5>3, <5>4, <5>5
      <4>3. ToNext' = ToNext - 1
        BY <1>b, <4>1, <4>2 DEF ToNext
      <4>4. /\ Remaining = KillGrace + (ToNext + 2 * CallMax)
            /\ Remaining' = KillGrace + (ToNext' + 2 * CallMax)
        BY <1>a, <2>1, <2>4, <2>7, <3>4 DEF Remains
      <4>5. Remaining' = Remaining - 1
        BY <1>b, <4>3, <4>4
      <4> QED BY <1>b, <2>0, <4>5, Sums, Zenon
    <3>5. overlap' + Remaining' <= overlap + Remaining
      BY <1>0, <2>7, <3>1, <3>2, <3>3, <3>4
    <3> QED BY <2>4, <2>5, <2>7, <3>5
  <2> QED BY <2>6, <2>7
<1>7. CASE Returns
  <2>1. UNCHANGED <<overlap, good>> /\ watch = "return" /\ watch' = "wait"
    BY <1>7 DEF Returns
  <2>2. (Doomed' <=> Doomed) /\ ToKill' = ToKill /\ ToTick' = ToTick
    BY <1>7 DEF Returns, Doomed, ToKill, ToTick
  <2>3. CASE Doomed
    <3>1. Remaining' = Remaining
      BY <1>a, <2>2, <2>3 DEF Remains
    <3> QED BY <1>b, <1>c, <2>1, <2>3, <2>2, <3>1
  <2>4. CASE ~Doomed
    <3>1. /\ Remaining = KillGrace + (ToNext + 2 * CallMax)
          /\ Remaining' = KillGrace + (ToTick + 2 * CallMax)
      BY <1>a, <2>1, <2>2, <2>4 DEF Remains
    <3>2. ToTick <= ToNext
      BY <1>b DEF ToNext
    <3> QED BY <1>b, <1>c, <2>1, <2>4, <3>1, <3>2
  <2> QED BY <2>3, <2>4
<1> QED BY <1>1, <1>2, <1>3, <1>4, <1>5, <1>6, <1>7

(* However calls fail, the watchdog gives up in time.                      *)
LEMMA LateStep ==
  ASSUME Numbers, Numbers', Names, PhaseInv, PhaseInv', [Next]_vars, Beside',
         Beside => Late
  PROVE  Late'
<1>1. Sized /\ Sized' /\ Remains /\ Remains'
  BY Sizes, SizesAfter, RemainsSo, RemainsAfter
<1>2. /\ overlap' \in Nat /\ Remaining' \in Nat /\ Remaining' <= Most /\ good' \in Nat /\ good' <= TTL
      /\ overlap \in Nat /\ Remaining \in Nat /\ good \in Nat
      /\ Interval \in Nat /\ CallMax \in Nat /\ KillGrace \in Nat
      /\ TTL \in Nat /\ Most \in Nat
  BY <1>1 DEF Sized
<1>3. TTL + Most \in Nat
  BY <1>2
<1>4. CASE Begins
  <2>1. overlap' = 0
    BY <1>4 DEF Begins
  <2>2. overlap' + Remaining' <= TTL + Most /\ overlap' + good' <= TTL
    BY <1>2, <1>3, <2>1, Chains, Zenon
  <2> QED BY <2>2 DEF Late
<1>5. CASE ~Begins
  <2>1. Beside /\ (UNCHANGED Clocks \/ Notices \/ Returns \/ Fails \/ Loses \/ Kills \/ Sleeps \/ Ages)
    BY <1>5, BesideStep
  <2>2. /\ overlap + Remaining <= TTL + Most
        /\ ~Doomed /\ good > 0 => overlap + good <= TTL
    BY <2>1 DEF Late
  <2>3. ASSUME ~Fails PROVE Late'
    <3>1. /\ overlap' + Remaining' <= overlap + Remaining
          /\ Doomed => Doomed'
          /\ ~Doomed' /\ good' > 0 => good > 0 /\ overlap' + good' <= overlap + good
      BY <1>1, <2>1, <2>3, NeverLater DEF Beside
    <3>2. overlap + Remaining \in Nat /\ overlap' + Remaining' \in Nat
      BY <1>2, Orders, Zenon
    <3>3. overlap' + Remaining' <= TTL + Most
      BY <1>3, <2>2, <3>1, <3>2, Orders, Zenon
    <3>4. ASSUME ~Doomed', good' > 0 PROVE overlap' + good' <= TTL
      <4>1. overlap + good <= TTL /\ overlap' + good' <= overlap + good
        BY <2>2, <3>1, <3>4
      <4>2. overlap + good \in Nat /\ overlap' + good' \in Nat
        BY <1>2, Orders, Zenon
      <4> QED BY <1>2, <4>1, <4>2, Orders, Zenon
    <3> QED BY <3>3, <3>4 DEF Late
  <2>4. ASSUME Fails PROVE Late'
    <3>1. overlap' = overlap /\ good' = good /\ busy' = 0 /\ ToTick' = ToTick /\ ToKill' = ToKill
      BY <2>4 DEF Fails, ToTick, ToKill
    <3>2. Doomed' <=> Doomed
      BY <2>4 DEF Fails, Doomed
    <3>3. \/ watch = "renew" /\ watch' = "reclaim"
          \/ watch = "reclaim" /\ watch' = "wait" /\ good > 0
      BY <2>4 DEF Fails
    <3>4. overlap' + Remaining' <= TTL + Most
      <4>1. CASE Doomed
        <5>1. Remaining' = Remaining
          BY <1>1, <3>1, <3>2, <4>1 DEF Remains
        <5> QED BY <2>2, <3>1, <5>1
      <4>2. CASE ~Doomed /\ watch = "renew"
        <5>1. /\ Remaining = KillGrace + (2 * CallMax - busy)
              /\ Remaining' = KillGrace + (CallMax - 0)
          BY <1>1, <3>1, <3>2, <3>3, <4>2 DEF Remains
        <5>2. busy \in 0..CallMax
          BY <1>1 DEF Sized
        <5>3. Remaining' <= Remaining
          BY <1>2, <5>1, <5>2
        <5>4. overlap' + Remaining' <= overlap + Remaining
          BY <1>2, <3>1, <5>3, Sums, Zenon
        <5>5. overlap + Remaining \in Nat /\ overlap' + Remaining' \in Nat
          BY <1>2, Orders, Zenon
        <5> QED BY <1>3, <2>2, <5>4, <5>5, Orders, Zenon
      <4>3. CASE ~Doomed /\ good > 0
        <5>1. overlap + good <= TTL
          BY <2>2, <4>3
        <5>2. overlap' <= TTL
          BY <1>2, <3>1, <5>1, Chains, Zenon
        <5> QED BY <1>2, <5>2, Chains, Zenon
      <4> QED BY <3>3, <4>1, <4>2, <4>3
    <3>5. ASSUME ~Doomed', good' > 0 PROVE overlap' + good' <= TTL
      BY <2>2, <3>1, <3>2, <3>5
    <3> QED BY <3>4, <3>5 DEF Late
  <2> QED BY <2>3, <2>4
<1> QED BY <1>4, <1>5

(* So far without a failed call.                                           *)
Faultless == Beside /\ ~faulted

(* If none fails, sooner.                                                  *)
LEMMA PromptStep ==
  ASSUME Numbers, Numbers', Names, PhaseInv, PhaseInv', [Next]_vars, Faultless',
         Faultless => Prompt
  PROVE  Prompt'
<1>1. Sized /\ Sized'
  BY Sizes, SizesAfter
<1>2. /\ overlap' \in Nat /\ Remaining' \in Nat /\ Remaining' <= Most
      /\ overlap \in Nat /\ Remaining \in Nat /\ Most \in Nat
  BY <1>1 DEF Sized
<1>3. CASE Begins
  <2>1. overlap' + Remaining' <= Most
    BY <1>2, <1>3, Chains, Zenon DEF Begins
  <2> QED BY <2>1 DEF Prompt
<1>4. CASE ~Begins
  <2>1. Beside /\ (UNCHANGED Clocks \/ Notices \/ Returns \/ Fails \/ Loses \/ Kills \/ Sleeps \/ Ages)
    BY <1>4, BesideStep DEF Faultless
  <2>2. ~Fails /\ ~faulted'
    BY DEF Fails, Faultless
  <2>3. ~faulted
    BY <2>1, <2>2 DEF Clocks, Notices, Returns, Loses, Kills, Sleeps, Ages
  <2>4. overlap + Remaining <= Most
    BY <2>1, <2>3 DEF Faultless, Prompt
  <2>5. overlap' + Remaining' <= overlap + Remaining
    BY <1>1, <2>1, <2>2, NeverLater DEF Beside
  <2>6. overlap' + Remaining' <= Most
    <3>1. overlap + Remaining \in Nat /\ overlap' + Remaining' \in Nat
      BY <1>2, Orders, Zenon
    <3> QED BY <1>2, <2>4, <2>5, <3>1, Orders, Zenon
  <2> QED BY <2>6 DEF Prompt
<1> QED BY <1>3, <1>4

(* What a command ran beside another's lease is bounded also when that is  *)
(* over; a call that has failed stays so.                                  *)
OverlapInv ==
  /\ PhaseInv
  /\ Beside => Late
  /\ Faultless => Prompt
  /\ onLoss = "terminate" => overlap <= OverlapBound

(* The bound is one of two numbers.                                        *)
LEMMA Bounds ==
  /\ faulted => OverlapBound = TTL + Most
  /\ ~faulted => OverlapBound = Most
  /\ faulted' => OverlapBound' = TTL + Most
  /\ ~faulted' => OverlapBound' = Most
<1>1. /\ faulted => OverlapBound = KillGrace + 2 * CallMax + (TTL + Pause)
      /\ ~faulted => OverlapBound = KillGrace + 2 * CallMax + Pause
      /\ faulted' => OverlapBound' = KillGrace + 2 * CallMax + (TTL + Pause)
      /\ ~faulted' => OverlapBound' = KillGrace + 2 * CallMax + Pause
  BY DEF OverlapBound, Pause
<1>2. KillGrace + 2 * CallMax + (TTL + Pause) = TTL + Most
  BY RunAssumption DEF Most, Pause
<1> QED BY <1>1, <1>2 DEF Most

(* Beside nobody's lease, the overlap stays or is forgotten.               *)
LEMMA Aside ==
  ASSUME [Next]_vars, ~Beside', onLoss' = "terminate"
  PROVE  onLoss = "terminate" /\ (overlap' = overlap \/ overlap' = 0) /\ (faulted => faulted')
<1> USE DEF flags, key, dog, ticker, signals, ghosts
<1>1. CASE Environment
  BY <1>1 DEF Environment, OtherHolds, OtherReleases, Cleared, ChildEnds, SignalArrives, Suspend
<1>2. CASE Watchdog
  BY <1>2 DEF Watchdog, TickArrives, Renew, Reclaim, Return, StopWatch, Fault
<1>3. CASE Supervisor
  BY <1>3 DEF Supervisor, Forward, SeeLoss, HoldTooLong, KillTree
<1>4. CASE MainGoroutine
  <2>1. CASE StartChild \/ ChildWaited
    BY <2>1 DEF StartChild, ChildWaited
  <2>2. CASE Joined
    BY <2>2 DEF Joined
  <2>3. CASE Release
    <3>1. UNCHANGED flags /\ UNCHANGED <<faulted, overlap>>
      BY <2>3, Zenon DEF Release
    <3> QED BY <3>1
  <2> QED BY <1>4, <2>1, <2>2, <2>3 DEF MainGoroutine
<1>5. CASE Tick
  BY <1>5 DEF Tick, Overlapping, Beside
<1>6. CASE UNCHANGED vars
  BY <1>6 DEF vars
<1> QED BY <1>1, <1>2, <1>3, <1>4, <1>5, <1>6 DEF Next

(* With --on-lease-loss terminate the command does not run beside          *)
(* another's live lease for longer than the pause between two renewals,    *)
(* two calls and the kill grace; if calls fail, than the ttl more.         *)
THEOREM OverlapHolds == Spec => []OverlapBounded
<1>1. Init => OverlapInv
  <2> SUFFICES ASSUME Init PROVE OverlapInv
    OBVIOUS
  <2>1. PhaseInv /\ ~Beside /\ ~Faultless
    BY DEF Init, PhaseInv, Beside, Faultless
  <2>2. overlap = 0 /\ ~faulted
    BY DEF Init
  <2>3. OverlapBound \in Nat
    BY <2>2, Bounds, RunAssumption DEF Most, Pause
  <2> QED BY <2>1, <2>2, <2>3 DEF OverlapInv
<1>2. ASSUME Numbers, Numbers', Names, OverlapInv, [Next]_vars PROVE OverlapInv'
  <2>1. PhaseInv /\ PhaseInv'
    BY <1>2, PhaseStep DEF OverlapInv
  <2>2. Beside' => Late'
    BY <1>2, <2>1, LateStep DEF OverlapInv
  <2>3. Faultless' => Prompt'
    BY <1>2, <2>1, PromptStep DEF OverlapInv
  <2>4. ASSUME onLoss' = "terminate" PROVE overlap' <= OverlapBound'
    <3>1. /\ overlap \in Nat /\ overlap' \in Nat /\ Remaining' \in Nat
          /\ TTL \in Nat /\ Most \in Nat /\ TTL + Most \in Nat
      BY <1>2, Sizes, SizesAfter DEF Sized
    <3>2. CASE Beside' /\ faulted'
      <4>1. overlap' + Remaining' <= TTL + Most
        BY <2>2, <3>2 DEF Late
      <4>2. overlap' <= TTL + Most
        BY <3>1, <4>1, Chains, Zenon
      <4> QED BY <3>2, <4>2, Bounds
    <3>3. CASE Beside' /\ ~faulted'
      <4>1. overlap' + Remaining' <= Most
        BY <2>3, <3>3 DEF Prompt, Faultless
      <4>2. overlap' <= Most
        BY <3>1, <4>1, Chains, Zenon
      <4> QED BY <3>3, <4>2, Bounds
    <3>4. CASE ~Beside'
      <4>1. onLoss = "terminate" /\ (overlap' = overlap \/ overlap' = 0) /\ (faulted => faulted')
        BY <1>2, <2>4, <3>4, Aside
      <4>2. overlap <= OverlapBound
        BY <1>2, <4>1 DEF OverlapInv
      <4>3. CASE faulted'
        <5>1. OverlapBound' = TTL + Most /\ OverlapBound \in {Most, TTL + Most}
          BY <4>3, Bounds
        <5>2. overlap <= TTL + Most
          BY <3>1, <4>2, <5>1
        <5> QED BY <3>1, <4>1, <5>1, <5>2
      <4>4. CASE ~faulted'
        <5>1. OverlapBound' = Most /\ OverlapBound = Most
          BY <4>1, <4>4, Bounds
        <5> QED BY <3>1, <4>1, <4>2, <5>1
      <4> QED BY <4>3, <4>4
    <3> QED BY <3>2, <3>3, <3>4
  <2> QED BY <2>1, <2>2, <2>3, <2>4 DEF OverlapInv
<1>3. OverlapInv => OverlapBounded
  BY DEF OverlapInv, OverlapBounded
<1>4. Numbers /\ Names /\ OverlapInv /\ Numbers' /\ [Next]_vars => OverlapInv'
  BY <1>2
<1>5. TypeOK => Numbers /\ Names
  BY TypeParts
<1> QED BY <1>1, <1>3, <1>4, <1>5, TypeCorrect, PTL DEF Spec

-----------------------------------------------------------------------------
(* Why a lease is lost                                                     *)

(* The watchdog reclaims a key that it found without a lease, and nobody   *)
(* but the watchdog puts run's lease there again; otherwise a call failed. *)
CauseInv ==
  /\ owner = "none" => left = 0
  /\ watch = "reclaim" /\ owner = "run" => faulted

LEMMA CauseStep ==
  ASSUME Names, CauseInv, [Next]_vars
  PROVE  /\ CauseInv'
         /\ lost' /\ ~lost => owner = "other" \/ faulted'
<1> USE DEF CauseInv, Names, flags, key, dog, ticker, signals, ghosts
<1>1. CASE Environment
  <2>1. UNCHANGED <<watch, lost, faulted>> /\ owner' \in {owner, "none", "other"}
    BY <1>1 DEF Environment, OtherHolds, OtherReleases, Cleared, ChildEnds, SignalArrives, Suspend
  <2>2. owner' = "none" => left' = 0
    BY <1>1 DEF Environment, OtherHolds, OtherReleases, Cleared, ChildEnds, SignalArrives, Suspend
  <2> QED BY <2>1, <2>2
<1>2. CASE Watchdog
  <2>1. CASE TickArrives \/ Return \/ StopWatch
    BY <2>1 DEF TickArrives, Return, StopWatch
  <2>2. CASE Renew
    BY <2>2 DEF Renew, Extend, LoseTo, Fault
  <2>3. CASE Reclaim
    <3>1. CASE left = 0 /\ Extend
      BY <3>1 DEF Extend
    <3>2. CASE left > 0 /\ LoseTo /\ UNCHANGED ghosts /\ UNCHANGED key
      <4>1. owner = "other" \/ faulted
        BY <2>3, <3>2 DEF Reclaim
      <4> QED BY <3>2, <4>1 DEF LoseTo
    <3>3. CASE Fault /\ UNCHANGED key
      BY <3>3 DEF Fault
    <3> QED BY <2>3, <3>1, <3>2, <3>3 DEF Reclaim
  <2> QED BY <1>2, <2>1, <2>2, <2>3 DEF Watchdog
<1>3. CASE Supervisor
  BY <1>3 DEF Supervisor, Forward, SeeLoss, HoldTooLong, KillTree
<1>4. CASE MainGoroutine
  <2>1. CASE StartChild \/ ChildWaited \/ Joined
    BY <2>1 DEF StartChild, ChildWaited, Joined
  <2>2. CASE Release
    BY <2>2 DEF Release
  <2> QED BY <1>4, <2>1, <2>2 DEF MainGoroutine
<1>5. CASE Tick
  <2>1. UNCHANGED <<owner, watch, lost, faulted>> /\ left' = Countdown(left)
    BY <1>5 DEF Tick
  <2> QED BY <2>1 DEF Countdown
<1>6. CASE UNCHANGED vars
  BY <1>6 DEF vars
<1> QED BY <1>1, <1>2, <1>3, <1>4, <1>5, <1>6 DEF Next

(* LossHasCause: no lease is given up as lost while no call fails and      *)
(* nobody else has taken it, for any time to live and any delays.          *)
THEOREM LossesHaveCauses == Spec => LossHasCause
<1>1. Init => CauseInv
  BY DEF Init, CauseInv
<1>2. Names /\ CauseInv /\ [Next]_vars => CauseInv'
  BY CauseStep
<1>3. Names /\ CauseInv /\ [Next]_vars
        => [lost' /\ ~lost => owner = "other" \/ faulted']_vars
  BY CauseStep
<1>4. TypeOK => Names
  BY TypeParts
<1> QED BY <1>1, <1>2, <1>3, <1>4, TypeCorrect, PTL DEF Spec, LossHasCause
=============================================================================
