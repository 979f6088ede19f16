--------------------------- MODULE ReadersProofs ---------------------------
(***************************************************************************)
(* What a guard-free read of the holder is worth, for any sessions, times  *)
(* to live, stalls and clock readings.                                     *)
(***************************************************************************)
EXTENDS Readers, LeaseStoreProofs

(* The reader's place, its clock reading and its report.                   *)
Reading ==
  /\ late \in Nat
  /\ unexpired \in BOOLEAN
  /\ rpc \in {"idle", "holder"} => report = "none"

(* What the expiry on disk tells a reader that has read the clock but not  *)
(* yet the file: whatever is written to it since, an expiry behind that    *)
(* reading means that the key has been without a live lease.               *)
FreeInv ==
  /\ Reading
  /\ rpc = "holder" /\ ~unexpired => FALSE \in saw
  /\ WaitSawFree
  /\ HolderKept

(* An expiry ahead of it means that the key has been leased.               *)
HeldInv ==
  /\ Reading
  /\ rpc = "holder" /\ unexpired => TRUE \in saw
  /\ HeldWasSeen

(* Every step of the whole is one of the store, or none of it.             *)
LEMMA StoreStep == [ReadersNext]_readersVars => [Next]_vars
<1> SUFFICES ASSUME [ReadersNext]_readersVars PROVE [Next]_vars
  OBVIOUS
<1>1. CASE Look \/ ReadHolder \/ ReadHolderFails \/ ReadDir \/ ReadDirFails \/ Show \/ Done
  BY <1>1 DEF Look, ReadHolder, ReadHolderFails, ReadDir, ReadDirFails, Show, Done
<1>2. ASSUME NEW q \in Proc, ReadEntry(q) PROVE [Next]_vars
  BY <1>2 DEF ReadEntry
<1>3. CASE Store
  BY <1>3 DEF Store, Next
<1>4. CASE TimePasses
  BY <1>4 DEF TimePasses, Next
<1>5. CASE UNCHANGED readersVars
  BY <1>5 DEF readersVars
<1> QED BY <1>1, <1>2, <1>3, <1>4, <1>5 DEF ReadersNext

(* The readers disturb nothing.                                            *)
THEOREM ReadersKeepStore == ReadersSpec => Spec
<1>1. ReadersInit => Init
  BY DEF ReadersInit
<1> QED BY <1>1, StoreStep, PTL DEF ReadersSpec, Spec

(* A key without a holder.json has no live lease.                          *)
UnheldIsFree == token = NoProc => left = 0

(* It stays so: who removes the file ends the lease or finds it expired.   *)
LEMMA UnheldStaysFree == Spec => []UnheldIsFree
<1>1. Init => UnheldIsFree
  BY DEF Init, UnheldIsFree
<1>2. TypeOK /\ UnheldIsFree /\ [Next]_vars => UnheldIsFree'
  <2> SUFFICES ASSUME TypeOK, UnheldIsFree, [Next]_vars PROVE UnheldIsFree'
    OBVIOUS
  <2> USE StoreAssumption DEF UnheldIsFree, TypeOK, disk
  <2>1. CASE UNCHANGED <<token, left>>
    BY <2>1
  <2>2. ASSUME NEW p \in Proc, Attempt(p) PROVE UnheldIsFree'
    <3>1. CASE Write(p)
      BY <3>1 DEF Write
    <3>2. CASE FindHeld(p) \/ Enter(p) \/ Scan(p) \/ Finish(p) \/ Fail(p) \/ GuardTimeout(p)
      BY <2>1, <3>2 DEF FindHeld, Enter, Scan, Finish, Fail, GuardTimeout
    <3> QED BY <2>2, <3>1, <3>2 DEF Attempt
  <2>3. ASSUME NEW p \in Proc, Wait(p) PROVE UnheldIsFree'
    BY <2>1, <2>3
       DEF Wait, Start, GiveUp, Stamp, Enqueue, Heartbeat, Timeout, Interrupt, Leave, Wake
  <2>4. ASSUME NEW p \in Proc, Hold(p) PROVE UnheldIsFree'
    BY <2>1, <2>4 DEF Hold, Renew, Reclaim, Lose, Release
  <2>5. ASSUME NEW p \in Proc, Die(p) PROVE UnheldIsFree'
    BY <2>1, <2>5 DEF Die, Crash, ReusePID, FreePID
  <2>6. CASE ForceRelease
    BY <2>6 DEF ForceRelease
  <2>7. CASE Prune
    BY <2>1, <2>7 DEF Prune, PruneEnter, PruneJudge, Judge, PruneRemove, PruneExit
  <2>8. CASE Tick
    BY <2>8 DEF Tick, Countdown
  <2>9. CASE UNCHANGED vars
    BY <2>1, <2>9 DEF vars
  <2> QED BY <2>2, <2>3, <2>4, <2>5, <2>6, <2>7, <2>8, <2>9 DEF Next
<1> QED BY <1>1, <1>2, TypeCorrect, PTL DEF Spec

(* The section that writes has a sane clock and a session's --ttl.         *)
LEMMA WriteSteps ==
  ASSUME TypeOK, NEW p \in Proc, Write(p)
  PROVE  /\ guard = p /\ TTL[p] \in Nat /\ lag \in 0..SectionMax
         /\ left' = IF TTL[p] > lag THEN TTL[p] - lag ELSE 0
  BY StoreAssumption DEF StoreAssumption, TypeOK, Write, In

(* The reader's variables keep their ranges.                               *)
LEMMA ReadingStep ==
  ASSUME Reading, TypeOK, [ReadersNext]_readersVars
  PROVE  Reading'
<1> USE DEF Reading
<1>1. CASE Look
  BY <1>1 DEF Look, Leased
<1>2. CASE ReadHolder
  BY <1>2 DEF ReadHolder
<1>3. CASE ReadHolderFails \/ ReadDir
  BY <1>3 DEF ReadHolderFails, ReadDir
<1>9. CASE ReadDirFails \/ Show
  <2>1. late' = 0 /\ UNCHANGED unexpired /\ rpc' \in {"failed", "shown"}
    BY <1>9 DEF ReadDirFails, Show
  <2> QED BY <2>1
<1>4. CASE Done
  BY <1>4 DEF Done
<1>5. ASSUME NEW q \in Proc, ReadEntry(q) PROVE Reading'
  BY <1>5 DEF ReadEntry
<1>6. CASE Store
  <2>1. UNCHANGED <<rpc, late, report>>
    BY <1>6 DEF Store, answer
  <2>2. unexpired' \in BOOLEAN
    <3>1. (TTL[guard] - lag + late > 0) \in BOOLEAN
      OBVIOUS
    <3> QED BY <1>6, <3>1 DEF Store
  <2> QED BY <2>1, <2>2
<1>7. CASE TimePasses
  BY <1>7 DEF TimePasses, answer
<1>8. CASE UNCHANGED readersVars
  BY <1>8 DEF readersVars, answer
<1> QED BY <1>1, <1>2, <1>3, <1>4, <1>5, <1>6, <1>7, <1>8, <1>9 DEF ReadersNext

(* A step of the store or of time while a reader is at work: what the      *)
(* reader will make of the file may change, to "expired" only if the key   *)
(* is free then.                                                           *)
LEMMA WorldStep ==
  ASSUME Reading, TypeOK, Store \/ TimePasses
  PROVE  /\ UNCHANGED <<rpc, report>>
         /\ saw \subseteq saw'
         /\ rpc = "holder" /\ ~unexpired' => ~unexpired \/ FALSE \in saw'
<1>1. CASE TimePasses
  BY <1>1 DEF TimePasses, answer, Witness, WitnessBut
<1>2. CASE Store
  <2>1. UNCHANGED <<rpc, report>> /\ saw \subseteq saw'
    BY <1>2 DEF Store, answer, Witness, WitnessBut
  <2>2. ASSUME rpc = "holder", unexpired, ~unexpired' PROVE FALSE \in saw'
    <3>1. (\E p \in Proc : Write(p)) /\ ~(TTL[guard] - lag + late > 0) /\ Witness
      BY <1>2, <2>2 DEF Store
    <3>2. PICK p \in Proc : Write(p)
      BY <3>1
    <3>3. /\ guard = p /\ TTL[p] \in Nat /\ lag \in 0..SectionMax
          /\ left' = IF TTL[p] > lag THEN TTL[p] - lag ELSE 0
      BY <3>2, WriteSteps
    <3>4. ~(TTL[p] > lag)
      BY <3>1, <3>3, StoreAssumption DEF StoreAssumption, Reading
    <3>5. left' = 0
      BY <3>3, <3>4
    <3>6. Leased' = FALSE
      BY <3>5 DEF Leased
    <3> QED BY <3>1, <3>6 DEF Witness, WitnessBut
  <2> QED BY <2>1, <2>2, <1>2 DEF Reading
<1> QED BY <1>1, <1>2

(* All steps keep what a reader may conclude of a key without a lease.     *)
LEMMA FreeStep ==
  ASSUME FreeInv, TypeOK, UnheldIsFree', [ReadersNext]_readersVars
  PROVE  FreeInv'
<1>0. Reading'
  BY ReadingStep DEF FreeInv
<1> USE DEF FreeInv, WaitSawFree, HolderKept
<1>1. CASE Look
  <2>1. /\ rpc' = "holder" /\ unexpired' = Leased /\ saw' = {Leased} /\ report' = "none"
    BY <1>1 DEF Look
  <2>2. Leased \in BOOLEAN
    BY DEF Leased
  <2> QED BY <1>0, <2>1, <2>2
<1>2. CASE ReadHolder
  <2>1. /\ rpc = "holder" /\ rpc' = "dir" /\ report' = Judged
        /\ UNCHANGED vars
        /\ saw' = saw \cup {Leased'}
    BY <1>2 DEF ReadHolder, Witness, WitnessBut
  <2>2. CASE token = NoProc
    <3>1. left' = 0
      BY <2>1, <2>2 DEF UnheldIsFree, vars, disk
    <3>2. Leased' = FALSE
      BY <3>1 DEF Leased
    <3> QED BY <1>0, <2>1, <3>2
  <2>3. CASE token # NoProc /\ unexpired
    <3>1. Judged = "held"
      BY <2>3 DEF Judged
    <3> QED BY <1>0, <2>1, <3>1
  <2>4. CASE token # NoProc /\ ~unexpired
    BY <1>0, <2>1, <2>4
  <2> QED BY <2>2, <2>3, <2>4
<1>3. CASE ReadHolderFails \/ ReadDir \/ Show
  BY <1>0, <1>3 DEF ReadHolderFails, ReadDir, Show, answer, Witness, WitnessBut
<1>4. CASE ReadDirFails
  BY <1>0, <1>4 DEF ReadDirFails, Witness, WitnessBut
<1>5. ASSUME NEW q \in Proc, ReadEntry(q) PROVE FreeInv'
  BY <1>0, <1>5 DEF ReadEntry, Witness, WitnessBut
<1>6. CASE Done
  BY <1>0, <1>6 DEF Done
<1>7. CASE Store \/ TimePasses
  <2>1. /\ UNCHANGED <<rpc, report>>
        /\ saw \subseteq saw'
        /\ rpc = "holder" /\ ~unexpired' => ~unexpired \/ FALSE \in saw'
    BY <1>7, WorldStep
  <2> QED BY <1>0, <2>1
<1>8. CASE UNCHANGED readersVars
  BY <1>0, <1>8 DEF readersVars, answer
<1> QED BY <1>1, <1>2, <1>3, <1>4, <1>5, <1>6, <1>7, <1>8 DEF ReadersNext

(* So they hold in every state.                                            *)
LEMMA FreeInvHolds == ReadersSpec => []FreeInv
<1>1. ReadersInit => FreeInv
  <2> SUFFICES ASSUME ReadersInit PROVE FreeInv
    OBVIOUS
  <2>1. Reading
    BY DEF ReadersInit, Reading
  <2> QED BY <2>1 DEF ReadersInit, FreeInv, WaitSawFree, HolderKept
<1>2. FreeInv /\ TypeOK /\ UnheldIsFree' /\ [ReadersNext]_readersVars => FreeInv'
  BY FreeStep
<1>3. ReadersSpec => []TypeOK /\ []UnheldIsFree
  BY ReadersKeepStore, TypeCorrect, UnheldStaysFree, PTL
<1> QED BY <1>1, <1>2, <1>3, PTL DEF ReadersSpec

(* Whoever waits for a key and is told that it is free may count on it     *)
(* that it was, while the answer was made.                                 *)
THEOREM WaitIsRight == ReadersSpec => []WaitSawFree
<1>1. FreeInv => WaitSawFree
  BY DEF FreeInv
<1> QED BY <1>1, FreeInvHolds, PTL

(* A queue that cannot be read hides no lease.                             *)
THEOREM HolderIsKept == ReadersSpec => []HolderKept
<1>1. FreeInv => HolderKept
  BY DEF FreeInv
<1> QED BY <1>1, FreeInvHolds, PTL

-----------------------------------------------------------------------------
(* A lease that is reported was there.  A section that writes a lease it   *)
(* has already used up would be reported to a reader with an older clock,  *)
(* so this needs sections shorter than the leases.                         *)

ShortSections == \A p \in Proc : SectionMax < TTL[p]

(* All steps keep what a reader may conclude of a leased key.              *)
LEMMA HeldStep ==
  ASSUME ShortSections, HeldInv, TypeOK, [ReadersNext]_readersVars
  PROVE  HeldInv'
<1>0. Reading'
  BY ReadingStep DEF HeldInv
<1> USE DEF HeldInv, HeldWasSeen
<1>1. CASE Look
  <2>1. /\ rpc' = "holder" /\ unexpired' = Leased /\ saw' = {Leased} /\ report' = "none"
    BY <1>1 DEF Look
  <2>2. Leased \in BOOLEAN
    BY DEF Leased
  <2> QED BY <1>0, <2>1, <2>2
<1>2. CASE ReadHolder
  <2>1. /\ rpc = "holder" /\ rpc' = "dir" /\ report' = Judged /\ saw \subseteq saw'
    BY <1>2 DEF ReadHolder, Witness, WitnessBut
  <2>2. Judged = "held" => unexpired
    BY DEF Judged
  <2> QED BY <1>0, <2>1, <2>2
<1>3. CASE ReadHolderFails \/ ReadDir \/ Show
  BY <1>0, <1>3 DEF ReadHolderFails, ReadDir, Show, answer, Witness, WitnessBut
<1>4. CASE ReadDirFails
  BY <1>0, <1>4 DEF ReadDirFails, Witness, WitnessBut
<1>5. ASSUME NEW q \in Proc, ReadEntry(q) PROVE HeldInv'
  BY <1>0, <1>5 DEF ReadEntry, Witness, WitnessBut
<1>6. CASE Done
  BY <1>0, <1>6 DEF Done
<1>7. CASE Store \/ TimePasses
  <2>1. UNCHANGED <<rpc, report>> /\ saw \subseteq saw'
    BY <1>7, WorldStep
  <2>2. ASSUME rpc = "holder", ~unexpired, unexpired' PROVE TRUE \in saw'
    <3>1. (\E p \in Proc : Write(p)) /\ Witness
      BY <1>7, <2>2 DEF Store, TimePasses
    <3>2. PICK p \in Proc : Write(p)
      BY <3>1
    <3>3. /\ guard = p /\ TTL[p] \in Nat /\ lag \in 0..SectionMax
          /\ left' = IF TTL[p] > lag THEN TTL[p] - lag ELSE 0
      BY <3>2, WriteSteps
    <3>4. left' > 0
      BY <3>3, StoreAssumption DEF StoreAssumption, ShortSections
    <3>5. Leased' = TRUE
      BY <3>4 DEF Leased
    <3> QED BY <3>1, <3>5 DEF Witness, WitnessBut
  <2> QED BY <1>0, <2>1, <2>2
<1>8. CASE UNCHANGED readersVars
  BY <1>0, <1>8 DEF readersVars, answer
<1> QED BY <1>1, <1>2, <1>3, <1>4, <1>5, <1>6, <1>7, <1>8 DEF ReadersNext

(* A key is only reported held if it was leased while the answer was made. *)
THEOREM HeldIsRight ==
  ASSUME ShortSections
  PROVE  ReadersSpec => []HeldWasSeen
<1>1. ReadersInit => HeldInv
  <2> SUFFICES ASSUME ReadersInit PROVE HeldInv
    OBVIOUS
  <2>1. Reading
    BY DEF ReadersInit, Reading
  <2> QED BY <2>1 DEF ReadersInit, HeldInv, HeldWasSeen
<1>2. HeldInv /\ TypeOK /\ [ReadersNext]_readersVars => HeldInv'
  BY HeldStep
<1>3. HeldInv => HeldWasSeen
  BY DEF HeldInv
<1>4. ReadersSpec => []TypeOK
  BY ReadersKeepStore, TypeCorrect, PTL
<1> QED BY <1>1, <1>2, <1>3, <1>4, PTL DEF ReadersSpec

-----------------------------------------------------------------------------
(* The waiters in the answer                                               *)

(* The reader's variables keep their types: what has been listed is not    *)
(* looked at again, and nothing is listed before the directory is read.    *)
LEMMA ReadersTypeStep ==
  ASSUME ReadersTypeOK, TypeOK, [ReadersNext]_readersVars
  PROVE  ReadersTypeOK'
<1> USE ReadersAssumption DEF ReadersTypeOK, Answered, answer
<1>0. Leased \in BOOLEAN /\ Leased' \in BOOLEAN
  BY DEF Leased
<1>1. \A m : Witness \/ WitnessBut(m) => saw' \in SUBSET BOOLEAN /\ stayed' \in SUBSET Proc
  BY <1>0 DEF Witness, WitnessBut
<1>2. CASE Look
  <2>1. Prompt \in SUBSET Proc
    BY DEF Prompt
  <2> QED BY <1>0, <1>2, <2>1 DEF Look
<1>3. CASE ReadHolder \/ ReadHolderFails
  BY <1>1, <1>3 DEF ReadHolder, ReadHolderFails, Judged
<1>4. CASE ReadDir
  BY <1>1, <1>4 DEF ReadDir, TypeOK
<1>5. CASE ReadDirFails \/ Show
  BY <1>1, <1>5 DEF ReadDirFails, Show
<1>6. ASSUME NEW q \in Proc, ReadEntry(q) PROVE ReadersTypeOK'
  BY <1>1, <1>6 DEF ReadEntry
<1>7. CASE Done
  BY <1>7 DEF Done
<1>8. CASE Store
  <2>1. UNCHANGED <<rpc, late, report, names, listed>>
    BY <1>8 DEF Store
  <2>2. (TTL[guard] - lag + late > 0) \in BOOLEAN
    OBVIOUS
  <2>3. unexpired' \in BOOLEAN
    BY <1>8, <2>2 DEF Store
  <2>4. saw' \in SUBSET BOOLEAN /\ stayed' \in SUBSET Proc
    BY <1>1, <1>8 DEF Store
  <2> QED BY <2>1, <2>3, <2>4
<1>9. CASE TimePasses
  <2>1. UNCHANGED <<rpc, unexpired, report, names, listed>>
    BY <1>9 DEF TimePasses
  <2>2. late' \in 0..ReadMax
    BY <1>9 DEF TimePasses
  <2>3. saw' \in SUBSET BOOLEAN /\ stayed' \in SUBSET Proc
    BY <1>1, <1>9 DEF TimePasses
  <2> QED BY <2>1, <2>2, <2>3
<1>10. CASE UNCHANGED readersVars
  BY <1>10 DEF readersVars
<1> QED BY <1>2, <1>3, <1>4, <1>5, <1>6, <1>7, <1>8, <1>9, <1>10 DEF ReadersNext

(* ReadersTypeOK: the types of the reader, for any sessions and bounds.    *)
THEOREM ReadersTypeCorrect == ReadersSpec => []ReadersTypeOK
<1>1. ReadersInit => ReadersTypeOK
  <2> SUFFICES ASSUME ReadersInit PROVE ReadersTypeOK
    OBVIOUS
  <2>1. late \in 0..ReadMax
    BY ReadersAssumption DEF ReadersInit
  <2> QED BY <2>1 DEF ReadersInit, ReadersTypeOK, Answered
<1>2. ReadersTypeOK /\ TypeOK /\ [ReadersNext]_readersVars => ReadersTypeOK'
  BY ReadersTypeStep
<1>3. ReadersSpec => []TypeOK
  BY ReadersKeepStore, TypeCorrect, PTL
<1> QED BY <1>1, <1>2, <1>3, PTL DEF ReadersSpec

(* Who was there all along is there now, and once the names are read is    *)
(* among them or listed already.                                           *)
CompleteInv ==
  /\ stayed \subseteq Prompt
  /\ rpc = "idle" => stayed = {}
  /\ rpc \in {"entries", "shown"} => stayed \subseteq names \cup listed
  /\ rpc = "shown" => names = {}

(* Every step keeps it: time cannot make the entry of a prompt waiter      *)
(* stale to a reader, whose clock reading is old if anything.              *)
LEMMA CompleteStep ==
  ASSUME CompleteInv, ReadersTypeOK, TypeOK, SlotInv, [ReadersNext]_readersVars
  PROVE  CompleteInv'
<1> USE DEF CompleteInv, answer
<1>1. Witness => stayed' \subseteq stayed /\ stayed' \subseteq Prompt'
  BY DEF Witness, WitnessBut
<1>2. UNCHANGED vars => Prompt' = Prompt
  BY DEF vars, disk, session, Prompt, Waiting
<1>3. CASE Look
  BY <1>2, <1>3 DEF Look
<1>4. CASE ReadHolder \/ ReadHolderFails \/ ReadDirFails \/ Show
  BY <1>1, <1>4 DEF ReadHolder, ReadHolderFails, ReadDirFails, Show
<1>5. CASE ReadDir
  <2>1. /\ stayed' \subseteq Prompt' /\ Prompt' = Prompt /\ names' = queue
        /\ rpc' = "entries"
    BY <1>1, <1>2, <1>5 DEF ReadDir
  <2>2. Prompt \subseteq queue
    BY DEF Prompt
  <2> QED BY <2>1, <2>2
<1>6. ASSUME NEW q \in Proc, ReadEntry(q) PROVE CompleteInv'
  <2>1. /\ stayed' \subseteq stayed /\ stayed' \subseteq Prompt'
        /\ rpc = "entries" /\ names' = names \ {q} /\ listed \subseteq listed'
        /\ rpc' = "entries"
    BY <1>6 DEF ReadEntry, Witness, WitnessBut
  <2>2. q \in stayed' => q \in listed'
    <3> SUFFICES ASSUME q \in stayed' PROVE q \in listed'
      OBVIOUS
    <3>1. listed' = IF q \in queue /\ FreshTo(q, late) THEN listed \cup {q} ELSE listed
      BY <1>6 DEF ReadEntry, WitnessBut
    <3>2. q \in queue \ Starvable /\ Waiting(q)
      BY <2>1 DEF Prompt
    <3>3. late \in Nat
      BY ReadersAssumption DEF ReadersTypeOK
    <3>4. FreshTo(q, late)
      BY <3>2, <3>3, PromptIsFresh
    <3> QED BY <3>1, <3>2, <3>4
  <2> QED BY <2>1, <2>2
<1>7. CASE Done
  BY <1>7 DEF Done
<1>8. CASE Store \/ TimePasses
  <2>1. UNCHANGED <<rpc, names, listed>>
    BY <1>8 DEF Store, TimePasses
  <2>2. CASE rpc = "idle"
    BY <1>8, <2>1, <2>2 DEF Store, TimePasses
  <2>3. CASE rpc # "idle"
    BY <1>1, <1>8, <2>1, <2>3 DEF Store, TimePasses
  <2> QED BY <2>2, <2>3
<1>9. CASE UNCHANGED readersVars
  BY <1>2, <1>9 DEF readersVars
<1> QED BY <1>3, <1>4, <1>5, <1>6, <1>7, <1>8, <1>9 DEF ReadersNext

(* StatusComplete: a waiter that kept its entry and its heartbeat all      *)
(* through the call, and whose entry did not fail to be read, is in the    *)
(* answer, for any sessions, windows, stalls and duration of the call.     *)
THEOREM NobodyIsMissed == ReadersSpec => []StatusComplete
<1>1. ReadersInit => CompleteInv
  BY DEF ReadersInit, CompleteInv
<1>2. CompleteInv /\ ReadersTypeOK /\ TypeOK /\ SlotInv /\ [ReadersNext]_readersVars
        => CompleteInv'
  BY CompleteStep
<1>3. ReadersSpec => []TypeOK /\ []QueueInv
  BY ReadersKeepStore, TypeCorrect, QueueCorrect, PTL
<1>4. QueueInv => SlotInv
  BY DEF QueueInv
<1>5. CompleteInv => StatusComplete
  BY DEF CompleteInv, StatusComplete
<1> QED BY <1>1, <1>2, <1>3, <1>4, <1>5, ReadersTypeCorrect, PTL DEF ReadersSpec
=============================================================================
