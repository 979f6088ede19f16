------------------------------ MODULE WinGuard ------------------------------
(***************************************************************************)
(* The per-key mutation guard on Windows (internal/mutex/guard_windows.go):*)
(* a marker file that is created exclusively, reclaimed by a rename once   *)
(* it is stale, and removed by its owner after a look at its contents.     *)
(* What the guard protects, the sections of LeaseStore, is one state here. *)
(*                                                                         *)
(* A marker is named by the call that created it; one whose call is over,  *)
(* because the process died or could not remove it, is an Orphan.  A file  *)
(* that is open cannot be renamed or removed on Windows: that is a marker  *)
(* whose creator is still writing it.                                      *)
(***************************************************************************)
EXTENDS Integers

CONSTANTS Proc,        \* the processes that ask for the guard
          Faulty,      \* those that may crash, or fail to remove their marker
          StaleAfter,  \* guardStaleAfter
          AcquireMax,  \* guardAcquireMax
          StallMax,    \* bound: how old a live process lets its marker get
          NoMarker, Orphan

ASSUME WinGuardAssumption ==
  /\ Faulty \subseteq Proc
  /\ StaleAfter \in Nat
  /\ AcquireMax \in Nat
  /\ StallMax \in 0..(StaleAfter + 1)
  /\ NoMarker \notin Proc
  /\ Orphan \notin Proc
  /\ NoMarker # Orphan

VARIABLES
  marker,   \* the .excl file: whose it is
  age,      \* now - its mtime, up to StaleAfter + 1
  pc,       \* where each call of lockGuard and its release is
  waited,   \* how long the call has been polling, up to AcquireMax + 1
  overdue   \* ghost: some marker has outlived StaleAfter or its call

vars == <<marker, age, pc, waited, overdue>>

-----------------------------------------------------------------------------

(* Mutation: a marker exactly guardStaleAfter old counts as stale.         *)
Stale_Loose == age >= StaleAfter

(* Mutation: a marker is never stale.                                      *)
Stale_Never == FALSE

Stale == age > StaleAfter

(* The creator has not closed the marker yet.                              *)
Open == marker \in Proc /\ pc[marker] = "write"

(* A marker that nobody will remove any more.                              *)
Abandon(p) ==
  /\ marker' = IF marker = p THEN Orphan ELSE marker
  /\ overdue' = (overdue \/ marker = p)

Call(p) ==
  /\ pc[p] = "idle"
  /\ pc' = [pc EXCEPT ![p] = "create"]
  /\ waited' = [waited EXCEPT ![p] = 0]
  /\ UNCHANGED <<marker, age, overdue>>

(* The O_EXCL create: the marker is there or is ours.                      *)
Create(p) ==
  /\ pc[p] = "create"
  /\ \/ /\ marker = NoMarker
        /\ marker' = p
        /\ age' = 0
        /\ pc' = [pc EXCEPT ![p] = "write"]
     \/ /\ marker # NoMarker
        /\ pc' = [pc EXCEPT ![p] = "stat"]
        /\ UNCHANGED <<marker, age>>
  /\ UNCHANGED <<waited, overdue>>

(* The identity is written and the marker closed; after an error it is     *)
(* removed, by its path.                                                   *)
Write(p) ==
  /\ pc[p] = "write"
  /\ age' = 0
  /\ pc' \in {[pc EXCEPT ![p] = "section"], [pc EXCEPT ![p] = "remove"]}
  /\ UNCHANGED <<marker, waited, overdue>>

(* Mutation: markers are never found stale.                                *)
FindStale_Never(p) ==
  /\ pc[p] = "stat"
  /\ FALSE
  /\ UNCHANGED vars

FindStale(p) ==
  /\ pc[p] = "stat"
  /\ marker # NoMarker
  /\ Stale
  /\ pc' = [pc EXCEPT ![p] = "rename"]
  /\ UNCHANGED <<marker, age, waited, overdue>>

(* The marker is young, or has gone between the create and the stat.       *)
Young == marker = NoMarker \/ ~Stale

Poll(p) ==
  /\ pc[p] = "stat"
  /\ Young
  /\ waited[p] <= AcquireMax
  /\ pc' = [pc EXCEPT ![p] = "create"]
  /\ UNCHANGED <<marker, age, waited, overdue>>

(* Mutation: the deadline is not looked at.                                *)
GiveUp_Never(p) ==
  /\ pc[p] = "stat"
  /\ Young
  /\ waited[p] > AcquireMax
  /\ pc' = [pc EXCEPT ![p] = "create"]
  /\ UNCHANGED <<marker, age, waited, overdue>>

GiveUp(p) ==
  /\ pc[p] = "stat"
  /\ Young
  /\ waited[p] > AcquireMax
  /\ pc' = [pc EXCEPT ![p] = "idle"]
  /\ UNCHANGED <<marker, age, waited, overdue>>

(* Whatever marker is there now is renamed away and deleted, if it is not  *)
(* open and the rename does not fail; in any case the create is tried      *)
(* again, without a look at the deadline.                                  *)
Rename(p) ==
  /\ pc[p] = "rename"
  /\ marker' \in IF Open THEN {marker} ELSE {marker, NoMarker}
  /\ pc' = [pc EXCEPT ![p] = "create"]
  /\ UNCHANGED <<age, waited, overdue>>

(* release reads the marker: only its own it goes on to remove.            *)
Verify(p) ==
  /\ pc[p] = "section"
  /\ pc' = [pc EXCEPT ![p] = IF marker = p THEN "remove" ELSE "idle"]
  /\ UNCHANGED <<marker, age, waited, overdue>>

(* The removal by path takes whatever marker is there by now.              *)
Remove(p) ==
  /\ pc[p] = "remove"
  /\ marker' = IF Open THEN marker ELSE NoMarker
  /\ pc' = [pc EXCEPT ![p] = "idle"]
  /\ UNCHANGED <<age, waited, overdue>>

(* The process dies in the call or in its section, its create fails with   *)
(* an error that is not contention, or its release cannot read or remove   *)
(* the marker.                                                             *)
Fail(p) ==
  /\ p \in Faulty
  /\ pc[p] # "idle"
  /\ pc' = [pc EXCEPT ![p] = "idle"]
  /\ Abandon(p)
  /\ UNCHANGED <<age, waited>>

Waiting(p) == pc[p] \in {"create", "stat", "rename"}

Tick ==
  /\ marker \in Proc => age < StallMax
  /\ age' = IF marker # NoMarker /\ ~Stale THEN age + 1 ELSE age
  /\ waited' = [p \in Proc |-> IF Waiting(p) /\ waited[p] <= AcquireMax
                               THEN waited[p] + 1 ELSE waited[p]]
  /\ overdue' = (overdue \/ (marker \in Proc /\ age = StaleAfter))
  /\ UNCHANGED <<marker, pc>>

Init ==
  /\ marker = NoMarker
  /\ age = 0
  /\ pc = [p \in Proc |-> "idle"]
  /\ waited = [p \in Proc |-> 0]
  /\ overdue = FALSE

Step(p) ==
  \/ Create(p) \/ Write(p) \/ FindStale(p) \/ Poll(p) \/ GiveUp(p) \/ Rename(p)
  \/ Verify(p) \/ Remove(p)

Next == (\E p \in Proc : Call(p) \/ Step(p) \/ Fail(p)) \/ Tick

Spec == Init /\ [][Next]_vars

(* A process that does not die runs on, and time passes.                   *)
Fairness ==
  /\ \A p \in Proc : WF_vars(Step(p))
  /\ WF_vars(Tick)

FairSpec == Spec /\ Fairness

-----------------------------------------------------------------------------

TypeOK ==
  /\ marker \in Proc \cup {NoMarker, Orphan}
  /\ age \in 0..(StaleAfter + 1)
  /\ pc \in [Proc -> {"idle", "create", "write", "stat", "rename", "section", "remove"}]
  /\ waited \in [Proc -> 0..(AcquireMax + 1)]
  /\ overdue \in BOOLEAN

Inside(p) == pc[p] \in {"write", "section"}

(* GuardExcludes: until a marker outlives guardStaleAfter or its own call, *)
(* no two processes are inside their sections at once, however creates,    *)
(* stats, renames and releases interleave (lockGuard).                     *)
GuardExcludes ==
  ~overdue => \A p, q \in Proc : Inside(p) /\ Inside(q) => p = q

(* OwnerInv: until then the marker there is the live one of the only call  *)
(* past its create, and nobody goes on to reclaim.  It is inductive.       *)
OwnerInv ==
  ~overdue =>
    /\ marker # Orphan
    /\ marker \in Proc => ~Stale
    /\ \A p \in Proc :
         /\ pc[p] \in {"write", "section", "remove"} => marker = p
         /\ pc[p] # "rename"

(* CallEnds: a call of lockGuard gets the guard or reports a timeout       *)
(* (guardAcquireMax), or else it finds stale markers for ever: there is no *)
(* other way past the deadline than the `continue` of the reclaim, however *)
(* processes die, stall and take each other's markers.                     *)
CallEnds ==
  \A p \in Proc : (pc[p] = "create" ~> ~Waiting(p)) \/ []<><<FindStale(p)>>_vars

(* OrphanGoes: the marker of a dead process does not block the key for     *)
(* ever (guard_windows.go:22-25), as long as somebody asks for the guard,  *)
(* if the faults and the failing renames come to an end.                   *)
Mended == <>[][\A p \in Proc : ~Fail(p) /\ (Rename(p) => marker' # Orphan)]_vars

OrphanGoes ==
  Mended /\ []<>(\E p \in Proc : Waiting(p)) => []<>(marker # Orphan)

(* LiveMarkerStays: neither a reclaim nor a release takes away another's   *)
(* marker that is not stale (DESIGN.md:53-55: "a raced reclaim can neither *)
(* delete a live marker nor be deleted by the stale holder it displaced"). *)
LiveMarkerStays ==
  [][\A p \in Proc :
       (Rename(p) \/ Remove(p)) /\ marker \in Proc \ {p} /\ ~Stale => marker' = marker]_vars
=============================================================================
