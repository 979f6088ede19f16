------------------------------ MODULE Readers ------------------------------
(***************************************************************************)
(* The guard-free readers of a key beside everything that LeaseStore does  *)
(* to it: Status, in the steps other processes can fall between, and what  *)
(* the commands make of its answer (`status`, `wait`, the dry run of       *)
(* `force-release`, the waiters ahead in describeBlock).  Status reads the *)
(* clock, then holder.json, then the names in the queue directory, then    *)
(* one entry after the other.                                              *)
(***************************************************************************)
EXTENDS LeaseStore

CONSTANT ReadMax   \* bound: ticks that may pass inside one Status

ASSUME ReadersAssumption == ReadMax \in Nat

VARIABLES
  rpc,        \* where the reader is
  late,       \* the time since it read the clock
  unexpired,  \* holder.json's ExpiresAt lies after that reading
  report,     \* the state it reports
  names,      \* the entries it has still to look at
  listed,     \* the entries it has found fresh
  saw,        \* ghost: whether the key was leased, at the instants of the call
  stayed      \* ghost: prompt waiters with an entry, readable, all through it

answer == <<report, names, listed>>

readersVars == <<vars, rpc, late, unexpired, answer, saw, stayed>>

Leased == left > 0

Prompt == {p \in Proc \ Starvable : Waiting(p) /\ p \in queue}

(* Status has returned, with the queue or without.                         *)
Answered == {"shown", "failed"}

ReadersTypeOK ==
  /\ rpc \in {"idle", "holder", "dir", "entries"} \cup Answered
  /\ late \in 0..ReadMax
  /\ unexpired \in BOOLEAN
  /\ report \in {"none", "free", "held", "expired", "corrupt", "unreadable"}
  /\ names \in SUBSET Proc
  /\ listed \in SUBSET Proc
  /\ saw \in SUBSET BOOLEAN
  /\ stayed \in SUBSET Proc
  /\ names \cap listed = {}
  /\ rpc \in {"holder", "dir", "failed"} => names \cup listed = {}

ReadersInit ==
  /\ Init
  /\ rpc = "idle"
  /\ late = 0
  /\ unexpired = FALSE
  /\ report = "none"
  /\ names = {}
  /\ listed = {}
  /\ saw = {}
  /\ stayed = {}

-----------------------------------------------------------------------------
(* Status                                                                  *)

(* What happens to the key during a call, where waiters are missed.        *)
WitnessBut(missed) ==
  /\ saw' = saw \cup {Leased'}
  /\ stayed' = (stayed \cap Prompt') \ missed

Witness == WitnessBut({})

(* Mutation: the next poll adds to the answer of the last one.             *)
Look_Adds ==
  /\ rpc = "idle" \/ (rpc \in Answered /\ report = "held")
  /\ rpc' = "holder"
  /\ late' = 0
  /\ unexpired' = Leased
  /\ report' = "none"
  /\ saw' = {Leased}
  /\ stayed' = Prompt
  /\ UNCHANGED <<vars, names, listed>>

(* A new call, of a command or of the next poll of `wait`: now := clock.   *)
Look ==
  /\ rpc = "idle" \/ (rpc \in Answered /\ report = "held")
  /\ rpc' = "holder"
  /\ late' = 0
  /\ unexpired' = Leased
  /\ report' = "none"
  /\ names' = {}
  /\ listed' = {}
  /\ saw' = {Leased}
  /\ stayed' = Prompt
  /\ UNCHANGED vars

(* Mutation: a lease on record counts as held, expired or not.             *)
Judged_NoExpiry == IF token = NoProc THEN "free" ELSE "held"

(* Mutation: a lease counts as expired in the unit before its expiry.      *)
Judged_Early ==
  IF token = NoProc THEN "free" ELSE IF unexpired /\ left > 1 THEN "held" ELSE "expired"

Judged ==
  IF token = NoProc THEN "free" ELSE IF unexpired THEN "held" ELSE "expired"

ReadHolder ==
  /\ rpc = "holder"
  /\ report' = Judged
  /\ rpc' = "dir"
  /\ unexpired' = FALSE
  /\ UNCHANGED <<vars, late, names, listed>>
  /\ Witness

(* holder.json cannot be read or parsed: the answer is "unreadable" or     *)
(* "corrupt", told apart here from a queue that cannot be read.            *)
ReadHolderFails ==
  /\ rpc = "holder"
  /\ report' = "corrupt"
  /\ rpc' = "dir"
  /\ unexpired' = FALSE
  /\ UNCHANGED <<vars, late, names, listed>>
  /\ Witness

ReadDir ==
  /\ rpc = "dir"
  /\ names' = queue
  /\ rpc' = "entries"
  /\ UNCHANGED <<vars, late, unexpired, report, listed>>
  /\ Witness

(* Mutation: an unreadable queue discards the holder that was read.        *)
ReadDirFails_Discards ==
  /\ rpc = "dir"
  /\ report' = "unreadable"
  /\ rpc' = "failed"
  /\ late' = 0
  /\ UNCHANGED <<vars, unexpired, names, listed>>
  /\ Witness

(* The queue cannot be read: the report is of the holder, if there is one. *)
ReadDirFails ==
  /\ rpc = "dir"
  /\ report' = IF report = "free" THEN "unreadable" ELSE report
  /\ rpc' = "failed"
  /\ late' = 0
  /\ UNCHANGED <<vars, unexpired, names, listed>>
  /\ Witness

(* Mutation: an entry exactly as old as its window is left out.            *)
ReadEntry_Strict(q) ==
  /\ rpc = "entries"
  /\ q \in names
  /\ names' = names \ {q}
  /\ listed' = IF q \in queue /\ FreshTo_Strict(q, late) THEN listed \cup {q} ELSE listed
  /\ UNCHANGED <<vars, rpc, late, unexpired, report>>
  /\ Witness

(* One entry, in any order: the stat, the file and the PID.  An entry that *)
(* has gone since is passed over, and so is one that fails to be read or   *)
(* parsed.                                                                 *)
ReadEntry(q) ==
  /\ rpc = "entries"
  /\ q \in names
  /\ names' = names \ {q}
  /\ UNCHANGED <<vars, rpc, late, unexpired, report>>
  /\ \/ /\ listed' = IF q \in queue /\ FreshTo(q, late) THEN listed \cup {q} ELSE listed
        /\ Witness
     \/ /\ UNCHANGED listed
        /\ WitnessBut({q})

Show ==
  /\ rpc = "entries"
  /\ names = {}
  /\ rpc' = "shown"
  /\ late' = 0
  /\ UNCHANGED <<vars, unexpired, answer>>
  /\ Witness

(* The command ends: `status` and the dry run with any answer, `wait` with *)
(* a free or expired key, an error, its deadline or a signal.              *)
Done ==
  /\ rpc \in Answered
  /\ rpc' = "idle"
  /\ late' = 0
  /\ report' = "none"
  /\ names' = {}
  /\ listed' = {}
  /\ saw' = {}
  /\ stayed' = {}
  /\ UNCHANGED <<vars, unexpired>>

-----------------------------------------------------------------------------
(* The store during a call                                                 *)

Store ==
  /\ \/ \E p \in Proc : Attempt(p) \/ Wait(p) \/ Hold(p) \/ Die(p)
     \/ ForceRelease
     \/ Prune
  /\ UNCHANGED <<rpc, late, answer>>
  /\ IF rpc = "idle"
     THEN UNCHANGED <<unexpired, saw, stayed>>
     ELSE /\ unexpired' = IF rpc = "holder" /\ \E p \in Proc : Write(p)
                          THEN TTL[guard] - lag + late > 0
                          ELSE unexpired
          /\ Witness

TimePasses ==
  /\ Tick
  /\ IF rpc \in {"idle"} \cup Answered
     THEN UNCHANGED late
     ELSE late < ReadMax /\ late' = late + 1
  /\ IF rpc = "idle" THEN UNCHANGED <<saw, stayed>> ELSE Witness
  /\ UNCHANGED <<rpc, unexpired, answer>>

ReadersNext ==
  \/ Look \/ ReadHolder \/ ReadHolderFails \/ ReadDir \/ ReadDirFails
  \/ (\E q \in Proc : ReadEntry(q)) \/ Show \/ Done
  \/ Store
  \/ TimePasses

ReadersSpec == ReadersInit /\ [][ReadersNext]_readersVars

-----------------------------------------------------------------------------
(* Safety                                                                  *)

(* WaitSawFree: `wait` ends with success, and `status --exit-code` says    *)
(* free or expired, only if the key was without a live lease at some       *)
(* instant of that call, whatever is acquired, renewed or reclaimed while  *)
(* it reads (cmdWait, statusFromDir).                                      *)
WaitSawFree == report \in {"free", "expired"} => FALSE \in saw

(* HeldWasSeen: a key is reported held only if it was leased at some       *)
(* instant of the call.                                                    *)
HeldWasSeen == report = "held" => TRUE \in saw

(* HolderKept: a queue that cannot be read never hides a lease: only a key *)
(* that had none is reported unreadable for it (statusFromDir: "A failed   *)
(* queue read must not discard an already-read holder").                   *)
HolderKept == report = "unreadable" => FALSE \in saw

(* StatusComplete: a waiter that kept its entry and its heartbeat all      *)
(* through the call, and whose entry did not fail to be read, is in the    *)
(* answer, so it is counted among the waiters ahead of those behind it:    *)
(* no clock reading of the call makes it stale, no writer beside it hides  *)
(* it (readQueue without the guard, waitersAhead).                         *)
StatusComplete == rpc = "shown" => stayed \subseteq listed
=============================================================================
