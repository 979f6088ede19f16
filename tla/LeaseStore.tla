----------------------------- MODULE LeaseStore -----------------------------
(***************************************************************************)
(* The lease store of one key on Unix (internal/mutex/store.go and         *)
(* guard_unix.go), the clients that acquire, wait, renew, release and      *)
(* reclaim through it (cmd_acquire.go, cmd_release.go and the store calls  *)
(* of cmd_run.go) and the pruner (cmd_status.go).  Keys share no state:    *)
(* each has its own directory and its own guard.                           *)
(*                                                                         *)
(* On disk: holder.json, as its token and the time left until ExpiresAt,   *)
(* and the queue directory, as the set of waiters with an entry, the age   *)
(* of each entry's mtime and the order of the entries' names.  A session   *)
(* is named by its process; a fresh token is a name no trace of which is   *)
(* left on disk, so a name is reused only then (Start).                    *)
(*                                                                         *)
(* What runs under the guard is one section at a time, in the steps that   *)
(* the guard-free calls (Enqueue, Heartbeat, Dequeue), a crash or the      *)
(* passing of time can fall between.  A section reads the clock once, when *)
(* it starts: "lag" is how far that reading is behind.                     *)
(***************************************************************************)
EXTENDS Integers

CONSTANTS Proc,        \* sessions of `acquire` and `run`
          Runs,        \* those of `run`, whose watchdog renews and reclaims
          Timed,       \* those with a --timeout
          Remote,      \* those the store sees as another host's
          Starvable,   \* those whose heartbeat may be late without bound
          TTL,         \* the --ttl of each session
          MaxTTL,      \* a bound on them
          StaleAfter,  \* WaiterStaleAfter: freshness window of a remote entry
          Grace,       \* WaiterPIDGrace: freshness window of a local entry
          SectionMax,  \* bound: ticks that may pass inside one section
          NoProc, Pruner

ASSUME StoreAssumption ==
  /\ Runs \subseteq Proc
  /\ Timed \subseteq Proc
  /\ Remote \subseteq Proc
  /\ Starvable \subseteq Proc
  /\ MaxTTL \in Nat \ {0}
  /\ TTL \in [Proc -> 1..MaxTTL]
  /\ StaleAfter \in Nat
  /\ Grace \in Nat
  /\ StaleAfter <= Grace
  /\ SectionMax \in Nat
  /\ NoProc \notin Proc
  /\ Pruner \notin Proc
  /\ Pruner # NoProc

VARIABLES
  \* on disk
  token,    \* holder.json's token; NoProc: no holder.json
  left,     \* holder.json's ExpiresAt - now, at least 0
  queue,    \* waiters with an entry in the queue directory
  age,      \* now - mtime of each entry, up to AgeCap
  before,   \* <<p, q>>: the name of p's entry sorts before q's
  \* the section under the per-key guard
  guard,    \* who holds the flock
  at,       \* the step its section has reached
  lag,      \* the time since the section read the clock
  ahead,    \* ghost: waiters queued ahead when a TryAcquire entered
  doomed,   \* the entry the pruner found stale and is about to remove
  unread,   \* ghost: entries ahead, or doomed, that the section failed to read
  \* the processes
  pc,       \* where each session is
  failed,   \* timed waiters whose last TryAcquire returned an error: res is nil
  grant,    \* the time left until the ExpiresAt the session was told
  cleared,  \* ghost: sessions whose lease a human force-released
  reused    \* PIDs of ended sessions that the host gave to another process

disk    == <<token, left, queue, age, before>>
section == <<guard, at, lag, ahead, doomed, unread>>
session == <<pc, failed, grant, cleared, reused>>
vars    == <<disk, section, session>>

-----------------------------------------------------------------------------
(* Time and freshness                                                      *)

(* The largest age that matters: a clock reading can be SectionMax behind. *)
AgeCap == Grace + SectionMax + 1

(* Mutation: an expiry that is not floored at the present instant.         *)
Countdown_NoFloor(n) == n - 1

Countdown(n) == IF n > 0 THEN n - 1 ELSE 0

Ended == {"idle", "timedout", "panicked"}

Alive(p) == pc[p] \notin Ended \/ p \in reused

(* Mutation: a heartbeat exactly as old as its window counts as missed.    *)
FreshTo_Strict(p, late) ==
  IF p \in Remote
  THEN age[p] - late < StaleAfter
  ELSE Alive(p) /\ age[p] - late < Grace

(* waiterFresh with a clock reading that is "late" behind: a local entry   *)
(* needs a live PID and a heartbeat within the grace, a remote one a       *)
(* recent heartbeat.                                                       *)
FreshTo(p, late) ==
  IF p \in Remote
  THEN age[p] - late <= StaleAfter
  ELSE Alive(p) /\ age[p] - late <= Grace

Fresh(p) == FreshTo(p, lag)

(* How long the store lets an entry go without a heartbeat.                *)
Window(p) == IF p \in Remote THEN StaleAfter ELSE Grace

(* Waiters whose entry has been created, whatever became of it since.      *)
Waiting(p) == pc[p] \in {"poll", "beat", "rest"}

Named == {p \in Proc : p \in queue \/ Waiting(p) \/ pc[p] = "stamped"}

Without(p) == {e \in before : p \notin {e[1], e[2]}}

-----------------------------------------------------------------------------
(* The guard                                                               *)

Lock(p, step) ==
  /\ guard = NoProc
  /\ guard' = p
  /\ at' = step
  /\ lag' = 0
  /\ doomed' = NoProc
  /\ unread' = {}

Unlock ==
  /\ guard' = NoProc
  /\ at' = "none"
  /\ lag' = 0
  /\ ahead' = {}
  /\ doomed' = NoProc
  /\ unread' = {}

In(p, step) == guard = p /\ at = step

-----------------------------------------------------------------------------
(* acquireBlocking around TryAcquire                                       *)

Trying(p) == pc[p] \in {"fast", "poll"}

(* TryAcquire reported a holder or a blocker.                              *)
Blocked(p) ==
  /\ pc' = [pc EXCEPT ![p] = IF @ = "fast" THEN "blocked" ELSE "beat"]
  /\ failed' = failed \ {p}

(* TryAcquire returned an error: the fast path gives up, the wait retries. *)
Failed(p) ==
  /\ pc' = [pc EXCEPT ![p] = IF @ = "fast" THEN "idle" ELSE "beat"]
  /\ failed' = IF pc[p] = "poll" /\ p \in Timed THEN failed \cup {p} ELSE failed

(* A new session, under a name that is nowhere on disk.                    *)
Start(p) ==
  /\ pc[p] \in Ended
  /\ p \notin queue \cup reused \cup {doomed}
  /\ token # p
  /\ pc' = [pc EXCEPT ![p] = "fast"]
  /\ UNCHANGED <<disk, section, failed, grant, cleared, reused>>

(* TryAcquire finds a live lease, its own included.                        *)
FindHeld(p) ==
  /\ Trying(p)
  /\ guard = NoProc
  /\ left > 0
  /\ Blocked(p)
  /\ UNCHANGED <<disk, section, grant, cleared, reused>>

(* Mutation: the expiry of the lease on record is not looked at.           *)
Enter_NoExpiry(p) ==
  /\ Trying(p)
  /\ Lock(p, "scan")
  /\ ahead' = {q \in queue \ {p} : p \notin queue \/ <<q, p>> \in before}
  /\ UNCHANGED <<disk, session>>

(* TryAcquire finds the key free, or its lease expired as of now.          *)
Enter(p) ==
  /\ Trying(p)
  /\ left = 0
  /\ Lock(p, "scan")
  /\ ahead' = {q \in queue \ {p} : p \notin queue \/ <<q, p>> \in before}
  /\ UNCHANGED <<disk, session>>

FreshEntries == {q \in queue : Fresh(q)}

(* queueHead, of the fresh entries that could be read and parsed: p may    *)
(* take the key if there is none or the first one is its own.              *)
IsHead(p, read) ==
  /\ p \in read
  /\ \A q \in read \ {p} : <<p, q>> \in before

(* Mutation: no queue, whoever finds the key free takes it.                *)
MayTake_NoQueue(p, read) == TRUE

MayTake(p, read) == read = {} \/ IsHead(p, read)

ScanOf(p, read) ==
  \/ /\ MayTake(p, read)
     /\ at' = "write"
     /\ unread' = (ahead \cap FreshEntries) \ read
     /\ UNCHANGED <<guard, lag, ahead, doomed, pc, failed>>
  \/ /\ ~MayTake(p, read)
     /\ Blocked(p)
     /\ Unlock

(* readQueue passes over any entry that it fails to stat, read or parse.   *)
Scan(p) ==
  /\ In(p, "scan")
  /\ \E read \in SUBSET FreshEntries : ScanOf(p, read)
  /\ UNCHANGED <<disk, grant, cleared, reused>>

(* writeHolder, for an acquire, a renewal or a reclaim: ExpiresAt counts   *)
(* from the section's clock reading.                                       *)
Write(p) ==
  /\ In(p, "write")
  /\ token' = p
  /\ left' = IF TTL[p] > lag THEN TTL[p] - lag ELSE 0
  /\ at' = "finish"
  /\ UNCHANGED <<queue, age, before, guard, lag, ahead, doomed, unread, session>>

(* removeQueueEntry and Dequeue: an error is ignored, the entry stays.     *)
RemoveEntry(p) ==
  \/ /\ queue' = queue \ {p}
     /\ age' = [age EXCEPT ![p] = 0]
     /\ before' = Without(p)
  \/ p \in queue /\ UNCHANGED <<queue, age, before>>

(* The rest of the section: an enqueued winner's entry is removed, the     *)
(* guard released and the caller told.                                     *)
Finish(p) ==
  /\ In(p, "finish")
  /\ IF pc[p] = "poll" THEN RemoveEntry(p) ELSE UNCHANGED <<queue, age, before>>
  /\ Unlock
  /\ pc' = [pc EXCEPT ![p] = "held"]
  /\ failed' = failed \ {p}
  /\ grant' = [grant EXCEPT ![p] = left]
  /\ cleared' = cleared \ {p}
  /\ UNCHANGED <<token, left, reused>>

(* An I/O error reading the queue or writing holder.json.  A renewal that  *)
(* fails leaves the session as it was.                                     *)
Fail(p) ==
  /\ In(p, "scan") \/ In(p, "write")
  /\ IF pc[p] = "held" THEN UNCHANGED <<pc, failed>> ELSE Failed(p)
  /\ Unlock
  /\ UNCHANGED <<disk, grant, cleared, reused>>

(* lockGuard gives up after guardAcquireMax behind another section.        *)
GuardTimeout(p) ==
  /\ Trying(p)
  /\ guard \notin {NoProc, p}
  /\ Failed(p)
  /\ UNCHANGED <<disk, section, grant, cleared, reused>>

(* --no-wait, the self-reentry refusal, or Enqueue's error: the command    *)
(* ends without an entry.                                                  *)
GiveUp(p) ==
  /\ pc[p] \in {"blocked", "stamped"}
  /\ pc' = [pc EXCEPT ![p] = "idle"]
  /\ before' = Without(p)
  /\ UNCHANGED <<token, left, queue, age, section, failed, grant, cleared, reused>>

(* The waiter reads the clock for EnqueuedAt, which names its entry.       *)
Stamp(p) ==
  /\ pc[p] = "blocked"
  /\ pc' = [pc EXCEPT ![p] = "stamped"]
  /\ before' = before \cup {<<q, p>> : q \in Named \ {p}}
  /\ UNCHANGED <<token, left, queue, age, section, failed, grant, cleared, reused>>

(* An entry written, or its mtime set, by p.                               *)
Touch(p) ==
  /\ queue' = queue \cup {p}
  /\ age' = [age EXCEPT ![p] = 0]

Enqueue(p) ==
  /\ pc[p] = "stamped"
  /\ Touch(p)
  /\ pc' = [pc EXCEPT ![p] = "poll"]
  /\ UNCHANGED <<token, left, before, section, failed, grant, cleared, reused>>

(* After every failed attempt, guard-free: touch the entry, or write it    *)
(* again if it vanished.  A starved waiter's heartbeat may fail.           *)
Heartbeat(p) ==
  /\ pc[p] = "beat"
  /\ \/ Touch(p)
     \/ p \in Starvable /\ UNCHANGED <<queue, age>>
  /\ pc' = [pc EXCEPT ![p] = "rest"]
  /\ UNCHANGED <<token, left, before, section, failed, grant, cleared, reused>>

(* The wait ends without the lease: Dequeue, guard-free.                   *)
Leave(p, where) ==
  /\ pc[p] = "rest"
  /\ RemoveEntry(p)
  /\ pc' = [pc EXCEPT ![p] = where]
  /\ failed' = failed \ {p}
  /\ UNCHANGED <<token, left, section, grant, cleared, reused>>

(* The deadline has passed: describeBlock(res, ...) is evaluated for the   *)
(* message, and res is nil when the last attempt returned an error.        *)
Timeout(p) ==
  /\ p \in Timed
  /\ Leave(p, IF p \in failed THEN "panicked" ELSE "timedout")

(* A signal during the sleep between two attempts.                         *)
Interrupt(p) == Leave(p, "idle")

(* The next iteration, with a res of its own.                              *)
Wake(p) ==
  /\ pc[p] = "rest"
  /\ pc' = [pc EXCEPT ![p] = "poll"]
  /\ failed' = failed \ {p}
  /\ UNCHANGED <<disk, section, grant, cleared, reused>>

-----------------------------------------------------------------------------
(* A session that was granted the lease                                    *)

(* Mutation: the token of a renewal is not compared.                       *)
Renew_AnyToken(p) ==
  /\ pc[p] = "held"
  /\ token # NoProc
  /\ Lock(p, "write")
  /\ UNCHANGED <<disk, ahead, session>>

(* Renew with a matching token revives even an expired lease.              *)
Renew(p) ==
  /\ pc[p] = "held"
  /\ token = p
  /\ Lock(p, "write")
  /\ UNCHANGED <<disk, ahead, session>>

(* The watchdog's TryAcquire with Reclaim, after a renewal failed for any  *)
(* reason but another's token: past the queue, if no lease is live.        *)
Reclaim(p) ==
  /\ pc[p] = "held"
  /\ p \in Runs
  /\ left = 0
  /\ Lock(p, "write")
  /\ UNCHANGED <<disk, ahead, session>>

(* The watchdog stops: another's token answered the renewal, or a live     *)
(* lease, whosoever it is, answered the reclaim, or neither call worked    *)
(* until the expiry it knew of had passed.                                 *)
Lose(p) ==
  /\ pc[p] = "held"
  /\ p \in Runs
  /\ \/ guard = NoProc /\ (left > 0 \/ token \notin {p, NoProc})
     \/ guard # p /\ grant[p] = 0
  /\ pc' = [pc EXCEPT ![p] = "lost"]
  /\ UNCHANGED <<disk, section, failed, grant, cleared, reused>>

(* The session holds nothing any more.                                     *)
EndSession(p) ==
  /\ pc' = [pc EXCEPT ![p] = "idle"]
  /\ failed' = failed \ {p}
  /\ grant' = [grant EXCEPT ![p] = 0]
  /\ cleared' = cleared \ {p}
  /\ UNCHANGED reused

(* Mutation: the token of a release is not compared.                       *)
Release_AnyToken(p) ==
  /\ pc[p] \in {"held", "lost"}
  /\ guard = NoProc
  /\ token' = NoProc
  /\ left' = 0
  /\ EndSession(p)
  /\ UNCHANGED <<queue, age, before, section>>

(* Release without force: the token must match, or nothing is removed.     *)
Release(p) ==
  /\ pc[p] \in {"held", "lost"}
  /\ guard = NoProc
  /\ \/ /\ token = p
        /\ token' = NoProc
        /\ left' = 0
     \/ /\ token # p
        /\ UNCHANGED <<token, left>>
  /\ EndSession(p)
  /\ UNCHANGED <<queue, age, before, section>>

-----------------------------------------------------------------------------
(* Crashes, the operator and the pruner                                    *)

(* The process dies, or the agent forgets its token: the kernel drops the  *)
(* flock, what is on disk stays.                                           *)
Crash(p) ==
  /\ pc[p] \notin Ended
  /\ EndSession(p)
  /\ IF guard = p THEN Unlock ELSE UNCHANGED section
  /\ before' = IF p \in queue THEN before ELSE Without(p)
  /\ UNCHANGED <<token, left, queue, age>>

(* The host gives the PID of a dead waiter to another process, for a time; *)
(* that of another host's is not probed.                                   *)
ReusePID(p) ==
  /\ pc[p] \in Ended
  /\ p \in queue \ Remote
  /\ reused' = reused \cup {p}
  /\ UNCHANGED <<disk, section, pc, failed, grant, cleared>>

FreePID(p) ==
  /\ p \in reused
  /\ reused' = reused \ {p}
  /\ UNCHANGED <<disk, section, pc, failed, grant, cleared>>

(* Release with force: holder.json goes, whoever's it is.                  *)
ForceRelease ==
  /\ guard = NoProc
  /\ token # NoProc
  /\ token' = NoProc
  /\ left' = 0
  /\ cleared' = cleared \cup {p \in {token} : grant[p] > 0}
  /\ UNCHANGED <<queue, age, before, section, pc, failed, grant, reused>>

(* Mutation: the pruner removes every lease it finds.                      *)
PruneEnter_Live ==
  /\ Lock(Pruner, "prune")
  /\ token' = NoProc
  /\ left' = 0
  /\ UNCHANGED <<queue, age, before, ahead, session>>

(* pruneKey: the lease, if it has expired as of now, goes first.           *)
PruneEnter ==
  /\ Lock(Pruner, "prune")
  /\ token' = IF left = 0 THEN NoProc ELSE token
  /\ UNCHANGED <<left, queue, age, before, ahead, session>>

Judge(q, missed) ==
  /\ In(Pruner, "prune")
  /\ doomed = NoProc
  /\ q \in queue
  /\ doomed' = q
  /\ unread' = missed
  /\ UNCHANGED <<disk, guard, at, lag, ahead, session>>

(* Mutation: the pruner goes by the mtime alone, the PID is not probed.    *)
PruneJudge_MtimeOnly(q) == age[q] - lag > StaleAfter /\ Judge(q, {})

(* The last stat of an entry, and, as a step of its own, its removal: a    *)
(* heartbeat takes no guard and can fall between the two.  An entry that   *)
(* waiterIdentity cannot read has no host and goes by its mtime alone.     *)
PruneJudge(q) ==
  \/ ~Fresh(q) /\ Judge(q, {})
  \/ q \notin Remote /\ age[q] - lag > StaleAfter /\ Judge(q, {q})

PruneRemove ==
  /\ In(Pruner, "prune")
  /\ doomed # NoProc
  /\ queue' = queue \ {doomed}
  /\ age' = [age EXCEPT ![doomed] = 0]
  /\ before' = IF Waiting(doomed) THEN before ELSE Without(doomed)
  /\ doomed' = NoProc
  /\ unread' = {}
  /\ UNCHANGED <<token, left, guard, at, lag, ahead, session>>

(* The sweep ends, or the pruner dies in it.                               *)
PruneExit ==
  /\ guard = Pruner
  /\ Unlock
  /\ UNCHANGED <<disk, session>>

-----------------------------------------------------------------------------

(* One unit of time.  It passes inside a section at most SectionMax times, *)
(* and never beyond the window within which a waiter that is not starved   *)
(* sends its next heartbeat.                                               *)
Tick ==
  /\ guard # NoProc => lag < SectionMax
  /\ \A p \in queue \ Starvable : Waiting(p) => age[p] < Window(p)
  /\ left' = Countdown(left)
  /\ age' = [p \in Proc |-> IF p \in queue /\ age[p] < AgeCap THEN age[p] + 1 ELSE age[p]]
  /\ lag' = IF guard # NoProc THEN lag + 1 ELSE lag
  /\ grant' = [p \in Proc |-> Countdown(grant[p])]
  /\ UNCHANGED <<token, queue, before, guard, at, ahead, doomed, unread, pc, failed, cleared, reused>>

Init ==
  /\ token = NoProc
  /\ left = 0
  /\ queue = {}
  /\ age = [p \in Proc |-> 0]
  /\ before = {}
  /\ guard = NoProc
  /\ at = "none"
  /\ lag = 0
  /\ ahead = {}
  /\ doomed = NoProc
  /\ unread = {}
  /\ pc = [p \in Proc |-> "idle"]
  /\ failed = {}
  /\ grant = [p \in Proc |-> 0]
  /\ cleared = {}
  /\ reused = {}

Attempt(p) ==
  \/ FindHeld(p) \/ Enter(p) \/ Scan(p) \/ Write(p) \/ Finish(p) \/ Fail(p)
  \/ GuardTimeout(p)

Wait(p) ==
  \/ Start(p) \/ GiveUp(p) \/ Stamp(p) \/ Enqueue(p) \/ Heartbeat(p)
  \/ Timeout(p) \/ Interrupt(p) \/ Wake(p)

Hold(p) == Renew(p) \/ Reclaim(p) \/ Lose(p) \/ Release(p)

Die(p) == Crash(p) \/ ReusePID(p) \/ FreePID(p)

Prune == PruneEnter \/ (\E q \in Proc : PruneJudge(q)) \/ PruneRemove \/ PruneExit

Next ==
  \/ \E p \in Proc : Attempt(p) \/ Wait(p) \/ Hold(p) \/ Die(p)
  \/ ForceRelease
  \/ Prune
  \/ Tick

Spec == Init /\ [][Next]_vars

-----------------------------------------------------------------------------
(* Types, and the invariant the exclusion rests on                         *)

PCs == Ended \cup {"fast", "blocked", "stamped", "poll", "beat", "rest", "held", "lost"}

TypeOK ==
  /\ token \in Proc \cup {NoProc}
  /\ left \in 0..MaxTTL
  /\ queue \in SUBSET Proc
  /\ age \in [Proc -> 0..AgeCap]
  /\ before \in SUBSET (Proc \X Proc)
  /\ guard \in Proc \cup {NoProc, Pruner}
  /\ at \in {"none", "scan", "write", "finish", "prune"}
  /\ lag \in 0..SectionMax
  /\ ahead \in SUBSET Proc
  /\ doomed \in Proc \cup {NoProc}
  /\ unread \in SUBSET Proc
  /\ pc \in [Proc -> PCs]
  /\ failed \in SUBSET Proc
  /\ grant \in [Proc -> 0..MaxTTL]
  /\ cleared \in SUBSET Proc
  /\ reused \in SUBSET Proc

(* A section in progress has one step, and only its holder acts in it.     *)
GuardInv ==
  /\ guard = NoProc => at = "none"
  /\ guard = Pruner => at = "prune"
  /\ guard \in Proc => /\ at \in {"scan", "write", "finish"}
                       /\ pc[guard] \in {"fast", "poll", "held"}
                       /\ at = "scan" => Trying(guard)

(* A lease is never recorded for longer than its owner asked.              *)
LeaseInv == token \in Proc => left <= TTL[token]

(* A section that is to write the lease found none live, or renews its own *)
(* with an expiry that cannot be earlier than the one on record.           *)
SectionInv ==
  /\ at = "scan" => left = 0
  /\ at = "write" => left = 0 \/ (token = guard /\ left + lag <= TTL[guard])
  /\ at = "finish" => token = guard

(* What a session was told is covered by the record on disk.               *)
ClaimInv ==
  \A p \in Proc \ cleared : grant[p] > 0 => token = p /\ grant[p] <= left

StoreInv == TypeOK /\ GuardInv /\ LeaseInv /\ SectionInv /\ ClaimInv

(* Who has an entry and how old it may be: an entry is a waiter's or was   *)
(* left behind by one, the entry of a waiter that keeps its heartbeat is   *)
(* not stale to any clock reading of the store, and the pruner is about to *)
(* remove it only if it could not read it.                                 *)
SlotInv ==
  /\ \A p \in queue : pc[p] \notin {"fast", "blocked", "stamped"}
  /\ \A p \in queue \ Starvable : Waiting(p) => age[p] <= Window(p)
  /\ doomed \in Proc => guard = Pruner /\ pc[doomed] \notin {"fast", "blocked", "stamped"}
  /\ doomed \in Proc \ Starvable => ~Waiting(doomed) \/ doomed \in unread

(* The names order the sessions that have one, one way.                    *)
OrderInv ==
  /\ before \subseteq Named \X Named
  /\ \A p, q \in Proc : <<p, q>> \in before => <<q, p>> \notin before

(* What a TryAcquire knows of those ahead of it while it holds the guard:  *)
(* none of them can get a new name, and after the scan none of the prompt  *)
(* ones that it could read is waiting.                                     *)
AheadInv ==
  guard \in Proc /\ Trying(guard) =>
    /\ \A q \in ahead : q # guard /\ pc[q] \notin {"blocked", "stamped"}
    /\ at = "scan" =>
         \A q \in ahead : Waiting(q) =>
           q \in queue /\ (guard \notin queue \/ <<q, guard>> \in before)
    /\ at \in {"write", "finish"} =>
         \A q \in ahead \ (Starvable \cup unread) : ~Waiting(q)

QueueInv == SlotInv /\ OrderInv /\ AheadInv

-----------------------------------------------------------------------------
(* Safety                                                                  *)

(* MutualExclusion: two sessions that were both told they hold the key     *)
(* never rely on it at the same time (README: "at most one holder per      *)
(* key"), however sections stall, sessions die and leases expire; only a   *)
(* force-release suspends the promise, for the session it displaced.       *)
MutualExclusion ==
  \A p, q \in Proc \ cleared : p # q => ~(grant[p] > 0 /\ grant[q] > 0)

(* NoBarging: when an acquire is about to write holder.json, no waiter     *)
(* that was queued ahead of it when its section began, has kept its        *)
(* heartbeat within the window and whose entry the section could read, is  *)
(* still waiting (TryAcquire's FIFO).                                      *)
NoBarging ==
  at \in {"write", "finish"} /\ Trying(guard) =>
    \A q \in ahead \ (Starvable \cup unread) : ~(Waiting(q) /\ q \in queue)

(* PromptKeepsSlot: a live waiter that heartbeats within the window its    *)
(* host grants it loses its queue entry while it waits to one thing only,  *)
(* a pruner that could not read the entry; a late clock of the pruner and  *)
(* other winners never take it (waiterFresh, pruneKey, removeQueueEntry).  *)
PromptKeepsSlot ==
  [][\A p \in Proc \ Starvable :
       Waiting(p) /\ p \in queue /\ p \notin queue' =>
         ~Waiting(p)' \/ (doomed = p /\ p \in unread)]_vars

(* NoStealing: a live lease leaves its session only by that session's own  *)
(* release or by a force-release: no expiry read with a late clock, no     *)
(* prune, reclaim or renewal takes it away (TryAcquire, Renew, pruneKey).  *)
NoStealing ==
  [][left > 0 /\ token' # token => Release(token) \/ ForceRelease]_vars

(* Implements: the store keeps the promise of Lease, step by step.         *)
Promise == INSTANCE Lease WITH owner <- token

Implements == Promise!Spec

(* TimeoutExits: a wait that reaches its --timeout ends with ExitTimeout   *)
(* (cmd_acquire.go:174-177: "--timeout / interrupt still bound the wait";  *)
(* README: exit 11), it does not crash.                                    *)
TimeoutExits == \A p \in Proc : pc[p] # "panicked"

(* PruneOnlyDead: prune removes an entry only if it is not that of a live  *)
(* contender when it goes (cmd_status.go:285: "Safe: only provably dead    *)
(* state is touched").                                                     *)
PruneOnlyDead ==
  [][\A q \in Proc :
       PruneRemove /\ doomed = q /\ q \in queue /\ Waiting(q) => ~Fresh(q)]_vars

-----------------------------------------------------------------------------
(* Liveness                                                                *)

(* What the scheduling of processes gives: each one's own next step comes; *)
(* a process that polls for the guard finds it free at last (flock is      *)
(* asked for every guardPollBackoff and sections are finite); `run`        *)
(* releases when its command has ended; the pruner's sweep ends; time      *)
(* passes.  Nothing is assumed of crashes, signals, timeouts, renewals,    *)
(* force-releases or who comes when.                                       *)
Scheduling ==
  /\ \A p \in Proc :
       /\ WF_vars(Scan(p) \/ Write(p) \/ Finish(p))
       /\ WF_vars(Stamp(p) \/ Enqueue(p) \/ Heartbeat(p) \/ Wake(p))
       /\ SF_vars(FindHeld(p) \/ Enter(p))
  /\ \A p \in Runs : SF_vars(Release(p))
  /\ WF_vars(PruneRemove)
  /\ SF_vars(PruneExit)
  /\ WF_vars(Tick)

(* Reads and writes fail, and peers stay wedged in the guard, only so many *)
(* times: these are errors to the code ("a bug, or stuck I/O",             *)
(* guard_unix.go:14; "a waiter that cannot maintain a valid entry",        *)
(* store.go:617).                                                          *)
Healthy ==
  /\ \A p \in Proc :
       <>[][~Fail(p) /\ ~GuardTimeout(p) /\ (Scan(p) => ScanOf(p, FreshEntries))]_vars
  /\ <>[](unread = {})

FairSpec == Spec /\ Scheduling /\ Healthy

(* EveryWaitEnds: a waiter that has an entry is served in the end, or      *)
(* leaves by itself: the dead, the expired and the newcomers never keep it *)
(* from the key for ever (the FIFO queue of acquireBlocking).              *)
EveryWaitEnds == \A p \in Proc \ Starvable : pc[p] = "poll" ~> ~Waiting(p)
=============================================================================
