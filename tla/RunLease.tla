------------------------------ MODULE RunLease ------------------------------
(***************************************************************************)
(* `agentmutex run` (cmd_run.go) from the moment it holds the lease: the   *)
(* watchdog goroutine that renews and reclaims, the goroutine that passes  *)
(* signals on and escalates, the child, and the main goroutine that waits, *)
(* stops the watchdog, releases and picks the exit code.  The store's      *)
(* calls are single steps here, as LeaseStore shows they may be; whatever  *)
(* else happens to the key - operators, the child with an exported token,  *)
(* other sessions - is the environment.                                    *)
(*                                                                         *)
(* Time: the run's own goroutines take no time, a store call at most       *)
(* CallMax units, before its section (it may wait for the guard) and after *)
(* it (the history database may be slow); Suspend is the host asleep until *)
(* every lease has expired.                                                *)
(***************************************************************************)
EXTENDS Integers

CONSTANTS TTL,        \* --ttl
          Interval,   \* the watchdog's ticker: ttl/3
          KillGrace,  \* leaseLossGrace
          MaxHolds,   \* values of --max-hold to consider; 0: no cap
          CallMax     \* bound: the ticks one store call may take

ASSUME RunAssumption ==
  /\ Interval \in Nat \ {0}
  /\ TTL = 3 * Interval
  /\ KillGrace \in Nat
  /\ MaxHolds \subseteq Nat
  /\ CallMax \in Nat

VARIABLES
  onLoss,    \* --on-lease-loss
  maxHold,   \* --max-hold
  \* the key, as holder.json has it
  owner,     \* "run": under lease.token; "other": under another token; "none"
  left,      \* ExpiresAt - now, at least 0
  \* the watchdog
  watch,     \* "wait", "renew", "reclaim", "return" or "stopped"
  busy,      \* how long its store call has taken
  good,      \* lastGood - now, at least 0
  next,      \* time to the ticker's next tick
  due,       \* a tick is in the ticker's channel
  lost,      \* leaseLost is closed
  \* runChild
  child,     \* "none", "running" or "ended"
  sig,       \* the signal in sigc
  lostSeen,  \* the signal goroutine has read leaseLost
  escalating,
  kill,      \* time to killTree; NoTimer: not started
  hold,      \* time to maxHoldC; NoTimer: no cap, or it has fired
  maxHoldHit,
  \* the main goroutine
  main,      \* "start", "child", "join", "release" or "exit"
  code,      \* the exit code: the child's, 14, 127
  \* ghosts
  stuck,     \* the release itself failed
  faulted,   \* a store call failed
  meddled,   \* the lease was cleared or a call failed or the host slept
  overlap,   \* how long the child has run beside the present foreign lease
  overlapped,\* the child has run beside another's live lease
  ran        \* how long the child has run

key     == <<owner, left>>
dog     == <<watch, busy, good, lost>>
ticker  == <<next, due>>
signals == <<sig, lostSeen, escalating, kill, hold, maxHoldHit>>
flags   == <<onLoss, maxHold>>
ghosts  == <<stuck, faulted, meddled, overlap, overlapped, ran>>
vars    == <<flags, key, dog, ticker, child, signals, main, code, ghosts>>

NoTimer == -1

(* Mutation: a timer that is not stopped runs on.                          *)
Countdown_NoFloor(n) == n - 1

Countdown(n) == IF n > 0 THEN n - 1 ELSE n

-----------------------------------------------------------------------------
(* The environment of the key                                              *)

(* Another session takes a free or expired key, or renews or revives its   *)
(* own lease.                                                              *)
OtherHolds ==
  /\ left = 0 \/ owner = "other"
  /\ owner' = "other"
  /\ left' = TTL
  /\ overlap' = IF owner = "other" THEN overlap ELSE 0
  /\ UNCHANGED <<flags, dog, ticker, child, signals, main, code,
                 stuck, faulted, meddled, overlapped, ran>>

OtherReleases ==
  /\ owner = "other"
  /\ owner' = "none"
  /\ left' = 0
  /\ UNCHANGED <<flags, dog, ticker, child, signals, main, code, ghosts>>

(* A force-release, the child's own release with an exported token, or a   *)
(* prune of an expired lease.                                              *)
Cleared ==
  /\ owner # "none"
  /\ owner' = "none"
  /\ left' = 0
  /\ meddled' = TRUE
  /\ UNCHANGED <<flags, dog, ticker, child, signals, main, code,
                 stuck, faulted, overlap, overlapped, ran>>

-----------------------------------------------------------------------------
(* The watchdog                                                            *)

Fault == faulted' = TRUE /\ meddled' = TRUE /\ UNCHANGED <<stuck, overlap, overlapped, ran>>

(* loseTo: leaseLost is closed and the watchdog returns.                   *)
LoseTo ==
  /\ lost' = TRUE
  /\ watch' = "stopped"
  /\ busy' = 0
  /\ UNCHANGED good

(* The section of a renewal or a reclaim: the TTL counts from its clock,   *)
(* and the call has yet to write its row before it returns.                *)
Extend ==
  /\ owner' = "run"
  /\ left' = TTL
  /\ good' = TTL
  /\ watch' = "return"
  /\ UNCHANGED <<busy, lost>>

TickArrives ==
  /\ watch = "wait"
  /\ due
  /\ due' = FALSE
  /\ watch' = "renew"
  /\ UNCHANGED <<flags, key, busy, good, lost, next, child, signals, main, code, ghosts>>

(* Mutation: a lease that is gone counts as lost to another.               *)
Renew_NoneIsLoss ==
  /\ watch = "renew"
  /\ \/ owner = "run" /\ Extend /\ UNCHANGED ghosts
     \/ owner # "run" /\ LoseTo /\ UNCHANGED <<key, ghosts>>
     \/ /\ Fault
        /\ watch' = "reclaim"
        /\ busy' = 0
        /\ UNCHANGED <<key, good, lost>>
  /\ UNCHANGED <<flags, ticker, child, signals, main, code>>

(* Renew: the lease under our token is extended, another's token is a      *)
(* loss, and a missing lease or an error leads to the reclaim.             *)
Renew ==
  /\ watch = "renew"
  /\ \/ owner = "run" /\ Extend /\ UNCHANGED ghosts
     \/ owner = "other" /\ LoseTo /\ UNCHANGED <<key, ghosts>>
     \/ /\ \/ owner = "none" /\ UNCHANGED ghosts
           \/ Fault
        /\ watch' = "reclaim"
        /\ busy' = 0
        /\ UNCHANGED <<key, good, lost>>
  /\ UNCHANGED <<flags, ticker, child, signals, main, code>>

(* TryAcquire with Reclaim under a fresh token: it takes a key with no     *)
(* live lease; a live lease is a loss; after an error the last expiry we   *)
(* know of decides.                                                        *)
Reclaim ==
  /\ watch = "reclaim"
  /\ \/ left = 0 /\ Extend /\ UNCHANGED ghosts
     \/ left > 0 /\ LoseTo /\ UNCHANGED <<key, ghosts>>
     \/ good = 0 /\ LoseTo /\ Fault /\ UNCHANGED key
     \/ /\ good > 0
        /\ Fault
        /\ watch' = "wait"
        /\ busy' = 0
        /\ UNCHANGED <<key, good, lost>>
  /\ UNCHANGED <<flags, ticker, child, signals, main, code>>

Return ==
  /\ watch = "return"
  /\ watch' = "wait"
  /\ busy' = 0
  /\ UNCHANGED <<flags, key, good, lost, ticker, child, signals, main, code, ghosts>>

(* stopRenew is closed.                                                    *)
StopWatch ==
  /\ watch = "wait"
  /\ main = "join"
  /\ watch' = "stopped"
  /\ UNCHANGED <<flags, key, busy, good, lost, ticker, child, signals, main, code, ghosts>>

-----------------------------------------------------------------------------
(* runChild                                                                *)

StartChild ==
  /\ main = "start"
  /\ \/ /\ child' = "running"
        /\ main' = "child"
        /\ hold' = IF maxHold > 0 THEN maxHold ELSE NoTimer
        /\ UNCHANGED code
     \/ /\ main' = "join"
        /\ code' = "127"
        /\ UNCHANGED <<child, hold>>
  /\ UNCHANGED <<flags, key, dog, ticker, sig, lostSeen, escalating, kill, maxHoldHit, ghosts>>

(* The command ends by itself or gives in to a signal.                     *)
ChildEnds ==
  /\ child = "running"
  /\ child' = "ended"
  /\ UNCHANGED <<flags, key, dog, ticker, signals, main, code, ghosts>>

(* A signal sent to run, before or after the child has started.            *)
SignalArrives ==
  /\ main \in {"start", "child"}
  /\ sig = "none"
  /\ sig' \in {"term", "hup"}
  /\ UNCHANGED <<flags, key, dog, ticker, child, lostSeen, escalating, kill, hold, maxHoldHit,
                 main, code, ghosts>>

(* The goroutine runs until waitDone is closed, at times after the child.  *)
Selecting == main = "child"

(* The child's tree gets SIGTERM, and SIGKILL after the grace.             *)
Escalate ==
  /\ escalating' = TRUE
  /\ kill' = KillGrace

(* Mutation: any signal counts as escalating, but only SIGINT and SIGTERM  *)
(* start the killer.                                                       *)
Forward_HupEscalates ==
  /\ Selecting
  /\ sig # "none"
  /\ sig' = "none"
  /\ escalating' = TRUE
  /\ kill' = IF sig = "term" /\ ~escalating THEN KillGrace ELSE kill
  /\ UNCHANGED <<flags, key, dog, ticker, child, lostSeen, hold, maxHoldHit, main, code, ghosts>>

(* Only SIGINT and SIGTERM escalate; SIGHUP and SIGQUIT are passed on.     *)
Forward ==
  /\ Selecting
  /\ sig # "none"
  /\ sig' = "none"
  /\ IF sig = "term" /\ ~escalating THEN Escalate ELSE UNCHANGED <<escalating, kill>>
  /\ UNCHANGED <<flags, key, dog, ticker, child, lostSeen, hold, maxHoldHit, main, code, ghosts>>

(* Mutation: SIGTERM on a lost lease, and no SIGKILL after it.             *)
SeeLoss_NoKill ==
  /\ Selecting
  /\ lost /\ ~lostSeen
  /\ lostSeen' = TRUE
  /\ escalating' = (escalating \/ onLoss = "terminate")
  /\ UNCHANGED <<flags, key, dog, ticker, child, sig, kill, hold, maxHoldHit, main, code, ghosts>>

SeeLoss ==
  /\ Selecting
  /\ lost /\ ~lostSeen
  /\ lostSeen' = TRUE
  /\ IF onLoss = "terminate" /\ ~escalating THEN Escalate ELSE UNCHANGED <<escalating, kill>>
  /\ UNCHANGED <<flags, key, dog, ticker, child, sig, hold, maxHoldHit, main, code, ghosts>>

(* Mutation: SIGTERM when the cap is exceeded, and no SIGKILL after it.    *)
HoldTooLong_NoKill ==
  /\ Selecting
  /\ hold = 0
  /\ hold' = NoTimer
  /\ maxHoldHit' = TRUE
  /\ escalating' = TRUE
  /\ UNCHANGED <<flags, key, dog, ticker, child, sig, lostSeen, kill, main, code, ghosts>>

HoldTooLong ==
  /\ Selecting
  /\ hold = 0
  /\ hold' = NoTimer
  /\ maxHoldHit' = TRUE
  /\ IF ~escalating THEN Escalate ELSE UNCHANGED <<escalating, kill>>
  /\ UNCHANGED <<flags, key, dog, ticker, child, sig, lostSeen, main, code, ghosts>>

(* killAfterGrace: no child survives this.                                 *)
KillTree ==
  /\ child = "running"
  /\ kill = 0
  /\ child' = "ended"
  /\ UNCHANGED <<flags, key, dog, ticker, signals, main, code, ghosts>>

-----------------------------------------------------------------------------
(* The main goroutine                                                      *)

(* cmd.Wait returns; stopRenew is closed.                                  *)
ChildWaited ==
  /\ main = "child"
  /\ child = "ended"
  /\ main' = "join"
  /\ code' = "child"
  /\ overlap' = 0
  /\ ran' = 0
  /\ UNCHANGED <<flags, key, dog, ticker, child, signals, stuck, faulted, meddled, overlapped>>

(* Mutation: the release does not wait for the watchdog to return.         *)
Joined_NoWait ==
  /\ main = "join"
  /\ main' = "release"
  /\ UNCHANGED <<flags, key, dog, ticker, child, signals, code, ghosts>>

(* <-renewDone                                                             *)
Joined ==
  /\ main = "join"
  /\ watch = "stopped"
  /\ main' = "release"
  /\ UNCHANGED <<flags, key, dog, ticker, child, signals, code, ghosts>>

ExitCode(collision) ==
  IF maxHoldHit \/ (onLoss = "terminate" /\ (lost \/ collision)) THEN "14" ELSE code

(* Release with the latest token; another's token is a collision, a        *)
(* missing lease is not.                                                   *)
Release ==
  /\ main = "release"
  /\ main' = "exit"
  /\ \/ /\ owner = "run"
        /\ owner' = "none"
        /\ left' = 0
        /\ code' = ExitCode(FALSE)
        /\ UNCHANGED ghosts
     \/ /\ owner # "run"
        /\ code' = ExitCode(owner = "other")
        /\ UNCHANGED <<key, ghosts>>
     \/ /\ stuck' = TRUE
        /\ code' = ExitCode(FALSE)
        /\ UNCHANGED <<key, faulted, meddled, overlap, overlapped, ran>>
  /\ UNCHANGED <<flags, dog, ticker, child, signals>>

-----------------------------------------------------------------------------
(* Time                                                                    *)

Calling == watch \in {"renew", "reclaim", "return"}

(* What the run's own goroutines have to do before time passes.            *)
Urgent ==
  \/ watch = "wait" /\ (due \/ main = "join")
  \/ Calling /\ busy = CallMax
  \/ Selecting /\ (sig # "none" \/ (lost /\ ~lostSeen) \/ hold = 0)
  \/ child = "running" /\ kill = 0
  \/ main \in {"start", "release"}
  \/ main = "child" /\ child = "ended"
  \/ main = "join" /\ watch = "stopped"

(* Mutation: the watchdog renews once per ttl.                             *)
Period_TTL == TTL

(* The ticker's period; a tick that finds the channel full is dropped.     *)
Period == Interval

(* To the next renewal: a tick away, or as long as a call that is late to  *)
(* return.                                                                 *)
Pause == IF CallMax > Interval THEN CallMax ELSE Interval

OverlapBound ==
  KillGrace + 2 * CallMax + (IF faulted THEN TTL + Pause ELSE Pause)

RanBound == maxHold + KillGrace

Overlapping == child = "running" /\ owner = "other" /\ left > 0

Tick ==
  /\ ~Urgent
  /\ left' = Countdown(left)
  /\ good' = Countdown(good)
  /\ IF watch = "stopped" THEN UNCHANGED ticker
     ELSE /\ next' = IF next = 1 THEN Period ELSE next - 1
          /\ due' = (due \/ next = 1)
  /\ busy' = IF Calling THEN busy + 1 ELSE 0
  /\ kill' = Countdown(kill)
  /\ hold' = Countdown(hold)
  /\ overlap' = IF Overlapping /\ overlap <= OverlapBound THEN overlap + 1 ELSE overlap
  /\ overlapped' = (overlapped \/ Overlapping)
  /\ ran' = IF child = "running" /\ maxHold > 0 /\ ran <= RanBound THEN ran + 1 ELSE ran
  /\ UNCHANGED <<flags, owner, watch, lost, child, sig, lostSeen, escalating, maxHoldHit,
                 main, code, stuck, faulted, meddled>>

(* The host sleeps, the child with it, until every lease has expired by    *)
(* the wall clock.  Go's monotonic clock, which the timers and lastGood go *)
(* by, has either stood still meanwhile or gone on past all of them.       *)
Suspend ==
  /\ main = "child"
  /\ left' = 0
  /\ \/ UNCHANGED <<good, due, kill, hold>>
     \/ /\ good' = 0
        /\ due' = TRUE
        /\ kill' = IF kill = NoTimer THEN NoTimer ELSE 0
        /\ hold' = IF hold = NoTimer THEN NoTimer ELSE 0
  /\ meddled' = TRUE
  /\ UNCHANGED <<flags, owner, watch, busy, lost, next, child, sig, lostSeen, escalating,
                 maxHoldHit, main, code, stuck, faulted, overlap, overlapped, ran>>

(* acquireBlocking has returned, a while after its section perhaps; the    *)
(* watchdog has been started.                                              *)
Init ==
  /\ onLoss \in {"terminate", "continue"}
  /\ maxHold \in MaxHolds
  /\ owner = "run"
  /\ left \in {n \in 0..TTL : n >= TTL - CallMax}
  /\ watch = "wait"
  /\ busy = 0
  /\ good = left
  /\ next = Interval
  /\ due = FALSE
  /\ lost = FALSE
  /\ child = "none"
  /\ sig = "none"
  /\ lostSeen = FALSE
  /\ escalating = FALSE
  /\ kill = NoTimer
  /\ hold = NoTimer
  /\ maxHoldHit = FALSE
  /\ main = "start"
  /\ code = "none"
  /\ stuck = FALSE
  /\ faulted = FALSE
  /\ meddled = FALSE
  /\ overlap = 0
  /\ overlapped = FALSE
  /\ ran = 0

Environment ==
  OtherHolds \/ OtherReleases \/ Cleared \/ ChildEnds \/ SignalArrives \/ Suspend

Watchdog == TickArrives \/ Renew \/ Reclaim \/ Return \/ StopWatch

Supervisor == Forward \/ SeeLoss \/ HoldTooLong \/ KillTree

MainGoroutine == StartChild \/ ChildWaited \/ Joined \/ Release

Next == Environment \/ Watchdog \/ Supervisor \/ MainGoroutine \/ Tick

Spec == Init /\ [][Next]_vars

(* The Go scheduler runs every goroutine, and time passes however often    *)
(* signals arrive; a select with two ready cases takes either in time.     *)
Fairness ==
  /\ WF_vars(Watchdog)
  /\ SF_vars(StopWatch)
  /\ WF_vars(Forward) /\ WF_vars(SeeLoss) /\ WF_vars(HoldTooLong) /\ WF_vars(KillTree)
  /\ WF_vars(MainGoroutine)
  /\ SF_vars(Tick)

FairSpec == Spec /\ Fairness

-----------------------------------------------------------------------------

TypeOK ==
  /\ onLoss \in {"terminate", "continue"}
  /\ maxHold \in MaxHolds
  /\ owner \in {"none", "run", "other"}
  /\ left \in 0..TTL
  /\ watch \in {"wait", "renew", "reclaim", "return", "stopped"}
  /\ busy \in 0..CallMax
  /\ good \in 0..TTL
  /\ next \in 1..Interval
  /\ due \in BOOLEAN
  /\ lost \in BOOLEAN
  /\ child \in {"none", "running", "ended"}
  /\ sig \in {"none", "term", "hup"}
  /\ lostSeen \in BOOLEAN
  /\ escalating \in BOOLEAN
  /\ kill \in NoTimer..KillGrace
  /\ hold \in NoTimer..maxHold
  /\ maxHoldHit \in BOOLEAN
  /\ main \in {"start", "child", "join", "release", "exit"}
  /\ code \in {"none", "child", "127", "14"}
  /\ stuck \in BOOLEAN
  /\ faulted \in BOOLEAN
  /\ meddled \in BOOLEAN
  /\ overlap \in Nat
  /\ overlapped \in BOOLEAN
  /\ ran \in Nat

(* Protected: while the command runs and nobody meddles with the key, the  *)
(* lease on disk is run's own and has not expired (cmd_run.go:128).        *)
Protected ==
  child = "running" /\ ~meddled => owner = "run" /\ left > 0

(* NoLeak: once run has exited, the lease is not left behind under its     *)
(* token, unless the release itself failed: the watchdog cannot rotate the *)
(* token or reclaim behind the release (cmd_run.go:197-206).               *)
NoLeak == main = "exit" /\ owner = "run" => stuck

(* OverlapBounded: with --on-lease-loss terminate the command does not run *)
(* beside another's live lease longer than the pause between renewals, the *)
(* calls and the kill grace take; if calls fail, than the TTL more         *)
(* (cmd_run.go:147-187, 296-303).                                          *)
OverlapBounded == onLoss = "terminate" => overlap <= OverlapBound

(* MaxHoldBounded: a command under --max-hold is gone after the cap and    *)
(* the kill grace, whatever it traps and whatever signals came before.     *)
MaxHoldBounded == maxHold > 0 => ran <= RanBound

(* LossIsReal: leaseLost is closed only for a different live holder, or    *)
(* once renewals have failed past the TTL (cmd_run.go:131-132, DESIGN.md). *)
LossIsReal == [][lost' /\ ~lost => owner = "other" \/ good = 0]_vars

(* LossHasCause: as long as no store call fails, leaseLost is closed only  *)
(* for another's lease: a force-release, an early release by the command,  *)
(* a prune or a host that slept is repaired by the reclaim, and run's own  *)
(* lease is never met as a competitor's (cmd_run.go:127-132).              *)
LossHasCause == [][lost' /\ ~lost => owner = "other" \/ faulted']_vars

(* CollisionTold: a command that ran beside a competitor's live lease      *)
(* under `terminate` makes run exit 14, if no store call failed            *)
(* (DESIGN.md:137: "run detects it on the next renew ... and exits 14").   *)
CollisionTold ==
  main = "exit" /\ onLoss = "terminate" /\ overlapped /\ ~stuck /\ ~faulted => code = "14"

(* EscalationEnds: a lease lost under `terminate`, a cap that is exceeded  *)
(* or a SIGTERM that reached run ends the command and run with it.         *)
MustEnd ==
  \/ lost /\ onLoss = "terminate"
  \/ maxHoldHit
  \/ sig = "term"

EscalationEnds == MustEnd ~> main = "exit"
=============================================================================
