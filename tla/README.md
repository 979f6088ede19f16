# agentmutex, specified

TLA+ models of agentmutex (the repository's Go program), TLC configurations that
check them on small instances, and TLAPS proofs for every value of the
constants.  Paths such as `cmd_run.go:164` are relative to the repository's
root; `PROJECT.json` maps each definition to its lines.

agentmutex gives cooperating processes one lease per *semantic key* on a shared
directory, with no daemon.  Its promise is mutual exclusion per key; a FIFO queue
of waiters, each proving its life by a PID or a heartbeat; leases that expire
unless renewed; and a `run` command that holds a lease around a child process.

## 1. Inventory

| Component | Code | State | Operations | What makes it correct |
|---|---|---|---|---|
| Lease store of one key | `internal/mutex/store.go` | `holder.json` (token, expiry), `queue/*.json` (name = order, mtime = heartbeat), `.tmp` files | `TryAcquire`, `Release`, `Renew`, `Enqueue`, `Heartbeat`, `Dequeue`, `Prune`, `Status`, `List` | at most one session relies on the key; a live lease ends only by its owner or a human; waiters are served in order; a prompt waiter keeps its slot |
| Guard, Unix | `guard_unix.go` | an flock on `guard` | `lockGuard`, the returned release | one section at a time; a death frees it; a wait for it is bounded |
| Guard, Windows | `guard_windows.go` | an `O_EXCL` marker file | the same, with a stale reclaim by rename | as above, and a reclaim and a late release never remove a live marker |
| Waiter liveness | `alive_*.go`, `waiterFresh` | none (probes a PID, compares an mtime) | `processAlive`, `waiterFresh` | a live waiter counts, a dead one stops counting |
| Acquire loop | `cmd_acquire.go` | the waiter's place in the loop, the last result | `acquireBlocking` | the wait ends: with the lease, the timeout or a signal |
| `run` | `cmd_run.go`, `proc_unix.go` | watchdog, ticker, child, signal goroutine, kill and max-hold timers, current token | renew, reclaim, lose, escalate, release, exit code | the command runs only under its lease; it is stopped in bounded time when the lease is another's; nothing is left behind |
| `release`, `renew`, `force-release` | `cmd_release.go` | none | one store call each | the token decides, except for the human |
| `status`, `list`, `wait`, `prune` | `cmd_status.go` | none | guard-free reads; `Prune` | only dead state is removed; an answer was true at some instant of the call, and a lease is never read away |
| Runs inside runs | `cmd_run.go`, `cmd_acquire.go` | `AGENTMUTEX_LEASE_KEY` in the child's environment | self-reentry check, nested `run` and `acquire` | exclusion holds inside a chain too; no wait for oneself or in a circle |
| Key encoding | `keys.go` | none | `ValidateKey`, `EncodeKey`, `DecodeKey` | inverse, safe names, no directory shared but by keys that differ in case |
| History | `internal/history/history.go`, `Store.record` | rows in SQLite | append, query | best-effort, outside the lock protocol; every lease accounted for, one ending each |
| Command line, terminals, Windows processes | `main.go`, `cli_common.go`, `proc_windows.go`, `proc_termios_*.go` | none | parsing, formatting, single system calls | not a matter of state |

How they meet.  Every mutation of `holder.json` is a section under the key's
guard.  `Enqueue`, `Heartbeat` and `Dequeue` take no guard and fall anywhere
between the steps of such a section; so do a crash, the passing of time, and the
readers.  `acquireBlocking` alternates `TryAcquire` and `Heartbeat`.  `run` calls
`acquireBlocking`, then a watchdog goroutine calls `Renew` and, when that fails,
`TryAcquire` with `Reclaim`; it tells the signal goroutine of a loss by closing a
channel; the main goroutine waits for the child, stops and joins the watchdog,
and calls `Release`.  A child may be another `run`: it sees its parent's key in
`AGENTMUTEX_LEASE_KEY`, and is refused that key only.  Each operation that changes
`holder.json` appends to the history after its section, prune inside it.  Keys share
nothing but the agents that hold several: one key is modelled, except in `Nesting`.

What is hard here: sections that stall while their clock reading grows old; a
crash between two writes of one section; guard-free calls inside sections of
others; a freshness window at its very end; a renewal that fails, and a reclaim
after it; three causes that race to escalate; a ticker that drops ticks; the host
asleep past every expiry; snapshots put together from several reads; files that cannot be read
at the moment they are asked for; rows written after the fact by processes that may die first; chains of runs that wait for each other.  `PROJECT.json` lists each under `hazards`, at its
line, with the properties that would catch it.

## 2. Modules

| Module | What it is |
|---|---|
| `Lease` | the promise about a key: owner, time left, what each session was told, whom a human cleared |
| `LeaseProofs` | types, the claim invariant and exclusion of `Lease`, proved |
| `LeaseStore` | the store of one key on Unix, with every client of it: acquirers, waiters, holders, the operator, the pruner, crashes |
| `LeaseStoreProofs` | its types, its invariant, exclusion, no stealing, that it implements `Lease`, and its queue: slots are kept and nobody barges, proved |
| `RunLease` | one `run` from the granted lease to its exit, against an environment of sessions and operators |
| `RunLeaseProofs` | types, no leaked lease, the cap on the hold, the overlap, the protection of the command and the cause of a loss, proved |
| `WinGuard` | the guard on Windows: the marker file, contenders for it, crashes |
| `WinGuardProofs` | its types and its exclusion, proved |
| `Nesting` | agents with chains of runs over several keys: refusal, queues, deadlines, loss and reclaim inside a chain |
| `NestingProofs` | types, exclusion between and inside chains, and no circle of waiters, proved |
| `History` | `Lease` with the rows that each process writes, late or never |
| `HistoryProofs` | that it implements `Lease`, its types, the account, single endings, and that who was told is recorded, proved |
| `Readers` | `LeaseStore` with one guard-free reader: `Status` step by step, as `status`, `wait` and the dry run use it |
| `ReadersProofs` | that it implements `LeaseStore`, its types, and what its answers mean, proved |
| `Keys` | from a key to its directory's name and back |
| `KeysProofs` | that decoding undoes encoding, that only keys differing in case can share a directory and that names are safe, proved for every valid key |
| `MCHistory`, `MCLeaseStore`, `MCRunLease`, `MCWinGuard`, `MCNesting`, `MCReaders` | instances for TLC; `MCNesting` also checks `Keys` |

`LeaseStore` implements `Lease` (`Implements`, with `owner <- token`).
`RunLease` uses the store's calls as single steps, which that refinement
justifies, and has an environment no stronger than `Lease` lets the other
sessions be.  `WinGuard` stands by itself: it asks how far the marker file gives what
`LeaseStore` takes from the flock, and has a section as one state.  `History`
and `Readers` add variables to `Lease` and to `LeaseStore` and change nothing of theirs
(`HistoryImplementsLease`, `ReadersKeepStore`).  `Nesting` uses the store's calls as
single steps, over all keys, with the expiry of live runs' leases left out.

### LeaseStore and the code

| Model | Code |
|---|---|
| `token`, `left` | `holder.json`: its token, `ExpiresAt` minus now (0 once expired: `ExpiredAt` is true at the very instant) |
| `queue`, `age`, `before` | the entries, now minus each mtime, the order of their names |
| `guard`, `at`, `lag` | the flock's holder, the step its section has reached, how long ago it read `now` |
| `doomed` | the entry `pruneKey` has just found stale for the second time |
| `pc[p]` | where a session is: `fast` (first attempt), `blocked`, `stamped` (has read `EnqueuedAt`), `poll`, `beat` (about to heartbeat), `rest` (deadline check and sleep), `held`, `lost`, or an end |
| `failed` | waiters whose last `TryAcquire` returned an error, so that `res` is nil |
| `grant` | what the session was told: `ExpiresAt` in the returned `Holder`, minus now |
| `ahead`, `unread`, `cleared` | ghosts: who was queued ahead when a section began; whose entry it failed to read or parse; whose lease was force-released |
| `Enter`, `Scan`, `Write`, `Finish`, `Fail` | one `TryAcquire`: expiry check, `readQueue` (any entry may be passed over) and queue head, `writeHolder`, `removeQueueEntry` with the unlock, an I/O error |
| `RemoveEntry` | `removeQueueEntry` and `Dequeue`, whose errors the callers ignore: the entry may stay |
| `FindHeld`, `GuardTimeout` | `TryAcquire` ends at once on a live lease; it gives up behind a wedged peer |
| `Start`, `GiveUp`, `Stamp`, `Enqueue`, `Heartbeat`, `Wake`, `Timeout`, `Interrupt` | `acquireBlocking` around it |
| `Renew`, `Reclaim`, `Lose`, `Release` | `renew`, the watchdog's reclaim, its loss (another's token, a live lease at the reclaim, or failures past the last known expiry), `release` |
| `Crash`, `ReusePID`, `FreePID` | a death at any point (also an agent that abandons its token); PID reuse, which `waiterFresh` allows for |
| `ForceRelease`, `PruneEnter`, `PruneJudge`, `PruneRemove`, `PruneExit` | the operator's commands; prune's last stat and its remove are two steps, and an entry that `waiterIdentity` fails to read goes by its mtime alone |
| `Tick` | one unit of time passes |

Time is relative, so the state space is finite without a bound on the run: every
clock is the difference to the present instant, floored at 0 (`left`, `grant`) or
capped just above the largest value any comparison tells apart (`age`, at
`AgeCap`).

Abstractions.  A session is named by its process; a fresh token or waiter id is a
name of which nothing is left on disk, so `Start` waits for that.  `removeQueueEntry`
and the sessions' exit forget a name's order.  Reading the queue is one step of
the section (the entries' mtimes are read one after the other in the code, within
one section, against one clock reading).  Equal `EnqueuedAt`
nanoseconds are ordered by waiter id in the code, here by who read the clock first.
A session renews with its own `TTL`.  A corrupt `holder.json` acts as an I/O error.
All clocks agree: the store is one filesystem's, and `Remote` only means that
the PID cannot be probed.

### RunLease and the code

| Model | Code |
|---|---|
| `owner`, `left` | `holder.json`, by whether its token is `lease.token` |
| `watch`, `busy`, `good` | the watchdog: in its select, before the section of `Renew` or of the reclaim, after it (the row is still to write), stopped; how long its call has taken; `lastGood` |
| `next`, `due` | the ticker: a tick that finds its channel full is dropped |
| `lost`, `lostSeen` | `leaseLost` closed; the signal goroutine has set it to nil |
| `sig`, `escalating`, `kill`, `hold`, `maxHoldHit` | `sigc`, the flag, `killAfterGrace`'s timer, `maxHoldC`, the atomic |
| `main`, `child`, `code` | the main goroutine, the command, the exit code |
| `OtherHolds`, `OtherReleases`, `Cleared` | the other sessions; the operator, a prune, or the child with an exported token |
| `TickArrives`, `Renew`, `Reclaim`, `Return`, `StopWatch` | the watchdog's select and its two calls, each a section and the return after it |
| `Extend` | the write inside the section: the TTL counts from its clock, not from the return |
| `Forward`, `SeeLoss`, `HoldTooLong`, `KillTree` | the signal goroutine's cases; SIGKILL |
| `StartChild`, `ChildWaited`, `Joined`, `Release` | `runChild` and the end of `cmdRun` |
| `Suspend` | the host sleeps until every lease has expired; Go's timers have stood still or run out |

The goroutines take no time between their blocking points (`Urgent` must happen
before `Tick`), a store call takes up to `CallMax`, before its section, after it, or both together;
the lease that `acquireBlocking` returns with is up to `CallMax` old as well.  `sigc` holds one signal
instead of four: further ones change nothing once the first has been read.
A SIGTERM that the child heeds is `ChildEnds`, one that it traps is its absence.

### WinGuard and the code

| Model | Code |
|---|---|
| `marker`, `age` | the `.excl` file, by the call whose identity is in it; now minus its mtime |
| `pc[p]` | in `lockGuard`: before its create, its write, its stat, its rename; in the section; in `release`, before its remove |
| `waited` | the time since the call began, against `deadline` |
| `Call`, `Create`, `Write` | the entry, the exclusive create, `WriteString` and `Close` |
| `FindStale`, `Rename` | the stat that finds the marker stale; the rename by path, which may fail, with `continue` |
| `Poll`, `GiveUp` | the young marker: once more, or the deadline |
| `Verify`, `Remove` | `release`: the identity is read; the remove by path |
| `Fail` | a death at any point; an error of the create, of the read or of the remove |
| `overdue` | ghost: a marker has outlived `guardStaleAfter`, or the call that made it |

A marker whose call is over is an `Orphan`: nobody will remove it but by a reclaim.  A file
that is open can be neither renamed nor removed on Windows (`Open`); that a reader of
another process has it open for an instant is one of the failures of `Fail`.
A reclaim whose rename fails, for whatever reason, or wins and then deletes the graveyard file,
goes on in the same way: it starts over, without a look at its deadline.

### Nesting and the code

| Model | Code |
|---|---|
| `owner[k]`, `queue[k]` | `holder.json` and `queue/` of each key; a run goes by its agent and its depth |
| `stack[a]` | the keys of an agent's runs, each the parent of the next (`cmd_run.go:98-115`) |
| `LeaseKey(a)` | `AGENTMUTEX_LEASE_KEY` as the innermost command sees it |
| `want[a]`, `timed` | the key that `acquireBlocking` of the innermost command polls for; who does so with a `--timeout` |
| `TakeNow`, `Refused`, `Join` | the fast path, `ExitHeld` on the inherited key, `Enqueue` |
| `Take`, `Timeout`, `Interrupt` | the poll loop's ends |
| `Finish` | the child ends, its run releases by its own token |
| `Reclaim`, `Lose` | the watchdogs of all runs of the chain, which go on while the child waits |
| `Clear`, `Crash`, `Expire` | a force-release or an early release; a chain or its inner end dies; the leases of the dead run out |

A refused command returns to its caller, who goes on: no step of its own.  The entry of a
dead process is dropped at once (`waiterFresh` does so for a local one).  A run whose lease
is lost goes on until `Finish`, as with `--on-lease-loss continue`; `terminate` only adds
`Interrupt`s.  With a `--timeout` an agent waits for any key; without one an `Ordered` agent waits for keys
above those of its runs, or for the one it works under (`UpTheOrder`): who is careful is an assumption
on the scripts, not on the program.  A run that dies takes the runs inside it along (a child that
outlives its dead parent is an agent with an expiring lease outside its chain, and left out).

### History and the code

| Model | Code |
|---|---|
| `log` | the `events` table in the order of its ids |
| `todo[x]` | the `record` calls that process `x` has still to make |
| `missed` | ghost: rows that `Record` failed to write, or whose process died |
| `made` | the lease id of the lease on record (or of the last one) |
| `TakeTold`, `RenewTold`, `ReleaseTold`, `OverrideTold` | the guarded part of each operation; it leaves the rows to write |
| `Displaced` | the `expired` row for the lease that was still on record |
| `ReapTold`, `GuardFree` | prune's removal, after which it records with the guard held |
| `GrantTold`, `Returned` | the call returns, after its rows |
| `Record`, `Miss` | `Store.record`: the insert, or the warning |

A `reclaimed` row counts as `acquired`.  A `force-released` row without a lease id (of a
document that cannot be read) is left out, as `Lease` has none.  The operator makes one call
at a time.

### Readers and the code

| Model | Code |
|---|---|
| `late`, `unexpired` | how old the reading `now` is; how the `ExpiresAt` on disk compares to it |
| `report` | `KeyStatus.State` |
| `names`, `listed` | the directory entries still to open; the waiters that are fresh |
| `Look`, `ReadHolder`, `ReadDir`, `ReadEntry`, `Show` | `statusFromDir` and `readQueue`, between which anything may happen |
| `ReadHolderFails`, `ReadDirFails` | `holder.json`, or the queue, cannot be read; in `ReadEntry` an entry may fail to be read or parsed and is passed over |
| `Done` | `status`, the dry run or `wait` ends; `wait` looks again at a held key |
| `saw`, `stayed` | ghosts: whether the key was leased, at the instants of this call; the prompt waiters with an entry all through it that did not fail to be read |

Entries are opened in any order, which includes the sorted one.  `holder.json` is replaced by
a rename, so reading it is one step.  Entries that are not fresh are shown apart and not
modelled.  A `holder.json` that cannot be read, or not be parsed, is reported `corrupt` here for both
`corrupt` and `unreadable`, so that `unreadable` is left for the queue.

### Keys and the code

A key is a sequence of byte values; each definition has its name in `keys.go`.  The two loops are
recursive functions: `Written` of how many bytes of the key have been written, `DecodeKey` of
the byte it has come to.  `DecodeKey` returns the set of keys the name stands for: none (an error
in the code) or one.  `RoundTrip` says that decoding undoes encoding; `SafeName` that a name
has no separator, is no device, does not end in a dot and is no longer than three times its key.  `ToLower` is also what a file system sees that tells no case apart.

## 3. What each run checks

| Run | Instance | Shows |
|---|---|---|
| `lease` | 3 symmetric sessions, TTL up to 3, an operator and a pruner, 3 leases, 1 renewal | `Exclusion` and its reason `ClaimsRecorded` on the abstract lease; `Accounted`, `EndsOnce` and `ToldIsRecorded` of its changelog |
| `store` | a local and a remote session, both `run` and timed, TTL 2, windows 1 and 2, a section that may stall 1; every fault | `StoreInv`, `MutualExclusion`, `NoStealing`, `Implements`; and, under `FairSpec`, `EveryWaitEnds` |
| `store_queue` | 3 sessions: local, remote, and one whose heartbeats may stop; plain `acquire`s of TTL 1 without a timeout, told apart by `QueueView` | `NoBarging` and `PromptKeepsSlot`, which need a third to come between two |
| `run` | TTL 6, interval 2, kill grace 1, max-hold 0 or 3, calls of up to 1; both loss modes | `Protected`, `NoLeak`, `OverlapBounded`, `MaxHoldBounded`, `LossHasCause`; under `FairSpec`, `EscalationEnds` |
| `nesting` | 2 agents, 2 keys, chains of 2; each wait up the order without a deadline, or anywhere with one | `NestedExclusion`, `NoCircle`; under `FairSpec`, `AllWaitsEnd`; `EncodingSound`, an assumption about `Keys` |
| `readers` | a local and a remote `acquire` of TTL 2, windows 1, told apart by `ReadersView`, a section that may stall 1, a `Status` that may take 2 | `WaitSawFree`, `HeldWasSeen`, `HolderKept`, `StatusComplete` |
| `acquire_timeout` | 2 sessions, one timed | finding 1 |
| `prune_live_entry` | a starved local waiter beside the pruner | finding 2 |
| `run_self_loss` | as `run` | finding 3 |
| `run_untold_collision` | as `run`, calls take no time, no cap | finding 4 |
| `win_guard` | 3 contenders, one may die; stale after 1, deadline 2, live markers may grow stale | `GuardExcludes`; under `FairSpec`, `CallEnds` and `OrphanGoes` |
| `win_live_marker` | the same, live markers never grow stale | finding 5 |

Why the bounds are enough to be interesting.  A TTL of 2 with a stall of 1 lets a
lease be recorded that is partly used up, renewed between, and expired in a stalled
section.  The windows 1 and 2 put the remote one below and the local one above
the stall, as 30 s and 5 min are in the code, and `AgeCap` leaves an entry stale by
both even to a late clock.  A stall beyond `SectionMax` adds nothing new to
exclusion (the proofs have it as a parameter).  In `store_queue` leases
are short, since what is asked there is who comes next; what a loss or a deadline does to a session is
`store`'s; the two views leave out variables that, without deadlines and watchdogs, no step and no
property of the run reads (`grant`, `cleared`, `failed`, and in `readers` the store's other ghosts).  In `RunLease` a call
takes less than an interval (at one interval or more `Protected` fails, see 6), so renewals, ticks and returns
interleave, and the cap of 3 falls between two renewals and inside the kill grace of an earlier signal.  In `WinGuard` a marker can be
young, stale to `>=` only, and stale, the deadline is after that as 90 s is after 60 s,
and three contenders leave two to race for the marker of a third.  In `History` a lease can be
displaced, and the one after it be acquired, while the rows of the first are on their way, and a
third shows that the account goes on.  In `Nesting` two keys and two agents make the circle, and a
chain of two lets a command call itself again, lose an outer key while it waits for an inner one, and
die alone under a run that lives; without the order the two agents do wait for each other (`UpTheOrder_Any`).  In `Readers` a `Status` may last as long as a whole lease, and
longer than the window of the remote waiter.  `EncodingSound` goes over all keys of up to four
bytes out of a letter of each case, a digit, the dot, the hyphen, the colon and the slash, and over
every device name, in lower case and capitalised, with six endings.

Properties and what they are about:

- `MutualExclusion`: of the sessions that were told they hold the key and were not
  force-released, at most one is within the time it was told.
- `NoStealing`: a live lease leaves its session by that session's release or a
  force-release only.
- `Implements`: each step of the store is a step of `Lease` or leaves it alone.
- `NoBarging`: when an acquire is about to write, nobody who was queued ahead of it
  when its section began, heartbeats within the window and has an entry that the section could read, is still
  waiting.  (An entry that cannot be read at that moment does not count: `readQueue` says so.)
- `PromptKeepsSlot`: such a waiter loses its entry, while it waits, only to a pruner that could not
  read it, and so took it for a remote one.
- `EveryWaitEnds`: a waiter with an entry does not wait for ever.
- `Protected`: unless somebody meddles, a call fails or the host sleeps, the command
  runs under run's own live lease.
- `NoLeak`: run leaves its lease behind only when the release itself fails.
- `OverlapBounded`: beside another's live lease the command runs for at most the
  pause between two renewals, two calls and the kill grace; plus the TTL when calls fail.
- `MaxHoldBounded`: cap plus grace, whatever came first.
- `LossHasCause`: run gives its lease up for lost only when another session has it, or a call of
  the store has failed (that one failed call is enough is finding 3).
- `EscalationEnds`: once it must end, it does.
- `GuardExcludes`: until a marker outlives its staleness or its own call, no two
  processes are inside.  (After that they can be: finding 5.)
- `CallEnds`: a call of `lockGuard` gets the guard or gives up, unless it finds stale markers for ever.
- `OrphanGoes`: while somebody asks, the marker of a dead process does not stay, once faults and
  failing renames have ceased.
- `Accounted`: the rows written, on their way and lost say of every lease that it was acquired, and
  that it ended exactly if it did, however it did.
- `EndsOnce`: the log has no two endings of a lease, though a waiter, the pruner, the owner and
  a human may all meet its end.
- `ToldIsRecorded`: a session that may rely on a lease is in the log, unless its row was lost.
- `NestedExclusion`: a run that nobody cleared owns its key, whatever its own chain and others do.
- `NoCircle`: of agents that wait without a deadline, in any set of them somebody waits for none of the
  set: two that hold one key each and want the other's cannot both be there.
- `EncodingSound` (of constants, so an assumption that TLC evaluates): encoding loses nothing, and its
  names are safe.
- `AllWaitsEnd`: a wait up the order of the keys, or with a deadline, ends.
- `WaitSawFree`, `HeldWasSeen`: what `status` and `wait` answer was true at an instant of the call.
- `HolderKept`: a queue that cannot be read does not hide a lease.
- `StatusComplete`: a waiter that was there all along, prompt, and did not fail to be read, is in the
  answer.

The promptness in `NoBarging`, `StatusComplete` and `PromptKeepsSlot` is a premise on the host, not on
the code: `Tick` does not let a waiter outside `Starvable` miss its window, because
the code promises a slot only to those who keep it.  A waiter in `Starvable` may
miss its heartbeats without bound, and then may be overtaken.

Each property has a mutation of the code in `PROJECT.json` that breaks it; the
mutated forms are the operators marked `Mutation:` in the modules.

## 4. Fairness

`LeaseStore!Scheduling`: a process's own next step comes (`WF` on the section's
steps, which no one else can disable except by a death, and on the loop's);
`SF` on taking the guard, since others take it in between and the code asks for it every
5 ms for 30 s against sections of milliseconds; `SF` on `run`'s release, because its
watchdog may be renewing (this says that a wrapped command ends, by itself or by
`--max-hold`); the sweep ends; time passes.  A plain `acquire` session is
never assumed to release: its lease ends by expiry if it is not renewed for
ever.  `Healthy` says that I/O errors, unreadable entries and guard timeouts cease: all are
errors to the code.  Nothing is assumed of crashes, signals, timeouts, renewals,
force-releases or newcomers.  Sessions that are not in `Runs` and renew for
ever would keep the key legitimately, so `EveryWaitEnds` is checked with both
sessions in `Runs`.

`RunLease!Fairness`: every goroutine runs; `SF` on `StopWatch`, since Go's select takes
a ready case at random and so does not prefer the ticker for ever; `SF` on `Tick`, as
signals cannot stop time.  The child is never assumed to end by itself.

`WinGuard!Fairness`: a process that does not die runs on, and time passes; nothing else.  `CallEnds`
therefore names the one way in which a call goes on for ever: it finds stale markers again and again,
because its renames fail or others leave new ones, and starts over each time without a look at its
deadline (`guard_windows.go:67`).  `OrphanGoes` has its own premise (`Mended`): the faults, and the
renames that fail on the marker of a dead process, come to an end.

`Nesting!Fairness`: a command that waits for nothing ends, at each depth (`SF`, because it may
ask for keys in between for ever, and whether it does is up to the script); the head of a queue
finds a free key at one of its polls (`SF`, as a reclaim may take the key from under it); deadlines
pass and abandoned leases expire (`WF`).  Nothing is assumed of crashes, clears, signals and the
watchdogs.

## 5. Findings

Each is a run with a counterexample; none is an abstraction's artefact.

1. `acquire_timeout`: `cmd_acquire.go:201` evaluates `describeBlock(res, ...)` when the
   deadline has passed.  After a failed attempt `res` is nil and `describeBlock` reads
   `res.Holder` (`cli_common.go:220`): a panic instead of exit 11.
2. `prune_live_entry`: between `pruneKey`'s second stat and its remove a late heartbeat
   can make the entry fresh; the entry of a live waiter goes.  Its next heartbeat
   writes it again, under the same name; until then it can be overtaken.
3. `run_self_loss`: after one failed renewal the reclaim finds run's own live lease,
   takes it for another's, and the command is killed long before the TTL.
4. `run_untold_collision`: a competitor that comes and goes between two renewals is
   never reported; run exits with the command's own code.
5. `win_live_marker`: two contenders find the marker of a dead process stale; the first
   renames it away and creates its own; the second's rename, by path, takes away that live
   marker, and it goes on to create a third: two are inside.  `ROADMAP.md:105-107` knows of
   the gap; the comment at `guard_windows.go:17-19` and `docs/DESIGN.md:53-55` exclude it.

Divergences met while modelling that have no run:

- A nested acquire is refused only on the innermost key (`cmd_acquire.go:135`).  A command that runs
  under A, then under B, and asks for A again waits for its own ancestor, although
  `README.md:173` says of a nested acquire on the same key that it "fails fast with a self-deadlock
  message instead of blocking forever".  The comparison does not look at the store's directory
  either: the same key of another store is refused.  It compares keys byte by byte, where the store may
  not tell case apart.
- `pruneKey` records under the guard (`store.go:783`), while `store.go:178-180` says "Called outside
  the per-key guard" and `internal/history/history.go:11-12` that writes "never extend a lock critical section".
- A call of `lockGuard` on Windows whose rename of a stale marker keeps failing (another process has it
  open) spins without a pause past `guardAcquireMax` (`guard_windows.go:60-67`); neither the
  guard's own bound nor, inside that call, the `--timeout` that "still bound[s] the wait" (`cmd_acquire.go:176-177`)
  is looked at.
- `README.md:133-136` says that keys differing only by case share one lock on a case-insensitive
  file system.  Device names do not: `CON` is in `%43ON` and `con` in `%63on` (`keys.go:75`).  The other
  direction is a theorem: who shares a directory differs in case alone.
- The log is ordered by insertion: rows of two leases can be interleaved, the acquisition of the
  later one first.  `Accounted` and `EndsOnce` hold nevertheless.

## 6. What is proved

From the modules' own assumptions on their constants only (any sets of sessions, agents and keys,
any TTLs, any windows with `StaleAfter <= Grace`, any stall, any cap, grace and call time, any depth
of nesting, any number of leases):

- `LeaseProofs`: `TypeCorrect`, `ClaimsAreRecorded`, `ExclusionHolds`.
- `LeaseStoreProofs`: `TypeCorrect`, `StoreCorrect` (`StoreInv`), `ExclusionHolds`
  (`MutualExclusion`), `NothingStolen` (`NoStealing`), `StoreImplementsLease`
  (`Implements`), `QueueCorrect` (`QueueInv`), `SlotsKept` (`PromptKeepsSlot`),
  `NobodyBarges` (`NoBarging`).
- `RunLeaseProofs`: `TypeCorrect`, `NothingLeaks` (`NoLeak`), `CapHolds`
  (`MaxHoldBounded`), `CommandProtected` (`Protected`, for calls that take less than
  an interval: the TTL counts from the section's clock, so what a call takes after its section, before
  the next tick's section and in waiting for it all use it up; with calls as long as an interval TLC
  finds the lease expired under the command), `OverlapHolds` (`OverlapBounded`), `LossesHaveCauses` (`LossHasCause`).
- `WinGuardProofs`: `TypeCorrect`, `OwnerCorrect` (`OwnerInv`), `GuardIsExclusive`
  (`GuardExcludes`).
- `NestingProofs`: `TypeCorrect`, `ExclusionHolds` (`NestedExclusion`), `NobodyInACircle`
  (`NoCircle`, for finitely many agents, each of which waits up the order or with a deadline; a careless
  one without a deadline can wait for itself).
- `HistoryProofs`: `HistoryImplementsLease`, `HistoryExcludes` (`Exclusion`), `HistoryTypeCorrect`,
  `EverythingAccounted` (`Accounted`), `EndingsSingle` (`EndsOnce`), `ToldAreRecorded`
  (`ToldIsRecorded`).
- `ReadersProofs`: `ReadersKeepStore`, `ReadersTypeCorrect`, `NobodyIsMissed` (`StatusComplete`), `WaitIsRight` (`WaitSawFree`), `HolderIsKept`
  (`HolderKept`), `HeldIsRight` (`HeldWasSeen`, from `ShortSections`: a section takes less than
  any TTL.  Otherwise a lease may be written that is used up already, and an older clock still
  sees it as held).
- `KeysProofs`: for every key of bytes that `ValidKey` lets through, `KeysRoundTrip`,
  `SharedOnlyByCase` (directory names that differ in case at most belong to keys that do) and `NamesAreSafe`.

The argument for exclusion.  Exclusion alone is not inductive: it says nothing about `holder.json`.
`ClaimInv` ties the two: who was told it holds the key has its token on record, and
for at least as long as it was told.  It is kept by a write only if no live lease of
another is there to be overwritten, and that is known where the section entered,
steps and possibly time before: `SectionInv` carries it to the write.
A section that is to write either found nothing left, which time cannot undo
while it has the guard, or renews its own token, and then writes an expiry not
before the recorded one although its clock reading is `lag` old; for this `LeaseInv`
bounds what is recorded by the TTL that was asked for.  `GuardInv` says which sections exist at all.
`StoreInv` is their conjunction; `SectionStep` and `ClaimStep` prove each part per
action, `QuietSteps` collects the many actions that leave record and claims alone.

The refinement sends `Write` to `Take` or `Renew`, `Finish` to `Grant`, the ends of a
session to `Forget` or `Release`, prune's removal to `Reap`, and the queue to nothing.

The argument for the queue.  `SlotInv`: a prompt waiter has an entry within its window,
so no reading of the clock finds it stale; hence the pruner dooms it only if it could not read it, and a doomed
name cannot return as a new session before it is removed.  `OrderInv`: only sessions with
a name are ordered, one way, because a session that is about to get a name has none.
`AheadInv`: while a section lasts, nobody ahead of it can get a new, later name, since no
`TryAcquire` of theirs can report a blocker; so the head that the scan finds has no prompt
waiter ahead among those that could be read (`unread` has the others), and this lasts to the write.

The argument for `run`.  No lease leaks because the watchdog has returned before the
release (`EndInv`).  The cap holds because a running command always has either its cap
ahead of it or a killer on its way, and the sum of what it has run and the timer that is
on never exceeds the bound (`CapInv`).  The command is protected because two intervals, less a
call and what the present call has taken, are left whenever the watchdog is at a tick, and each call has
returned before the next (`DogInv`).  In `RunLeaseProofs` the types are split into
numbers, names and truth values: each is a matter of a prover of its own.
The overlap is bounded by a variant: `Remaining` is the time until the command is dead at the
latest - what the killer's timer shows once there is one, before that the next tick or the return of
the present call, two calls and the grace - and no step but a failed call puts the sum of the overlap and `Remaining` up
(`NeverLater`).  A call that fails starts it anew, but only while `good`, the last expiry known of,
is ahead, and the overlap and `good` together never exceed the TTL (`Late`).  `BesideStep`
lists what can happen to a command beside another's lease, so that the arithmetic is apart
from the actions.

The argument for the marker file (`OwnerInv`): while nothing is overdue, the marker there is
that of the only call past its create and is not stale, so nobody goes on to a rename and
what a release removes is its own.

The argument for chains (`ExclusionInv`): a chain grows and shrinks at its end only, so the key of a
run is fixed while it lives; a key is given away only if it is free or by whoever has it.

That nobody waits in a circle needs one thing more (`Climbs`): a careful agent that waits without a deadline is after
a key above all those of its runs.  So of the agents in a set, the one that waits for the highest
key waits for none of the set; that there is a highest one is an induction over the size of the
set.  The watchdogs are in this: a reclaim takes a key back for a run whose chain waits for another.

The argument for the causes of a loss (`CauseInv`): the watchdog reclaims a key that it has found
without a lease, and only itself puts run's lease back; so it can meet run's own only after a
renewal that failed.

The argument for the log.  `Rows`, wherever a row is, only grows, and each action that ends a lease
puts one ending row into `todo` as it does so: `AccountInv` follows.  `OnceInv` adds that no two
rows, in whatever list, are endings of one lease; `ToldInv` that the row of the present lease's
acquisition is noted or still with its owner, who has not been told until it is written.

The argument for the readers.  From the clock reading to the reading of the file, an expiry on disk
that lies behind the clock means that the key has been without a lease since (`FreeInv`), one
that lies ahead that it has been leased (`HeldInv`): a write can turn either into the other, and
then is itself the instant that is asked for.  Nobody is missed (`CompleteInv`): who was there all
along is among the names still to open or listed already, and its entry, fresh to the store by
`SlotInv`, is fresh to the older clock of the reader; if it failed to be read, it is no longer in `stayed`.

The argument for keys.  The loops compute over data, so the induction is over numbers, and since
the library's induction theorems take an operator, it is made from a set: a set of numbers that has 0 and
the successor of each of its members is `Nat` (`SetInduction`, from the well-foundedness of `<`).  With
it the recursive functions are shown to exist and to satisfy their equations (`Decoding`,
`Filling`).  `Spells(name, key, at)` then says that the name is the key piece by piece, each piece
a plain byte or an escape.  A name that spells a key decodes to it (`SpelledDecodes`, from the last
byte to the first), what the loop writes spells the key (`WrittenSpells`), and so does
what the two last steps of `EncodeKey` make of it (`EscapeFirst`, `EscapeLast`: a name can
only end in a dot by a plain dot, since no digit is one).  Two names that agree in either case have
their pieces at the same places, from the first on, since an escape is its own lower case and no plain byte's
(`SameSpelling`); equal digits make equal bytes, and plain bytes differ in case at most.  Safety of the names is read off the pieces,
except for the devices: an escape in front makes any name harmless; escaping a dot at the end either
leaves the stem as it was or puts an escape into it.

Only model-checked: liveness (`EveryWaitEnds`, `EscalationEnds`, `CallEnds`, `OrphanGoes`,
`AllWaitsEnd`), which is out of the prover's reach.  Every invariant and every action property of
the passing runs is a theorem (`EncodingSound`, over short keys, as `KeysRoundTrip` and
`NamesAreSafe`, over all of them).

## 7. Not modelled, and the plan

Next, the most important first:

1. `renew` with another `--ttl` than the lease's; the child's copy of a token that was rotated.
2. The phase of `run` before it holds the lease: a signal between its own registration and that of
   `acquireBlocking` (`cmd_acquire.go:161`).
3. The sweep of temp files, with a writer that stalls between its write and its rename.
4. `RunLease` and `Nesting` as implementations of `Lease`.  Their calls of the store are single
   steps, each a `Take` and its `Grant` in one, so `Lease` would need such a step first.

Left out for good: `List`, which is one `Status` per directory after the other; `Query`, which
reads rows by id and changes nothing; flag parsing and output, SQL, terminal and process-group
system calls.
