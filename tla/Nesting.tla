------------------------------ MODULE Nesting ------------------------------
(***************************************************************************)
(* Commands of `run` that call `run` again, over the keys of one store     *)
(* (cmd_run.go around acquireBlocking).  An agent's processes form a       *)
(* chain: each `run` holds its key around the next one, and only the       *)
(* innermost command works or waits.  What a nested acquire knows of the   *)
(* chain is AGENTMUTEX_LEASE_KEY, which each run sets for its own command: *)
(* the innermost key alone.                                                *)
(*                                                                         *)
(* A call of the store is one step here (LeaseStore implements that), an   *)
(* entry of a dead process is no entry, and a lease is renewed while its   *)
(* run lives: what ends it early is Clear.                                 *)
(***************************************************************************)
EXTENDS Integers, SequencesExt

CONSTANTS Agent,
          Key,       \* numbers: the order in which careful agents wait
          Ordered,   \* the careful agents
          MaxDepth,  \* bound: runs of one agent inside each other
          NoKey, NoRun

ASSUME NestingAssumption ==
  /\ Key \subseteq Nat
  /\ Ordered \subseteq Agent
  /\ MaxDepth \in Nat \ {0}
  /\ NoKey \notin Key
  /\ NoRun \notin Agent \X (1..MaxDepth)

VARIABLES owner,    \* the run whose token is in each key's holder.json
          queue,    \* the waiters of each key, first come first
          stack,    \* the keys of each agent's runs, the outermost first
          want,     \* the key that an agent's innermost command waits for
          timed,    \* the agents that wait with a --timeout
          lost,     \* runs whose watchdog has met another's lease
          cleared   \* ghost: runs whose lease was taken from them

vars == <<owner, queue, stack, want, timed, lost, cleared>>

(* A run is named by its agent and its depth; its token goes by that name. *)
Run == Agent \X (1..MaxDepth)

Depth(a) == Len(stack[a])

Live(r) == r[2] <= Depth(r[1])

KeyOf(r) == stack[r[1]][r[2]]

Innermost(a) == <<a, Depth(a)>>

Free(k) == owner[k] = NoRun

(* The lease of a run that is gone.                                        *)
Orphan(k) == ~Free(k) /\ ~(Live(owner[k]) /\ KeyOf(owner[k]) = k)

Working(a) == want[a] = NoKey

(* Who waits has its one entry, and nobody else has.                       *)
TypeOK ==
  /\ owner \in [Key -> Run \cup {NoRun}]
  /\ queue \in [Key -> Seq(Agent)]
  /\ stack \in [Agent -> Seq(Key)]
  /\ \A a \in Agent : Depth(a) <= MaxDepth
  /\ want \in [Agent -> Key \cup {NoKey}]
  /\ timed \subseteq {a \in Agent : ~Working(a)}
  /\ lost \in SUBSET Run
  /\ cleared \in SUBSET Run
  /\ \A k \in Key : /\ ToSet(queue[k]) = {a \in Agent : want[a] = k}
                    /\ IsInjective(queue[k])

Init ==
  /\ owner = [k \in Key |-> NoRun]
  /\ queue = [k \in Key |-> <<>>]
  /\ stack = [a \in Agent |-> <<>>]
  /\ want = [a \in Agent |-> NoKey]
  /\ timed = {}
  /\ lost = {}
  /\ cleared = {}

-----------------------------------------------------------------------------
(* Acquiring                                                               *)

(* AGENTMUTEX_LEASE_KEY as the innermost command sees it.                  *)
LeaseKey(a) == IF stack[a] = <<>> THEN NoKey ELSE Last(stack[a])

(* A command asks for a key.                                               *)
Asks(a) == Working(a) /\ Depth(a) < MaxDepth

(* Mutation: a careful agent waits in any order.                           *)
UpTheOrder_Any(a, k) == TRUE

(* Where a careful agent may wait for as long as it takes: above the keys  *)
(* of its runs, or by mistake at the key it is working under.              *)
UpTheOrder(a, k) ==
  a \in Ordered => \A i \in 1..Depth(a) : stack[a][i] < k \/ k = LeaseKey(a)

(* The lease is granted and its command starts.                            *)
Push(a, k) ==
  LET r == <<a, Depth(a) + 1>> IN
  /\ owner' = [owner EXCEPT ![k] = r]
  /\ stack' = [stack EXCEPT ![a] = Append(@, k)]
  /\ lost' = lost \ {r}
  /\ cleared' = cleared \ {r}

(* Mutation: the leases of one's own chain are reentrant.                  *)
TakeNow_Reentrant(a, k) ==
  /\ Asks(a)
  /\ owner[k] \in {NoRun} \cup {<<a, i>> : i \in 1..MaxDepth}
  /\ queue[k] = <<>>
  /\ Push(a, k)
  /\ UNCHANGED <<queue, want, timed>>

(* The first attempt, past nobody.                                         *)
TakeNow(a, k) ==
  /\ Asks(a)
  /\ Free(k)
  /\ queue[k] = <<>>
  /\ Push(a, k)
  /\ UNCHANGED <<queue, want, timed>>

(* Mutation: no self-reentry check.                                        *)
Refused_Never(a, k) == FALSE

(* Self-reentry: a blocked acquire of the key in the environment ends with *)
(* ExitHeld at once; the command that called it goes on.                   *)
Refused(a, k) == LeaseKey(a) = k

(* With a --timeout (t) an agent waits for any key.                        *)
Join(a, k, t) ==
  /\ Asks(a)
  /\ t \/ UpTheOrder(a, k)
  /\ ~(Free(k) /\ queue[k] = <<>>)
  /\ ~Refused(a, k)
  /\ want' = [want EXCEPT ![a] = k]
  /\ timed' = timed \cup {b \in {a} : t}
  /\ queue' = [queue EXCEPT ![k] = Append(@, a)]
  /\ UNCHANGED <<owner, stack, lost, cleared>>

Dequeue(a) ==
  /\ want' = [want EXCEPT ![a] = NoKey]
  /\ timed' = timed \ {a}
  /\ queue' = [k \in Key |-> RemoveFirst(queue[k], a)]

(* The head of the queue finds the key free.                               *)
Take(a) ==
  /\ ~Working(a)
  /\ Free(want[a])
  /\ Head(queue[want[a]]) = a
  /\ Push(a, want[a])
  /\ Dequeue(a)

(* Mutation: the entry of a wait that timed out stays.                     *)
Timeout_KeepsEntry(a) ==
  /\ a \in timed
  /\ want' = [want EXCEPT ![a] = NoKey]
  /\ timed' = timed \ {a}
  /\ UNCHANGED <<owner, queue, stack, lost, cleared>>

(* The deadline of a wait.                                                 *)
Timeout(a) ==
  /\ a \in timed
  /\ Dequeue(a)
  /\ UNCHANGED <<owner, stack, lost, cleared>>

(* A signal: the user's, or what a run above sends when its lease is lost. *)
Interrupt(a) ==
  /\ ~Working(a)
  /\ Dequeue(a)
  /\ UNCHANGED <<owner, stack, lost, cleared>>

-----------------------------------------------------------------------------
(* Holding                                                                 *)

(* The innermost command ends and its run releases, by its own token.      *)
Finish(a) ==
  /\ Working(a)
  /\ stack[a] # <<>>
  /\ owner' = [owner EXCEPT ![LeaseKey(a)] = IF @ = Innermost(a) THEN NoRun ELSE @]
  /\ stack' = [stack EXCEPT ![a] = Front(@)]
  /\ lost' = lost \ {Innermost(a)}
  /\ cleared' = cleared \ {Innermost(a)}
  /\ UNCHANGED <<queue, want, timed>>

(* The watchdog of a run whose lease was cleared takes the key back, past  *)
(* the queue, even one that its command gave up early by the exported      *)
(* token.                                                                  *)
Reclaim(r) ==
  /\ Live(r)
  /\ r \notin lost
  /\ Free(KeyOf(r))
  /\ owner' = [owner EXCEPT ![KeyOf(r)] = r]
  /\ cleared' = cleared \ {r}
  /\ UNCHANGED <<queue, stack, want, timed, lost>>

(* It finds another's lease, be it that of a run in its own chain.         *)
Lose(r) ==
  /\ Live(r)
  /\ r \notin lost
  /\ owner[KeyOf(r)] \notin {r, NoRun}
  /\ lost' = lost \cup {r}
  /\ UNCHANGED <<owner, queue, stack, want, timed, cleared>>

-----------------------------------------------------------------------------
(* The environment                                                         *)

(* A force-release, an early release with the exported token, or a prune   *)
(* after the host slept.                                                   *)
Clear(k) ==
  /\ ~Free(k)
  /\ owner' = [owner EXCEPT ![k] = NoRun]
  /\ cleared' = cleared \cup {r \in {owner[k]} : ~Orphan(k)}
  /\ UNCHANGED <<queue, stack, want, timed, lost>>

(* A run of a chain, and those inside it.                                  *)
Within(r) == {<<r[1], n>> : n \in r[2]..MaxDepth}

(* A run dies with what it runs, be it the whole chain or its inner end;   *)
(* their leases stay until they expire, and the command around goes on.    *)
(* (A waiting command that dies alone is an Interrupt: it leaves an entry  *)
(* of a dead process.)                                                     *)
Crash(r) ==
  /\ Live(r)
  /\ stack' = [stack EXCEPT ![r[1]] = SubSeq(@, 1, r[2] - 1)]
  /\ lost' = lost \ Within(r)
  /\ cleared' = cleared \ Within(r)
  /\ Dequeue(r[1])
  /\ UNCHANGED owner

Expire(k) ==
  /\ Orphan(k)
  /\ owner' = [owner EXCEPT ![k] = NoRun]
  /\ UNCHANGED <<queue, stack, want, timed, lost, cleared>>

Next ==
  \/ \E a \in Agent :
       \/ \E k \in Key : TakeNow(a, k) \/ \E t \in BOOLEAN : Join(a, k, t)
       \/ Take(a) \/ Timeout(a) \/ Interrupt(a) \/ Finish(a)
  \/ \E r \in Run : Reclaim(r) \/ Lose(r) \/ Crash(r)
  \/ \E k \in Key : Clear(k) \/ Expire(k)

Spec == Init /\ [][Next]_vars

-----------------------------------------------------------------------------
(* Safety                                                                  *)

(* NestedExclusion: a run that nobody cleared owns its key, whatever runs  *)
(* above, below and beside it do; so of two runs on one key, in one chain  *)
(* or in two, one was cleared (DESIGN.md: leases are not reentrant).       *)
NestedExclusion ==
  \A r \in Run \ cleared : Live(r) => owner[KeyOf(r)] = r

(* Who waits because of a live run of an agent in C.                       *)
BlockedBy(a, C) ==
  /\ ~Working(a)
  /\ ~Free(want[a])
  /\ ~Orphan(want[a])
  /\ owner[want[a]][1] \in C

(* NoCircle: no agents wait for each other in a circle, nor one for itself *)
(* (describeBlock's ExitHeld on the key in the environment), unless one of *)
(* them has a deadline: in every set of agents that wait without one, some *)
(* member waits for none of them, whoever was cleared, reclaimed or killed *)
(* before it got there.                                                    *)
NoCircle ==
  \A C \in SUBSET (Agent \ timed) : C # {} => \E a \in C : ~BlockedBy(a, C)

-----------------------------------------------------------------------------
(* Liveness                                                                *)

(* A command that waits for nothing ends, at each depth; a waiter that is  *)
(* the head finds the free key at one of its polls; deadlines pass and     *)
(* abandoned leases expire.  Nothing is assumed of who asks, crashes,      *)
(* clears, reclaims or is signalled.                                       *)
Fairness ==
  /\ \A a \in Agent : SF_vars(Take(a)) /\ WF_vars(Timeout(a))
  /\ \A a \in Agent, n \in 1..MaxDepth : SF_vars(Depth(a) = n /\ Finish(a))
  /\ \A k \in Key : WF_vars(Expire(k))

FairSpec == Spec /\ Fairness

(* AllWaitsEnd: agents that wait up the order, or with a timeout, end each *)
(* of their waits, whoever they wait for.                                  *)
AllWaitsEnd == \A a \in Agent : ~Working(a) ~> Working(a)
=============================================================================
