------------------------------ MODULE History ------------------------------
(***************************************************************************)
(* The changelog beside the lease (Store.record, internal/history): each   *)
(* process that changes holder.json appends rows about the lease it made   *)
(* or ended.  It writes them after the guard is released and before its    *)
(* call returns; the pruner alone writes its row inside the guard.  A row  *)
(* is lost when the process dies first or the database refuses it.         *)
(*                                                                         *)
(* The lease itself is module Lease; a lease id is the number of the lease.*)
(***************************************************************************)
EXTENDS Lease, SequencesExt

CONSTANTS Operator, Pruner,
          MaxLease,   \* bound: leases of the key, one after the other
          MaxRenew    \* bound: renewals in all

ASSUME HistoryAssumption ==
  /\ MaxLease \in Nat
  /\ MaxRenew \in Nat
  /\ Operator # Pruner
  /\ {Operator, Pruner} \cap Proc = {}

VARIABLES made,      \* how many leases there have been; the last has this id
          renewals,  \* how many renewals
          todo,      \* the rows each process has still to write
          log,       \* the rows of the events table, by id
          missed     \* ghost: rows that were lost

historyVars == <<made, renewals, todo, log, missed>>

Actor == Proc \cup {Operator, Pruner}

Endings == {"released", "force-released", "expired"}

(* `reclaimed` is an acquisition like any other here.                      *)
Row == [event : Endings \cup {"acquired", "renewed"}, lease : 1..MaxLease]

About(event, lease) == [event |-> event, lease |-> lease]

HistoryTypeOK ==
  /\ made \in 0..MaxLease
  /\ renewals \in 0..MaxRenew
  /\ todo \in [Actor -> Seq(Row)]
  /\ log \in Seq(Row)
  /\ missed \in SUBSET Row

HistoryInit ==
  /\ Init
  /\ made = 0
  /\ renewals = 0
  /\ todo = [x \in Actor |-> <<>>]
  /\ log = <<>>
  /\ missed = {}

-----------------------------------------------------------------------------
(* Rows                                                                    *)

(* Mutation: the call returns before its rows are written.                 *)
Returned_Early(x) == TRUE

(* A call has returned, to its session or to a human, once its rows are    *)
(* written; a process makes one call after the other.                      *)
Returned(x) == todo[x] = <<>>

(* The pruner keeps the guard while it writes its row.                     *)
GuardFree == todo[Pruner] = <<>>

Owe(x, rows) ==
  /\ todo[x] = <<>>
  /\ todo' = [todo EXCEPT ![x] = rows]
  /\ UNCHANGED <<log, missed>>

Record(x) ==
  /\ todo[x] # <<>>
  /\ log' = Append(log, Head(todo[x]))
  /\ todo' = [todo EXCEPT ![x] = Tail(@)]
  /\ UNCHANGED <<vars, made, renewals, missed>>

(* The database refuses a row, for good: there is only a warning.          *)
Miss(x) ==
  /\ todo[x] # <<>>
  /\ missed' = missed \cup {Head(todo[x])}
  /\ todo' = [todo EXCEPT ![x] = Tail(@)]
  /\ UNCHANGED <<vars, made, renewals, log>>

-----------------------------------------------------------------------------
(* Lease, with its rows                                                    *)

(* Mutation: the last lease counts as displaced however it ended.          *)
Displaced_Always == IF made > 0 THEN <<About("expired", made)>> ELSE <<>>

(* Mutation: nobody tells of a lease that was displaced.                   *)
Displaced_Never == <<>>

(* The expired lease that is still on record when a key is taken.          *)
Displaced == IF owner # NoProc THEN <<About("expired", made)>> ELSE <<>>

TakeTold(p) ==
  /\ GuardFree
  /\ made < MaxLease
  /\ Take(p)
  /\ made' = made + 1
  /\ Owe(p, Append(Displaced, About("acquired", made + 1)))
  /\ UNCHANGED renewals

RenewTold(p) ==
  /\ GuardFree
  /\ renewals < MaxRenew
  /\ Renew(p)
  /\ renewals' = renewals + 1
  /\ Owe(p, <<About("renewed", made)>>)
  /\ UNCHANGED made

GrantTold(p) ==
  /\ Returned(p)
  /\ Grant(p)
  /\ UNCHANGED historyVars

(* A session that dies takes the rows it has not written with it.          *)
ForgetTold(p) ==
  /\ Forget(p)
  /\ missed' = missed \cup ToSet(todo[p])
  /\ todo' = [todo EXCEPT ![p] = <<>>]
  /\ UNCHANGED <<made, renewals, log>>

ReleaseTold(p) ==
  /\ GuardFree
  /\ Release(p)
  /\ Owe(p, <<About("released", made)>>)
  /\ UNCHANGED <<made, renewals>>

OverrideTold ==
  /\ GuardFree
  /\ Override
  /\ Owe(Operator, <<About("force-released", made)>>)
  /\ UNCHANGED <<made, renewals>>

(* Mutation: the pruner does not look whether there is a lease.            *)
ReapTold_Blind ==
  /\ GuardFree
  /\ Reap
  /\ Owe(Pruner, <<About("expired", made)>>)
  /\ UNCHANGED <<made, renewals>>

ReapTold ==
  /\ GuardFree
  /\ owner # NoProc
  /\ Reap
  /\ Owe(Pruner, <<About("expired", made)>>)
  /\ UNCHANGED <<made, renewals>>

HistoryNext ==
  \/ \E p \in Proc :
       TakeTold(p) \/ RenewTold(p) \/ GrantTold(p) \/ ForgetTold(p) \/ ReleaseTold(p)
  \/ OverrideTold
  \/ ReapTold
  \/ \E x \in Actor : Record(x) \/ Miss(x)
  \/ Tick /\ UNCHANGED historyVars

HistorySpec == HistoryInit /\ [][HistoryNext]_<<vars, historyVars>>

-----------------------------------------------------------------------------
(* What the log is good for                                                *)

Rows == ToSet(log) \cup missed \cup UNION {ToSet(todo[x]) : x \in Actor}

(* Accounted: what the log, the rows on their way and the lost ones say    *)
(* together is the truth: every lease was acquired, and it has an ending   *)
(* exactly if it is over, whether its owner, a human, the next owner or    *)
(* the pruner ended it (TryAcquire, Release, pruneKey).                    *)
Accounted ==
  \A l \in 1..made :
    /\ About("acquired", l) \in Rows
    /\ (\E e \in Endings : About(e, l) \in Rows) <=> (l < made \/ owner = NoProc)

(* EndsOnce: the log never has two endings of one lease, though several    *)
(* processes may see it end (a waiter and the pruner both find it expired, *)
(* a human clears it as its owner releases it).                            *)
EndsOnce ==
  \A i, j \in DOMAIN log :
    /\ log[i].lease = log[j].lease
    /\ {log[i].event, log[j].event} \subseteq Endings
    => i = j

(* ToldIsRecorded: a session that may rely on a lease is in the log, or    *)
(* its row was lost: recording comes before the call returns, so whoever   *)
(* asks who had the key at a time finds the session.                       *)
ToldIsRecorded ==
  \A p \in Proc \ cleared :
    grant[p] > 0 => About("acquired", made) \in ToSet(log) \cup missed
=============================================================================
