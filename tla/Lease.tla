------------------------------- MODULE Lease -------------------------------
(***************************************************************************)
(* What agentmutex promises about one semantic key, whatever the store     *)
(* does on disk to keep the promise: a lease has one owner and a time      *)
(* left; a session that was granted the lease may rely on it until the     *)
(* expiry it was told of; only the passing of that time, the session's own *)
(* release or a human's force-release ends it.                             *)
(*                                                                         *)
(* Time is relative: "left" is the lease's ExpiresAt minus the present     *)
(* instant, never below 0, and Tick lets one unit pass.                    *)
(***************************************************************************)
EXTENDS Integers

CONSTANTS Proc,     \* the sessions that ask for the lease
          NoProc,   \* the owner of a free key
          MaxTTL    \* the longest time to live of a lease

ASSUME LeaseAssumption ==
  /\ NoProc \notin Proc
  /\ MaxTTL \in Nat

VARIABLES owner,    \* whose lease is on record
          left,     \* the time until it expires
          grant,    \* the time for which each session was told it holds the key
          cleared   \* sessions whose lease a human force-released

vars == <<owner, left, grant, cleared>>

TypeOK ==
  /\ owner \in Proc \cup {NoProc}
  /\ left \in 0..MaxTTL
  /\ grant \in [Proc -> 0..MaxTTL]
  /\ cleared \in SUBSET Proc

Init ==
  /\ owner = NoProc
  /\ left = 0
  /\ grant = [p \in Proc |-> 0]
  /\ cleared = {}

-----------------------------------------------------------------------------

(* Mutation: an expiry that is not floored at the present instant.         *)
Countdown_NoFloor(n) == n - 1

Countdown(n) == IF n > 0 THEN n - 1 ELSE 0

(* Mutation: a key is taken whether or not its lease is still running.     *)
Take_Live(p) ==
  /\ owner # p
  /\ owner' = p
  /\ left' \in 0..MaxTTL
  /\ UNCHANGED <<grant, cleared>>

(* A free or expired key is taken; a stalled writer may record a lease     *)
(* that has already used up part of its time, or all of it.                *)
Take(p) ==
  /\ left = 0
  /\ owner' = p
  /\ left' \in 0..MaxTTL
  /\ UNCHANGED <<grant, cleared>>

(* A renewal never shortens the lease.                                     *)
Renew(p) ==
  /\ owner = p
  /\ left' \in left..MaxTTL
  /\ UNCHANGED <<owner, grant, cleared>>

(* Mutation: the session counts the whole time to live from its return.    *)
Grant_Full(p) ==
  /\ owner = p
  /\ grant' = [grant EXCEPT ![p] = MaxTTL]
  /\ cleared' = cleared \ {p}
  /\ UNCHANGED <<owner, left>>

(* The session learns the expiry of the lease it took or renewed.          *)
Grant(p) ==
  /\ owner = p
  /\ grant' = [grant EXCEPT ![p] = left]
  /\ cleared' = cleared \ {p}
  /\ UNCHANGED <<owner, left>>

(* The session gives up what it was granted: it ended, or it died.         *)
Forget(p) ==
  /\ grant' = [grant EXCEPT ![p] = 0]
  /\ cleared' = cleared \ {p}
  /\ UNCHANGED <<owner, left>>

Release(p) ==
  /\ owner = p
  /\ owner' = NoProc
  /\ left' = 0
  /\ grant' = [grant EXCEPT ![p] = 0]
  /\ cleared' = cleared \ {p}

(* The human override.                                                     *)
Override ==
  /\ owner # NoProc
  /\ owner' = NoProc
  /\ left' = 0
  /\ cleared' = cleared \cup {p \in {owner} : grant[p] > 0}
  /\ UNCHANGED grant

(* The record of an expired lease is cleaned up.                           *)
Reap ==
  /\ left = 0
  /\ owner' = NoProc
  /\ UNCHANGED <<left, grant, cleared>>

Tick ==
  /\ left' = Countdown(left)
  /\ grant' = [p \in Proc |-> Countdown(grant[p])]
  /\ UNCHANGED <<owner, cleared>>

Next ==
  \/ \E p \in Proc : Take(p) \/ Renew(p) \/ Grant(p) \/ Forget(p) \/ Release(p)
  \/ Override
  \/ Reap
  \/ Tick

Spec == Init /\ [][Next]_vars

-----------------------------------------------------------------------------

(* Exclusion: no two sessions rely on the key at the same time, unless a   *)
(* human cleared the lease of one of them (README: "the human override").  *)
Exclusion ==
  \A p, q \in Proc \ cleared :
    p # q => ~(grant[p] > 0 /\ grant[q] > 0)

(* The inductive form: what a session was told is covered by the record.   *)
Claim(p) == grant[p] > 0 => owner = p /\ grant[p] <= left

ClaimsRecorded == \A p \in Proc \ cleared : Claim(p)
=============================================================================
