----------------------------- MODULE MCReaders -----------------------------
(* Readers on a small instance.                                            *)
EXTENDS Readers

CONSTANTS a, b

(* What tells states apart where nobody has a deadline or a watchdog: what *)
(* the sessions were told, and the ghosts of the store, are read by no     *)
(* step then and by none of the reader's properties.                       *)
ReadersView ==
  <<disk, guard, at, lag, doomed, pc, reused, rpc, late, unexpired, answer, saw, stayed>>

MCTTL2 == [p \in Proc |-> 2]
=============================================================================
