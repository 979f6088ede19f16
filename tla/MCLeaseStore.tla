---------------------------- MODULE MCLeaseStore ----------------------------
(* LeaseStore on small instances.                                          *)
EXTENDS LeaseStore

CONSTANTS a, b, c

MCTTL1 == [p \in Proc |-> 1]
(* What tells states apart where nobody has a deadline or a watchdog: what *)
(* the sessions were told, and who was cleared, is read by no step then    *)
(* and by neither NoBarging nor PromptKeepsSlot.                           *)
QueueView == <<disk, section, pc, reused>>

MCTTL2 == [p \in Proc |-> 2]
=============================================================================
