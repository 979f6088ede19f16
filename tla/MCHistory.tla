----------------------------- MODULE MCHistory -----------------------------
(* Lease and its changelog on a small instance.                            *)
EXTENDS History

CONSTANTS a, b, c

Sessions == Permutations(Proc)
=============================================================================
