----------------------------- MODULE MCRunLease -----------------------------
(* RunLease with a renewal interval of two units.                          *)
EXTENDS RunLease
=============================================================================
