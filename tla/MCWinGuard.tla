----------------------------- MODULE MCWinGuard -----------------------------
(* WinGuard on a small instance.                                           *)
EXTENDS WinGuard

CONSTANTS a, b, c
=============================================================================
