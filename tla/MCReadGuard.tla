----------------------------- MODULE MCReadGuard -----------------------------
(* Instances of ReadGuard for TLC.                                         *)
EXTENDS ReadGuard

CONSTANTS a1, o1, g1, m1
=============================================================================
