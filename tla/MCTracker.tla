------------------------------ MODULE MCTracker ------------------------------
(* Instances of Tracker for TLC.                                           *)
EXTENDS Tracker

CONSTANTS p1, p2, p3
=============================================================================
