---------------------------- MODULE MCSeccompNotify ----------------------------
(* Instances of SeccompNotify for TLC.                                     *)
EXTENDS SeccompNotify

CONSTANTS t1, t2, k1, k2

\* Two trees of one task each.
OwnTree(k) == IF k = k1 THEN t1 ELSE t2
=============================================================================
