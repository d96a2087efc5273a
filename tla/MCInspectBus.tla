----------------------------- MODULE MCInspectBus -----------------------------
(* Instances of InspectBus for TLC.                                        *)
EXTENDS InspectBus, TLC

CONSTANTS main, guard, c1, c2

Symm == Permutations(Threads) \cup Permutations(Clients)
=============================================================================
