---------------------------- MODULE MCTokenBudget ----------------------------
(* Instances of TokenBudget for TLC.                                       *)
EXTENDS TokenBudget

CONSTANTS c1, c2, c3, m1, m2

Of(i, o)   == [k \in Kinds |-> IF k = "input" THEN i ELSE o]
Cap(i, o, idle) == [limit |-> [m \in Models |-> Of(i, o)], idle |-> idle]

\* Limits of one kind and of both, and a window that is only reset by hand.
SomeConfigs == {Cap(2, 0, TRUE), Cap(1, 2, TRUE), Cap(0, 1, FALSE)}
SomeCosts   == {Of(1, 0), Of(1, 2), Of(2, 1)}
=============================================================================
