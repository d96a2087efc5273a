------------------------------ MODULE MCWinGate ------------------------------
(* Instances of WinGate for TLC.                                           *)
EXTENDS WinGate

CONSTANTS s1, s2

\* The second invocation is a relay, which occupies a worker and the store; the
\* first is of any kind that is handled in its own way.
SomeKinds(s) == IF s = s1 THEN ToolKinds \ {"stranger", "denied", "relay"}
                ELSE {"relay"}
=============================================================================
