----------------------------- MODULE MCExecGuard -----------------------------
(* Instances of ExecGuard for TLC.                                         *)
EXTENDS ExecGuard, TLC

CONSTANTS p1, p2

\* Every kind, those that never reach the handler or a verdict included.
EveryKind == ToolKinds

\* One process asks one rule at a time, so it meets every action of every rule
\* when all rules have the same.
UniformRules == {c \in RulesConfigs : \E a \in RuleActions :
                   c.rule = [r \in RuleNames |-> a]}
=============================================================================
