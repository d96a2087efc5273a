------------------------------- MODULE ToolGate -------------------------------
(***************************************************************************)
(* What the exec interception promises the user, apart from how the daemon *)
(* does it.  Each tool process passes a gate that is open, held or shut:   *)
(* while it is held the tool has no effect, once it is shut it never has   *)
(* one again, and the observer is told that a tool was stopped only after  *)
(* its gate was shut, that it may run only when its gate is not held.      *)
(***************************************************************************)
EXTENDS Naturals

CONSTANT Procs

VARIABLES
  gate,    \* open, held or shut
  acted,   \* tools that have had their effect
  told     \* what the observer was told: [proc, verdict]

vars == <<gate, acted, told>>

Gates    == {"open", "held", "shut"}
Verdicts == {"run", "kill"}

GateTypeOK ==
  /\ gate \in [Procs -> Gates]
  /\ acted \subseteq Procs
  /\ told \subseteq [proc : Procs, verdict : Verdicts]

Init ==
  /\ gate = [p \in Procs |-> "open"]
  /\ acted = {}
  /\ told = {}

Hold(p) ==
  /\ gate[p] = "open"
  /\ gate' = [gate EXCEPT ![p] = "held"]
  /\ UNCHANGED <<acted, told>>

Resume(p) ==
  /\ gate[p] = "held"
  /\ gate' = [gate EXCEPT ![p] = "open"]
  /\ UNCHANGED <<acted, told>>

\* The process ends, by itself or by a signal.
Shut(p) ==
  /\ gate[p] # "shut"
  /\ gate' = [gate EXCEPT ![p] = "shut"]
  /\ UNCHANGED <<acted, told>>

Effect(p) ==
  /\ gate[p] = "open"
  /\ acted' = acted \cup {p}
  /\ UNCHANGED <<gate, told>>

Tell(p, v) ==
  /\ gate[p] # "held"
  /\ v = "kill" => gate[p] = "shut"
  /\ told' = told \cup {[proc |-> p, verdict |-> v]}
  /\ UNCHANGED <<gate, acted>>

\* The observer's record is lost with the daemon that kept it.
Forget ==
  /\ told' = {}
  /\ UNCHANGED <<gate, acted>>

Next ==
  \/ \E p \in Procs : Hold(p) \/ Resume(p) \/ Shut(p) \/ Effect(p)
  \/ \E p \in Procs, v \in Verdicts : Tell(p, v)
  \/ Forget

Spec == Init /\ [][Next]_vars
=============================================================================
