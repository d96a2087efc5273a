--------------------------- MODULE ExecGuard_proofs ---------------------------
(***************************************************************************)
(* Proofs about the exec interception pipeline, for any set of processes,  *)
(* any ring capacity and any number of retries, rule changes and crashes.  *)
(***************************************************************************)
EXTENDS ExecGuard, FiniteSetTheorems, TLAPS

\* The daemon's state when async_main enters its loop is well typed.
LEMMA InitTypeOK == Init => TypeOK
  BY ExecGuardAssumption
     DEF Init, TypeOK, Alive, Phases, Steps, Custody, Results, Outcomes,
         DefaultRules, RulesConfigs, RuleNames, RuleActions, Reports, Masks,
         ToolKinds

\* Every step of the handler, the agent and their environment keeps the types.
LEMMA NextTypeOK == TypeOK /\ [Next]_vars => TypeOK'
  <1> SUFFICES ASSUME TypeOK, [Next]_vars
               PROVE  TypeOK'
    OBVIOUS
  <1> USE ExecGuardAssumption DEF TypeOK, Alive, agentVars, handlerVars,
          boundVars, seenVars
  <1>1. ASSUME NEW p \in Procs, EnterExec(p) PROVE TypeOK'
    BY <1>1 DEF EnterExec, Output, Phases
  <1>2. ASSUME NEW p \in Procs, FinishExec(p) PROVE TypeOK'
    BY <1>2 DEF FinishExec, Phases
  <1>3. ASSUME NEW p \in Procs, Act(p) PROVE TypeOK'
    BY <1>3 DEF Act
  <1>4. ASSUME NEW p \in Procs, Exit(p) PROVE TypeOK'
    BY <1>4 DEF Exit, Phases
  <1>5. ASSUME NEW p \in Procs, AgentKill(p) PROVE TypeOK'
    BY <1>5 DEF AgentKill, Phases
  <1>6. CASE Wake
    BY <1>6 DEF Wake, Steps, Custody
  <1>7. CASE Drained
    BY <1>7 DEF Drained, Steps, Custody
  <1>8. CASE NextEvent
    BY <1>8, SMTT(30) DEF NextEvent, Steps, Custody
  <1>9. CASE Track
    BY <1>9 DEF Track, Return, Steps, Custody, Results, Outcomes, ToolKinds
  <1>10. CASE ReadCmdline
    <2>1. CASE Return
      BY <1>10, <2>1 DEF ReadCmdline, Return, Steps, Custody, Results,
         Outcomes, ToolKinds
    <2>2. CASE /\ pc' = "stop" /\ UNCHANGED <<cur, plan, res, out>>
               /\ seen' \in ToolKinds
      BY <1>10, <2>2 DEF ReadCmdline, Steps, Custody
    <2>3. kind[cur] \in ToolKinds
      BY <1>10 DEF ReadCmdline
    <2> QED
      BY <1>10, <2>1, <2>2, <2>3 DEF ReadCmdline
  <1>11. CASE Stop
    BY <1>11 DEF Stop, SendStop, Steps, Custody
  <1>12. CASE MaskFile
    BY <1>12 DEF MaskFile, Steps, Custody, ToolKinds
  <1>13. CASE OpenStdout
    BY <1>13 DEF OpenStdout, Steps, Custody, Outcomes
  <1>14. CASE InjectWrite
    BY <1>14 DEF InjectWrite, Inject, Masks, Steps, Custody, Outcomes
  <1>15. CASE RelayCheck
    BY <1>15 DEF RelayCheck, Steps, Custody, Outcomes
  <1>16. CASE RelaySpawn
    BY <1>16 DEF RelaySpawn, Steps, Custody, Outcomes
  <1>17. CASE RelayDone
    BY <1>17 DEF RelayDone, Steps, Custody, Outcomes
  <1>18. CASE ReadEnabled
    BY <1>18 DEF ReadEnabled, Steps, Custody, Results
  <1>19. CASE Inner
    BY <1>19 DEF Inner, InnerResults, Steps, Custody, Results
  <1>20. CASE ApplyAction
    BY <1>20 DEF ApplyAction, Configured, Steps, Custody, Results
  <1>21. CASE Settle
    BY <1>21 DEF Settle, Steps, Custody, Outcomes
  <1>22. CASE Kill
    BY <1>22 DEF Kill, SendKill, Phases, Steps, Custody
  <1>23. CASE Cont
    BY <1>23 DEF Cont, SendCont, Steps, Custody
  <1>24. CASE Release
    BY <1>24 DEF Release, SendCont, Steps, Custody
  <1>25. CASE Emit
    BY <1>25 DEF Emit, Return, Reports, Steps, Custody, Results, Outcomes, ToolKinds
  <1>26. CASE Shutdown
    BY <1>26 DEF Shutdown, Steps, Custody
  <1>27. CASE SetRules
    BY <1>27 DEF SetRules
  <1>28. CASE Crash
    BY <1>28 DEF Crash, Steps, Custody, Results, Outcomes, ToolKinds
  <1>29. CASE UNCHANGED vars
    BY <1>29 DEF vars
  <1>30. CASE Capture
    BY <1>30 DEF Capture, Inject, Masks, Steps, Custody, Results
  <1> QED
    BY <1>1, <1>2, <1>3, <1>4, <1>5, <1>6, <1>7, <1>8, <1>9, <1>10, <1>11,
       <1>12, <1>13, <1>14, <1>15, <1>16, <1>17, <1>18, <1>19, <1>20, <1>21,
       <1>22, <1>23, <1>24, <1>25, <1>26, <1>27, <1>28, <1>29,
       <1>30
       DEF Next, Agent, Handler

\* Type correctness of the pipeline.
THEOREM TypeCorrect == Spec => []TypeOK
  BY InitTypeOK, NextTypeOK, PTL DEF Spec

-----------------------------------------------------------------------------
(* The inductive invariant: what the handler knows of its process at each  *)
(* of its steps, whatever the process has done meanwhile.                  *)

\* Between the SIGSTOP and the settling signal the process is stopped or gone.
Holding == {"mask", "open", "relay", "enabled", "inner", "capture", "apply",
            "settle", "kill"}
\* After the SIGKILL it is gone.
Gone == {"cont", "write", "spawn", "child"}

Custodian ==
  /\ pc \in Holding /\ Alive(cur) => cur \in stopped
  /\ pc \in Gone => ~Alive(cur)
  /\ pc = "release" => out \notin Fatal
  /\ pc = "emit" /\ out \in Fatal => ~Alive(cur)
  /\ \/ pc \in Holding \cup Gone
     \/ pc = "emit" /\ out \in Fatal
     => (cur \in acted => cur \in early)

\* A process left behind by a crash is out of the next daemon's sight.
OrphansOK ==
  /\ orphans \subseteq stopped
  /\ cur \notin orphans
  /\ \A i \in 1..Len(ring) : ring[i] \notin orphans

\* A substituted command is gone, frozen for ever, or about to be killed.
SubstitutedDoomed ==
  \A p \in Substituted :
    \/ ~Alive(p)
    \/ p \in orphans
    \/ p = cur /\ \/ pc = "apply" /\ res \in {"DataMasked", "DataBlock"}
                  \/ pc = "settle" /\ res = "Block"
                  \/ pc = "kill"

IInv ==
  /\ FrozenInCustody
  /\ Custodian
  /\ OrphansOK
  /\ SubstitutedDoomed
  /\ SubstitutedNeverActs
  /\ BlockedNeverActs

\* Nothing is frozen before the first event.
LEMMA InitIInv == Init => IInv
  BY ExecGuardAssumption
     DEF Init, IInv, FrozenInCustody, Custodian, OrphansOK,
         SubstitutedDoomed, SubstitutedNeverActs, BlockedNeverActs,
         Substituted, Holding, Gone

\* The inductive step: one step of the proof for each action of handle_event.
LEMMA NextIInv ==
  TypeOK /\ TypeOK' /\ IInv /\ [Next]_vars => IInv'
  <1> SUFFICES ASSUME TypeOK, TypeOK', IInv, [Next]_vars
               PROVE  IInv'
    OBVIOUS
  <1> USE ExecGuardAssumption DEF TypeOK, IInv, Alive, agentVars, handlerVars,
          boundVars, seenVars, FrozenInCustody, Custodian, OrphansOK,
          Custody, Holding, Gone, Fatal, SubstitutedDoomed, Substituted,
          SubstitutedNeverActs, BlockedNeverActs, Reports
  <1>1. ASSUME NEW p \in Procs, EnterExec(p) PROVE IInv'
    \* A process that runs is no orphan, so its event is none of an orphan.
    <2>1. p \notin orphans /\ orphans' = orphans
      BY <1>1 DEF EnterExec
    <2>2. \A i \in 1..Len(ring') : ring'[i] \notin orphans
      BY <1>1, <2>1 DEF EnterExec, Output
    <2>3. OrphansOK'
      BY <1>1, <2>1, <2>2 DEF EnterExec
    <2>4. FrozenInCustody' /\ Custodian' /\ BlockedNeverActs'
      BY <1>1 DEF EnterExec
    <2>5. SubstitutedDoomed' /\ SubstitutedNeverActs'
      BY <1>1 DEF EnterExec
    <2> QED
      BY <2>3, <2>4, <2>5
  <1>2. ASSUME NEW p \in Procs, FinishExec(p) PROVE IInv'
    BY <1>2 DEF FinishExec
  <1>3. ASSUME NEW p \in Procs, Act(p) PROVE IInv'
    BY <1>3 DEF Act
  <1>4. ASSUME NEW p \in Procs, Exit(p) PROVE IInv'
    BY <1>4 DEF Exit
  <1>5. ASSUME NEW p \in Procs, AgentKill(p) PROVE IInv'
    BY <1>5 DEF AgentKill
  <1>6. CASE Wake
    BY <1>6 DEF Wake
  <1>7. CASE Drained
    BY <1>7 DEF Drained
  <1>8. CASE NextEvent
    BY <1>8, SMTT(30) DEF NextEvent
  <1>9. CASE Track
    BY <1>9 DEF Track, Return
  <1>10. CASE ReadCmdline
    BY <1>10 DEF ReadCmdline, Return
  <1>11. CASE Stop
    BY <1>11 DEF Stop, SendStop
  <1>12. CASE MaskFile
    BY <1>12 DEF MaskFile
  <1>13. CASE OpenStdout
    BY <1>13 DEF OpenStdout
  <1>14. CASE InjectWrite
    BY <1>14 DEF InjectWrite, Inject
  <1>15. CASE RelayCheck
    BY <1>15 DEF RelayCheck
  <1>16. CASE RelaySpawn
    BY <1>16 DEF RelaySpawn
  <1>17. CASE RelayDone
    BY <1>17 DEF RelayDone
  <1>18. CASE ReadEnabled
    BY <1>18 DEF ReadEnabled
  <1>19. CASE Inner
    BY <1>19 DEF Inner, InnerResults
  <1>20. CASE ApplyAction
    BY <1>20 DEF ApplyAction, Configured
  <1>21. CASE Settle
    BY <1>21 DEF Settle
  <1>22. CASE Kill
    BY <1>22 DEF Kill, SendKill
  <1>23. CASE Cont
    BY <1>23 DEF Cont, SendCont
  <1>24. CASE Release
    BY <1>24 DEF Release, SendCont
  <1>25. CASE Emit
    BY <1>25 DEF Emit, Return
  <1>26. CASE Shutdown
    BY <1>26 DEF Shutdown
  <1>27. CASE SetRules
    BY <1>27 DEF SetRules
  <1>28. CASE Crash
    BY <1>28 DEF Crash
  <1>29. CASE UNCHANGED vars
    BY <1>29 DEF vars
  <1>30. CASE Capture
    BY <1>30 DEF Capture, Inject
  <1> QED
    BY <1>1, <1>2, <1>3, <1>4, <1>5, <1>6, <1>7, <1>8, <1>9, <1>10, <1>11,
       <1>12, <1>13, <1>14, <1>15, <1>16, <1>17, <1>18, <1>19, <1>20, <1>21,
       <1>22, <1>23, <1>24, <1>25, <1>26, <1>27, <1>28, <1>29,
       <1>30
       DEF Next, Agent, Handler

\* The types and the inductive invariant hold in every reachable state.
LEMMA Invariance == Spec => [](TypeOK /\ IInv)
  <1>1. Init => TypeOK /\ IInv
    BY InitTypeOK, InitIInv
  <1>2. TypeOK /\ IInv /\ [Next]_vars => (TypeOK /\ IInv)'
    BY NextTypeOK, NextIInv
  <1> QED
    BY <1>1, <1>2, PTL DEF Spec

\* No path out of handle_event leaves a tool frozen.
THEOREM Custody_FrozenInCustody == Spec => []FrozenInCustody
  <1>1. IInv => FrozenInCustody
    BY DEF IInv
  <1> QED
    BY <1>1, Invariance, PTL

\* A command reported as blocked, masked or relayed had no effect after the
\* daemon's SIGSTOP.
THEOREM Blocked_NeverActs == Spec => []BlockedNeverActs
  <1>1. IInv => BlockedNeverActs
    BY DEF IInv
  <1> QED
    BY <1>1, Invariance, PTL

\* A command the daemon answered for does not run a second time by itself.
THEOREM Substituted_NeverActs == Spec => []SubstitutedNeverActs
  <1>1. IInv => SubstitutedNeverActs
    BY DEF IInv
  <1> QED
    BY <1>1, Invariance, PTL

-----------------------------------------------------------------------------
(* What a crash costs.                                                     *)

Stranded == IsFiniteSet(orphans) /\ StrandedPerCrash

\* Only an abrupt end of the daemon strands a process, and one at a time.
LEMMA NextStranded == TypeOK /\ IInv /\ Stranded /\ [Next]_vars => Stranded'
  <1> SUFFICES ASSUME TypeOK, IInv, Stranded, [Next]_vars
               PROVE  Stranded'
    OBVIOUS
  <1> USE DEF Stranded, StrandedPerCrash
  <1>0. Cardinality(orphans) \in Nat /\ crashes \in Nat
    BY FS_CardinalityType DEF TypeOK
  <1>1. ASSUME NEW p \in Procs, AgentKill(p) PROVE Stranded'
    <2>1. orphans' \subseteq orphans /\ crashes' = crashes
      BY <1>1 DEF AgentKill, boundVars
    <2>2. IsFiniteSet(orphans') /\ Cardinality(orphans') <= Cardinality(orphans)
      BY <2>1, FS_Subset
    <2>3. Cardinality(orphans') \in Nat
      BY <2>2, FS_CardinalityType
    <2> QED
      BY <1>0, <2>1, <2>2, <2>3
  <1>2. CASE Crash
    \* Everything that is stopped was an orphan already, or is cur.
    <2>1. orphans' \subseteq orphans \cup {cur} /\ crashes' = crashes + 1
      BY <1>2 DEF Crash, IInv, FrozenInCustody
    <2>2. /\ IsFiniteSet(orphans \cup {cur})
          /\ Cardinality(orphans \cup {cur}) <= Cardinality(orphans) + 1
      BY <1>0, FS_AddElement
    <2>3. /\ IsFiniteSet(orphans')
          /\ Cardinality(orphans') <= Cardinality(orphans \cup {cur})
      BY <2>1, <2>2, FS_Subset
    <2>4. Cardinality(orphans') \in Nat /\ Cardinality(orphans \cup {cur}) \in Nat
      BY <2>2, <2>3, FS_CardinalityType
    <2> QED
      BY <1>0, <2>1, <2>2, <2>3, <2>4
  <1>3. CASE ~Crash /\ ~(\E p \in Procs : AgentKill(p))
    <2>1. UNCHANGED <<orphans, crashes>>
      BY <1>3 DEF Next, Agent, Handler, vars, seenVars, boundVars, EnterExec,
         FinishExec, Act, Exit, Wake, Drained, NextEvent, Track, ReadCmdline,
         Stop, MaskFile, OpenStdout, InjectWrite, RelayCheck, RelaySpawn,
         RelayDone, ReadEnabled, Inner, Capture, ApplyAction, Settle, Kill,
         Cont, Release, Emit, Shutdown, SetRules
    <2> QED
      BY <2>1
  <1> QED
    BY <1>1, <1>2, <1>3

\* An abrupt end of the daemon strands at most one process.
THEOREM Stranded_PerCrash == Spec => []StrandedPerCrash
  <1>1. Init => Stranded
    BY FS_EmptySet DEF Init, Stranded, StrandedPerCrash
  <1>2. Stranded => StrandedPerCrash
    BY DEF Stranded
  <1> QED
    BY <1>1, <1>2, NextStranded, Invariance, PTL DEF Spec

-----------------------------------------------------------------------------
(* The pipeline implements the gate.                                       *)

\* An idle process passes an open gate.
LEMMA GateInit == Init => Gate!Init
  BY DEF Init, Gate!Init, GateOf, Alive

\* Each signal of the handler is a step of the gate or none.
LEMMA GateStep == TypeOK /\ TypeOK' /\ IInv /\ [Next]_vars => [Gate!Next]_(Gate!vars)
  <1> SUFFICES ASSUME TypeOK, TypeOK', IInv, [Next]_vars
               PROVE  [Gate!Next]_(Gate!vars)
    OBVIOUS
  <1> USE ExecGuardAssumption DEF TypeOK, Gate!vars, GateOf, Alive, agentVars,
          handlerVars, boundVars, seenVars
  <1>1. ASSUME NEW p \in Procs, EnterExec(p) \/ FinishExec(p)
        PROVE  UNCHANGED Gate!vars
    BY <1>1 DEF EnterExec, FinishExec
  <1>2. ASSUME NEW p \in Procs, Act(p) PROVE Gate!Effect(p)
    BY <1>2 DEF Act, Gate!Effect
  <1>3. ASSUME NEW p \in Procs, Exit(p) \/ AgentKill(p) PROVE Gate!Shut(p)
    BY <1>3 DEF Exit, AgentKill, Gate!Shut
  <1>4. CASE Stop
    <2>1. cur \in Procs /\ cur \notin stopped
      BY <1>4 DEF Stop, IInv, FrozenInCustody, OrphansOK, Custody
    <2>2. CASE Alive(cur)
      BY <1>4, <2>1, <2>2 DEF Stop, SendStop, Gate!Hold, Gate!Next
    <2>3. CASE ~Alive(cur)
      BY <1>4, <2>3 DEF Stop, SendStop
    <2> QED
      BY <2>2, <2>3
  <1>5. CASE Kill
    <2>1. cur \in Procs
      BY <1>5 DEF Kill
    <2>2. CASE Alive(cur)
      <3>1. /\ phase' = [phase EXCEPT ![cur] = "dead"]
            /\ stopped' = stopped \ {cur}
            /\ UNCHANGED <<acted, reports>>
        BY <1>5, <2>2 DEF Kill, SendKill
      <3>2. PICK p \in Procs : p = cur
        BY <2>1
      <3>3. Gate!Shut(p)
        BY <2>2, <3>1, <3>2 DEF Gate!Shut
      <3> QED
        BY <3>3 DEF Gate!Next
    <2>3. CASE ~Alive(cur)
      BY <1>5, <2>3 DEF Kill, SendKill
    <2> QED
      BY <2>2, <2>3
  <1>6. CASE Cont
    BY <1>6 DEF Cont, SendCont, IInv, Custodian, Gone
  <1>7. CASE Release
    <2>1. cur \in Procs
      BY <1>7 DEF Release
    <2>2. CASE cur \in stopped
      BY <1>7, <2>1, <2>2 DEF Release, SendCont, Gate!Resume, Gate!Next
    <2>3. CASE cur \notin stopped
      BY <1>7, <2>3 DEF Release, SendCont
    <2> QED
      BY <2>2, <2>3
  <1>8. CASE Emit
    <2>1. cur \in Procs /\ cur \notin stopped
      BY <1>8 DEF Emit, IInv, FrozenInCustody, OrphansOK, Custody
    <2>2. out \in Fatal => ~Alive(cur)
      BY <1>8 DEF Emit, IInv, Custodian
    <2>3. {[proc |-> r.proc, verdict |-> VerdictOf(r.out)] : r \in reports'}
            = {[proc |-> r.proc, verdict |-> VerdictOf(r.out)] : r \in reports}
                \cup {[proc |-> cur, verdict |-> VerdictOf(out)]}
      <3> DEFINE V(r) == [proc |-> r.proc, verdict |-> VerdictOf(r.out)]
                 m == [proc |-> cur, out |-> out]
      <3>1. reports' = reports \cup {m}
        BY <1>8 DEF Emit
      <3>2. V(m) = [proc |-> cur, verdict |-> VerdictOf(out)]
        OBVIOUS
      <3> HIDE DEF V, m
      <3>3. {V(r) : r \in reports \cup {m}} = {V(r) : r \in reports} \cup {V(m)}
        OBVIOUS
      <3> QED
        BY <3>1, <3>2, <3>3 DEF V
    <2>4. UNCHANGED <<phase, stopped, acted>>
      BY <1>8 DEF Emit
    <2>5. VerdictOf(out) \in Gate!Verdicts
          /\ (VerdictOf(out) = "kill" => ~Alive(cur))
      BY <2>2 DEF Gate!Verdicts, VerdictOf
    <2>6. PICK p \in Procs, v \in Gate!Verdicts : p = cur /\ v = VerdictOf(out)
      BY <2>1, <2>5
    <2>7. Gate!Tell(p, v)
      BY <2>1, <2>3, <2>4, <2>5, <2>6 DEF Gate!Tell
    <2>8. Gate!Next
      BY <2>7 DEF Gate!Next
    <2> QED
      BY <2>8
  <1>9. CASE Crash
    BY <1>9 DEF Crash, Gate!Forget, Gate!Next
  <1>10. CASE \/ Wake \/ Drained \/ NextEvent \/ Track \/ ReadCmdline
              \/ MaskFile \/ OpenStdout \/ InjectWrite \/ RelayCheck
              \/ RelaySpawn \/ RelayDone \/ ReadEnabled \/ Inner \/ Capture
              \/ ApplyAction \/ Settle \/ Shutdown \/ SetRules
              \/ UNCHANGED vars
    <2>1. UNCHANGED <<phase, stopped, acted, reports>>
      BY <1>10 DEF Wake, Drained, NextEvent, Track, ReadCmdline, MaskFile,
         OpenStdout, InjectWrite, RelayCheck, RelaySpawn, RelayDone,
         ReadEnabled, Inner, Capture, ApplyAction, Settle, Shutdown,
         SetRules, vars
    <2> QED
      BY <2>1
  <1> QED
    BY <1>1, <1>2, <1>3, <1>4, <1>5, <1>6, <1>7, <1>8, <1>9, <1>10
       DEF Next, Agent, Handler, Gate!Next

\* Every behaviour of the pipeline is, seen through GateOf and VerdictOf, a
\* behaviour of the gate.
THEOREM Implements_Gate == Spec => ImplementsGate
  <1>1. Spec => [](TypeOK /\ IInv)
    BY Invariance
  <1> QED
    BY <1>1, GateInit, GateStep, PTL DEF Spec, ImplementsGate, Gate!Spec
===============================================================================
