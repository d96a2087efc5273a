---------------------------- MODULE WinGate_proofs ----------------------------
(***************************************************************************)
(* Proofs about shims and the Windows daemon, for any number of            *)
(* invocations of any kinds, of workers, attempts, errors and restarts.    *)
(***************************************************************************)
EXTENDS WinGate, TLAPS

-----------------------------------------------------------------------------
(* The inductive invariant, of each invocation.                            *)

\* How often the shim itself has run the tool.
Own(s) == IF got[s] = "raw" THEN 1 ELSE 0

\* The daemon has not run the tool, and will not.
Settled(s) ==
  runs[s] = Own(s) /\ task[s] = "none" /\ pend # s /\ talker[s] = "end"

\* The daemon has not come to the point where it runs a tool.
Unjudged(s) == \/ talker[s] \in {"off", "open"} \/ pend = s
               \/ task[s] \in {"line", "vault", "relaywait"}

\* A shim connects once, is served once and is answered once.
Once(s) ==
  /\ main[s] \in {"off", "wait"} => got[s] = "nothing"
  /\ main[s] = "off" <=> talker[s] = "off"
  /\ main[s] = "off" => kind[s] = "none"
  /\ talker[s] \in {"off", "open"} \/ pend = s =>
       task[s] = "none" /\ answer[s] = "none" /\ result[s] = "none"
  /\ pend = s => /\ talker[s] \notin {"off", "open"}
                 /\ conn[s] = "open" \/ talker[s] = "end"
  /\ answer[s] # "none" \/ result[s] \in Answers => task[s] = "none" /\ pend # s

\* Only the invocations they are for come to these two steps of a task, and
\* rules.json waives blocks of paths only.
OfKind(s) == /\ task[s] = "vault" => kind[s] = "secret"
             /\ task[s] = "relaywait" => kind[s] = "relay"
             /\ "waived" \in lapse[s] =>
                  kind[s] \in PathKinds /\ PathActions # {"block"}

\* The invocation may be run by its shim.
Excused(s) == kind[s] \notin Guarded \/ lapse[s] # {}

\* The verdict v is with the task, in the pipe or with the shim's main thread.
Decided(s, v) == \/ task[s] \in {"report", "reply"} /\ verdict[s] = v
                 \/ answer[s] = v \/ result[s] = v

\* What may have happened to the daemon's answer after it ran the tool.
Unheard(s) == \E l \in {"late", "gone", "oversize"} : l \in lapse[s]

\* The daemon runs the tool at most once, and answers "output" if it did; a shim
\* that runs it was told to, or did not hear of it.
Accounted(s) ==
  /\ runs[s] \in {Own(s), Own(s) + 1}
  /\ Unjudged(s) => runs[s] = Own(s)
  /\ Decided(s, "exec") => runs[s] = Own(s) /\ Excused(s)
  /\ Decided(s, "block") => runs[s] = Own(s)
  /\ result[s] \in {"exec", "block"} => Settled(s)
  /\ result[s] = "err" => lapse[s] # {} /\ (Settled(s) \/ Unheard(s))
  /\ got[s] = "raw" => Excused(s) /\ (Settled(s) \/ Unheard(s))
  /\ got[s] = "refused" => Settled(s)

Sound(s) == Once(s) /\ OfKind(s) /\ Accounted(s)

\* The loop tries again for a client, and an instance that is free has none.
LoopOK == /\ loop = "retry" => pend # Nobody
          /\ free \/ ~up => pend = Nobody

IInv == TypeOK /\ LoopOK /\ \A s \in Shims : Sound(s)

\* Nothing has been invoked when the daemon starts.
LEMMA InitIInv == Init => IInv
  <1> SUFFICES ASSUME Init PROVE IInv
    OBVIOUS
  <1>1. TypeOK /\ LoopOK
    BY WinGateAssumption
    DEF Init, TypeOK, ShimTypeOK, PipeTypeOK, LoopTypeOK, TaskTypeOK,
        EffectTypeOK, LoopOK
  <1>2. ASSUME NEW s \in Shims PROVE Sound(s)
    BY WinGateAssumption
    DEF Init, Sound, Once, OfKind, Accounted, Own, Settled, Unjudged, Decided,
        Answers
  <1> QED
    BY <1>1, <1>2 DEF IInv

-----------------------------------------------------------------------------
(* A step of another invocation.                                           *)

\* A step leaves all that concerns t as it is.
Spared(t) ==
  /\ kind'[t] = kind[t] /\ main'[t] = main[t] /\ talker'[t] = talker[t]
  /\ result'[t] = result[t] /\ conn'[t] = conn[t] /\ answer'[t] = answer[t]
  /\ task'[t] = task[t] /\ verdict'[t] = verdict[t]
  /\ runs'[t] = runs[t] /\ got'[t] = got[t] /\ lapse'[t] = lapse[t]
  /\ pend' = t <=> pend = t

\* What is said of an invocation stays true if the step spares it.
LEMMA SparedSound ==
  ASSUME NEW t \in Shims, Sound(t), Spared(t)
  PROVE  Sound(t)'
  <1> USE DEF Spared
  <1>1. Once(t)'
    BY DEF Sound, Once
  <1>2. OfKind(t)'
    BY DEF Sound, OfKind
  <1>3. /\ Own(t)' = Own(t) /\ Settled(t)' = Settled(t)
        /\ Unjudged(t)' = Unjudged(t) /\ Excused(t)' = Excused(t)
        /\ Unheard(t)' = Unheard(t)
        /\ Decided(t, "exec")' = Decided(t, "exec")
        /\ Decided(t, "block")' = Decided(t, "block")
    BY DEF Own, Settled, Unjudged, Excused, Unheard, Decided
  <1>4. Accounted(t)'
    BY <1>3 DEF Sound, Accounted
  <1> QED
    BY <1>1, <1>2, <1>4 DEF Sound

\* What a step of s has to keep.
LEMMA StepIInv ==
  ASSUME IInv, NEW s \in Shims, TypeOK', LoopOK', Sound(s)',
         \A t \in Shims \ {s} : Spared(t)
  PROVE  IInv'
  BY SparedSound DEF IInv

-----------------------------------------------------------------------------
(* The shim.                                                               *)

\* A tool is invoked once, before anything is known of it.
LEMMA InvokeIInv ==
  ASSUME IInv, NEW s \in Shims, NEW k \in KindsOf(s), Invoke(s, k)
  PROVE  IInv'
  <1> USE DEF Invoke, Set
  <1>1. TypeOK'
    <2>1. ShimTypeOK'
      BY WinGateAssumption
      DEF IInv, TypeOK, ShimTypeOK, shimVars, Answers, ToolKinds,
          PathKinds
    <2> QED
        BY <2>1, WinGateAssumption
      DEF IInv, TypeOK, PipeTypeOK, pipeVars, LoopTypeOK, loopVars, TaskTypeOK,
          taskVars, EffectTypeOK, effectVars, trackVars
  <1>2. \A t \in Shims \ {s} : Spared(t)
    BY DEF IInv, TypeOK, ShimTypeOK, Spared, shimVars, pipeVars, loopVars,
           taskVars, effectVars
  <1>3. Sound(s)'
    <2>1. "none" \notin PathKinds /\ kind[s] = "none" /\ "waived" \notin lapse[s]
      BY DEF PathKinds, IInv, Sound, Once, OfKind
    <2> QED
      BY <2>1, WinGateAssumption
      DEF IInv, TypeOK, ShimTypeOK, PipeTypeOK, TaskTypeOK, EffectTypeOK,
          shimVars, pipeVars, loopVars, taskVars, effectVars, Sound, Once, OfKind,
          Accounted, Own, Settled, Unjudged, Excused, Decided, Unheard, Answers
  <1>4. LoopOK'
    BY WinGateAssumption DEF IInv, LoopOK, loopVars
  <1> QED
    BY <1>1, <1>2, <1>3, <1>4, StepIInv

\* An attempt to open the pipe: it is connected, or the shim will run the tool.
LEMMA OpenIInv ==
  ASSUME IInv, NEW s \in Shims, Open(s)
  PROVE  IInv'
  <1> USE DEF Open, Set, Tell, Lapsed, Spent
  <1>1. TypeOK'
    <2>1. ShimTypeOK'
      BY WinGateAssumption
      DEF IInv, TypeOK, ShimTypeOK, shimVars, Answers, ToolKinds,
          PathKinds
    <2>2. PipeTypeOK'
      BY WinGateAssumption DEF IInv, TypeOK, PipeTypeOK, pipeVars, Answers
    <2>3. LoopTypeOK'
      BY WinGateAssumption DEF IInv, TypeOK, LoopTypeOK, loopVars
    <2>4. EffectTypeOK'
      BY WinGateAssumption DEF IInv, TypeOK, EffectTypeOK, effectVars, Lapses
    <2> QED
      BY <2>1, <2>2, <2>3, <2>4, WinGateAssumption
      DEF IInv, TypeOK, TaskTypeOK, taskVars, trackVars
  <1>2. \A t \in Shims \ {s} : Spared(t)
    <2>1. pend' = pend \/ (pend' = s /\ pend = Nobody)
      BY DEF IInv, LoopOK
    <2>2. ASSUME NEW t \in Shims \ {s} PROVE pend' = t <=> pend = t
      BY <2>1, WinGateAssumption
    <2> QED
      BY <2>2
      DEF IInv, TypeOK, ShimTypeOK, PipeTypeOK, EffectTypeOK, taskVars, Spared
  <1>3. Sound(s)'
    <2> USE WinGateAssumption
        DEF IInv, shimVars, pipeVars, loopVars, taskVars, effectVars, Sound,
            Once, OfKind, Accounted, Own, Settled, Unjudged, Excused, Decided,
            Unheard, Answers
    <2>1. CASE up /\ free
      <3>1. pend' = s /\ result' = result /\ lapse' = lapse
            /\ conn'[s] = "open" /\ talker'[s] = "write"
        BY <2>1
        DEF IInv, TypeOK, ShimTypeOK, PipeTypeOK, TaskTypeOK, EffectTypeOK
      <3> QED
        BY <2>1, <3>1
    <2>2. CASE up /\ ~free /\ ~Spent(s)
      <3>1. UNCHANGED <<talker, lapse, pend, result>>
        BY <2>2
        DEF IInv, TypeOK, ShimTypeOK, PipeTypeOK, TaskTypeOK, EffectTypeOK
      <3> QED
        BY <2>2, <3>1
    <2>3. CASE up /\ ~free /\ Spent(s)
      <3>1. lapse'[s] = lapse[s] \cup {"busy"} /\ result'[s] = "err"
            /\ talker'[s] = "end" /\ pend' = pend
        BY <2>3
        DEF IInv, TypeOK, ShimTypeOK, PipeTypeOK, TaskTypeOK, EffectTypeOK
      <3> QED
        BY <2>3, <3>1
    <2>4. CASE ~up
      <3>1. lapse'[s] = lapse[s] \cup {"gone"} /\ result'[s] = "err"
            /\ talker'[s] = "end" /\ pend' = pend
        BY <2>4
        DEF IInv, TypeOK, ShimTypeOK, PipeTypeOK, TaskTypeOK, EffectTypeOK
      <3> QED
        BY <2>4, <3>1
    <2> QED
      BY <2>1, <2>2, <2>3, <2>4
  <1>4. LoopOK'
    BY WinGateAssumption DEF IInv, LoopOK, loopVars
  <1> QED
    BY <1>1, <1>2, <1>3, <1>4, StepIInv

\* A request that cannot be written has not been heard of by the daemon.
LEMMA WriteIInv ==
  ASSUME IInv, NEW s \in Shims, Write(s)
  PROVE  IInv'
  <1> USE DEF Write, Set, Tell, Lapsed
  <1>1. TypeOK'
    <2>1. ShimTypeOK'
      BY WinGateAssumption
      DEF IInv, TypeOK, ShimTypeOK, shimVars, Answers, ToolKinds,
          PathKinds
    <2>2. PipeTypeOK'
      BY WinGateAssumption DEF IInv, TypeOK, PipeTypeOK, pipeVars, Answers
    <2>3. EffectTypeOK'
      BY WinGateAssumption DEF IInv, TypeOK, EffectTypeOK, effectVars, Lapses
    <2> QED
      BY <2>1, <2>2, <2>3, WinGateAssumption
      DEF IInv, TypeOK, LoopTypeOK, loopVars, TaskTypeOK, taskVars, trackVars
  <1>2. \A t \in Shims \ {s} : Spared(t)
    BY DEF IInv, TypeOK, ShimTypeOK, PipeTypeOK, EffectTypeOK, Spared, shimVars,
           pipeVars, loopVars, taskVars, effectVars
  <1>3. Sound(s)'
    <2> USE WinGateAssumption
        DEF IInv, shimVars, pipeVars, loopVars, taskVars, effectVars, Sound,
            Once, OfKind, Accounted, Own, Settled, Unjudged, Excused, Decided,
            Unheard, Answers
    <2>1. CASE conn[s] = "open"
      <3>1. talker'[s] = "read" /\ UNCHANGED <<result, lapse>>
        BY <2>1
        DEF IInv, TypeOK, ShimTypeOK, PipeTypeOK, TaskTypeOK, EffectTypeOK
      <3> QED
        BY <2>1, <3>1
    <2>2. CASE conn[s] # "open"
      <3>1. lapse'[s] = lapse[s] \cup {"gone"} /\ result'[s] = "err"
            /\ talker'[s] = "end"
        BY <2>2
        DEF IInv, TypeOK, ShimTypeOK, PipeTypeOK, TaskTypeOK, EffectTypeOK
      <3> QED
        BY <2>2, <3>1
    <2> QED
      BY <2>1, <2>2
  <1>4. LoopOK'
    BY WinGateAssumption DEF IInv, LoopOK, loopVars
  <1> QED
    BY <1>1, <1>2, <1>3, <1>4, StepIInv

\* An answer that is read is the last thing the daemon does for it.
LEMMA ReadIInv ==
  ASSUME IInv, NEW s \in Shims, Read(s)
  PROVE  IInv'
  <1> USE DEF Read, Set, Tell, Lapsed, Trouble
  <1>1. TypeOK'
    <2>1. ShimTypeOK'
      BY WinGateAssumption
      DEF IInv, TypeOK, ShimTypeOK, PipeTypeOK, shimVars, Answers, ToolKinds,
          PathKinds
    <2>2. EffectTypeOK'
      BY WinGateAssumption DEF IInv, TypeOK, EffectTypeOK, effectVars, Lapses
    <2> QED
      BY <2>1, <2>2, WinGateAssumption
      DEF IInv, TypeOK, PipeTypeOK, pipeVars, LoopTypeOK, loopVars, TaskTypeOK,
          taskVars, trackVars
  <1>2. \A t \in Shims \ {s} : Spared(t)
    BY DEF IInv, TypeOK, ShimTypeOK, EffectTypeOK, Spared, shimVars, pipeVars,
           loopVars, taskVars, effectVars
  <1>3. Sound(s)'
    <2> USE WinGateAssumption
        DEF IInv, shimVars, pipeVars, loopVars, taskVars, effectVars, Sound,
            Once, OfKind, Accounted, Own, Settled, Unjudged, Excused, Decided,
            Unheard, Answers
    <2>1. CASE Tell(s, answer[s]) /\ UNCHANGED lapse /\ answer[s] # "none"
      <3>1. result'[s] = answer[s] /\ talker'[s] = "end" /\ answer[s] \in Answers
        BY <2>1
        DEF IInv, TypeOK, ShimTypeOK, PipeTypeOK, TaskTypeOK, EffectTypeOK
      <3> QED
        BY <2>1, <3>1
    <2>2. CASE Tell(s, "err") /\ Lapsed(s, {"oversize"})
      <3>1. lapse'[s] = lapse[s] \cup {"oversize"} /\ result'[s] = "err"
            /\ talker'[s] = "end"
        BY <2>2
        DEF IInv, TypeOK, ShimTypeOK, PipeTypeOK, TaskTypeOK, EffectTypeOK
      <3> QED
        BY <2>2, <3>1, SMTT(30)
    <2>3. CASE Tell(s, "err") /\ Lapsed(s, {"gone"})
      <3>1. lapse'[s] = lapse[s] \cup {"gone"} /\ result'[s] = "err"
            /\ talker'[s] = "end"
        BY <2>3
        DEF IInv, TypeOK, ShimTypeOK, PipeTypeOK, TaskTypeOK, EffectTypeOK
      <3> QED
        BY <2>3, <3>1, SMTT(30)
    <2> QED
      BY <2>1, <2>2, <2>3
  <1>4. LoopOK'
    BY WinGateAssumption DEF IInv, LoopOK, loopVars
  <1> QED
    BY <1>1, <1>2, <1>3, <1>4, StepIInv

\* The shim does what it was told, or runs the tool.
LEMMA ReceiveIInv ==
  ASSUME IInv, NEW s \in Shims, Receive(s)
  PROVE  IInv'
  <1> USE DEF Receive, Set, ExecReal, Exit, Ran
  <1>0. runs[s] \in {0, 1}
    BY DEF IInv, TypeOK, Sound, Once, Accounted, Own, Unjudged
  <1>1. TypeOK'
    <2>1. ShimTypeOK'
      BY WinGateAssumption
      DEF IInv, TypeOK, ShimTypeOK, shimVars, Answers, ToolKinds,
          PathKinds
    <2>2. PipeTypeOK'
      BY WinGateAssumption DEF IInv, TypeOK, PipeTypeOK, pipeVars, Answers
    <2>3. EffectTypeOK'
      BY <1>0, WinGateAssumption
      DEF IInv, TypeOK, EffectTypeOK, effectVars, Lapses
    <2> QED
      BY <2>1, <2>2, <2>3, WinGateAssumption
      DEF IInv, TypeOK, LoopTypeOK, loopVars, TaskTypeOK, taskVars, trackVars
  <1>2. \A t \in Shims \ {s} : Spared(t)
    BY DEF IInv, TypeOK, ShimTypeOK, PipeTypeOK, EffectTypeOK, Spared, shimVars,
           pipeVars, loopVars, taskVars, effectVars
  <1>3. Sound(s)'
    BY WinGateAssumption
    DEF IInv, TypeOK, ShimTypeOK, PipeTypeOK, TaskTypeOK, EffectTypeOK,
        shimVars, pipeVars, loopVars, taskVars, effectVars, Sound, Once, OfKind,
        Accounted, Own, Settled, Unjudged, Excused, Decided, Unheard, Answers
  <1>4. LoopOK'
    BY WinGateAssumption DEF IInv, LoopOK, loopVars
  <1> QED
    BY <1>1, <1>2, <1>3, <1>4, StepIInv

\* The shim runs the tool, and notes why.
LEMMA TimeoutIInv ==
  ASSUME IInv, NEW s \in Shims, Timeout(s)
  PROVE  IInv'
  <1> USE DEF Timeout, Set, ExecReal, Exit, Ran, Lapsed
  <1>0. runs[s] \in {0, 1}
    BY DEF IInv, TypeOK, Sound, Once, Accounted, Own, Unjudged
  <1>1. TypeOK'
    <2>1. ShimTypeOK'
      BY WinGateAssumption
      DEF IInv, TypeOK, ShimTypeOK, shimVars, Answers, ToolKinds,
          PathKinds
    <2>2. PipeTypeOK'
      BY WinGateAssumption DEF IInv, TypeOK, PipeTypeOK, pipeVars, Answers
    <2>3. EffectTypeOK'
      BY <1>0, WinGateAssumption
      DEF IInv, TypeOK, EffectTypeOK, effectVars, Lapses
    <2> QED
      BY <2>1, <2>2, <2>3, WinGateAssumption
      DEF IInv, TypeOK, LoopTypeOK, loopVars, TaskTypeOK, taskVars, trackVars
  <1>2. \A t \in Shims \ {s} : Spared(t)
    BY DEF IInv, TypeOK, ShimTypeOK, PipeTypeOK, EffectTypeOK, Spared, shimVars,
           pipeVars, loopVars, taskVars, effectVars
  <1>3. Sound(s)'
    <2> USE WinGateAssumption
        DEF IInv, shimVars, pipeVars, loopVars, taskVars, effectVars, Sound,
            Once, OfKind, Accounted, Own, Settled, Unjudged, Excused, Decided,
            Unheard, Answers
    <2>1. CASE main' = Set(main, s, "tool") /\ Ran(s)
               /\ got' = Set(got, s, "raw")
      <3>1. main'[s] = "tool" /\ runs'[s] = runs[s] + 1 /\ got'[s] = "raw"
            /\ got[s] # "raw" /\ lapse'[s] = lapse[s] \cup {"late"}
        BY <2>1
        DEF IInv, TypeOK, ShimTypeOK, PipeTypeOK, TaskTypeOK, EffectTypeOK,
            Sound, Once
      <3> QED
        BY <1>0, <2>1, <3>1, SMTT(30)
    <2>2. CASE Exit(s) /\ kind[s] = "elsewhere"
      <3>1. main'[s] = "done" /\ talker'[s] = "end" /\ result'[s] = "none"
            /\ answer'[s] = "none" /\ conn'[s] \in {"none", "closed"}
            /\ lapse'[s] = lapse[s] \cup {"late"} /\ UNCHANGED <<runs, got>>
        BY <2>2
        DEF IInv, TypeOK, ShimTypeOK, PipeTypeOK, TaskTypeOK, EffectTypeOK
      <3> QED
        BY <2>2, <3>1
    <2> QED
      BY <2>1, <2>2
  <1>4. LoopOK'
    BY WinGateAssumption DEF IInv, LoopOK, loopVars
  <1> QED
    BY <1>1, <1>2, <1>3, <1>4, StepIInv

\* The shim ends with its tool.
LEMMA ToolEndIInv ==
  ASSUME IInv, NEW s \in Shims, ToolEnd(s)
  PROVE  IInv'
  <1> USE DEF ToolEnd, Set, Exit
  <1>1. TypeOK'
    <2>1. ShimTypeOK'
      BY WinGateAssumption
      DEF IInv, TypeOK, ShimTypeOK, shimVars, Answers, ToolKinds,
          PathKinds
    <2>2. PipeTypeOK'
      BY WinGateAssumption DEF IInv, TypeOK, PipeTypeOK, pipeVars, Answers
    <2> QED
      BY <2>1, <2>2, WinGateAssumption
      DEF IInv, TypeOK, LoopTypeOK, loopVars, TaskTypeOK, taskVars,
          EffectTypeOK, effectVars, trackVars
  <1>2. \A t \in Shims \ {s} : Spared(t)
    BY DEF IInv, TypeOK, ShimTypeOK, PipeTypeOK, Spared, shimVars, pipeVars,
           loopVars, taskVars, effectVars
  <1>3. Sound(s)'
    BY WinGateAssumption
    DEF IInv, TypeOK, ShimTypeOK, PipeTypeOK, TaskTypeOK, EffectTypeOK,
        shimVars, pipeVars, loopVars, taskVars, effectVars, Sound, Once, OfKind,
        Accounted, Own, Settled, Unjudged, Excused, Decided, Unheard, Answers
  <1>4. LoopOK'
    BY WinGateAssumption DEF IInv, LoopOK, loopVars
  <1> QED
    BY <1>1, <1>2, <1>3, <1>4, StepIInv

-----------------------------------------------------------------------------
(* The daemon.                                                             *)

\* A dropped request is not judged.
LEMMA DropIInv ==
  ASSUME IInv, NEW s \in Shims, Drop(s)
  PROVE  IInv'
  <1> USE DEF Drop, Set, Trouble
  <1>1. TypeOK'
    <2>1. PipeTypeOK'
      BY WinGateAssumption DEF IInv, TypeOK, PipeTypeOK, pipeVars, Answers
    <2>2. TaskTypeOK'
      BY WinGateAssumption
      DEF IInv, TypeOK, TaskTypeOK, taskVars, Answers, Works
    <2> QED
      BY <2>1, <2>2, WinGateAssumption
      DEF IInv, TypeOK, ShimTypeOK, shimVars, LoopTypeOK, loopVars,
          EffectTypeOK, effectVars, trackVars
  <1>2. \A t \in Shims \ {s} : Spared(t)
    BY DEF IInv, TypeOK, PipeTypeOK, TaskTypeOK, Spared, shimVars, pipeVars,
           loopVars, taskVars, effectVars
  <1>3. Sound(s)'
    BY WinGateAssumption
    DEF IInv, TypeOK, ShimTypeOK, PipeTypeOK, TaskTypeOK, EffectTypeOK,
        shimVars, pipeVars, loopVars, taskVars, effectVars, Sound, Once, OfKind,
        Accounted, Own, Settled, Unjudged, Excused, Decided, Unheard, Answers
  <1>4. LoopOK'
    BY WinGateAssumption DEF IInv, LoopOK, loopVars
  <1> QED
    BY <1>1, <1>2, <1>3, <1>4, StepIInv

\* The validators of a request of kind k decide, or run the tool.
Ruling(s, k, L) == Validated(s, k, L) \/ CaptureFailed(s, k, L)

\* What they make of it, one case for each of their answers.
RunByShim(s, k, L) ==
  /\ task' = Set(task, s, "reply") \/ task' = Set(task, s, "report")
  /\ verdict' = Set(verdict, s, "exec") /\ runs' = runs
  /\ \/ k \in {"plain", "warned"} /\ Lapsed(s, L)
     \/ /\ k \in {"path", "capture"} /\ PathActions # {"block"}
        /\ Lapsed(s, L \cup {"waived"})
Stopped(s, L) ==
  /\ \/ task' = Set(task, s, "report") /\ verdict' = Set(verdict, s, "block")
     \/ task' = Set(task, s, "match") /\ verdict' = verdict
  /\ runs' = runs /\ Lapsed(s, L)
RunByDaemon(s, L) ==
  task' = Set(task, s, "capture") /\ verdict' = verdict /\ Ran(s) /\ Lapsed(s, L)

LEMMA Rulings ==
  ASSUME NEW s \in Shims, NEW k, NEW L \in SUBSET Lapses, Ruling(s, k, L)
  PROVE  RunByShim(s, k, L) \/ Stopped(s, L) \/ RunByDaemon(s, L)
  <1> USE DEF Answering, Reporting, Waiting, RunByShim, Stopped, RunByDaemon
  <1>1. ASSUME PathBlock(s, L)
        PROVE  \/ /\ task' = Set(task, s, "report")
                  /\ verdict' = Set(verdict, s, "block") /\ Lapsed(s, L)
               \/ /\ task' = Set(task, s, "reply") \/ task' = Set(task, s, "report")
                  /\ verdict' = Set(verdict, s, "exec")
                  /\ PathActions # {"block"} /\ Lapsed(s, L \cup {"waived"})
    BY <1>1 DEF PathBlock
  <1>2. CASE Validated(s, k, L)
    BY <1>1, <1>2 DEF Validated
  <1>3. CASE CaptureFailed(s, k, L)
    BY <1>1, <1>3 DEF CaptureFailed
  <1> QED
    BY <1>2, <1>3 DEF Ruling

\* The types after it, and the invocations it is not about.
LEMMA RulingTypes ==
  ASSUME IInv, NEW s \in Shims, NEW k, NEW L \in SUBSET Lapses, Ruling(s, k, L),
         task[s] \in {"line", "vault"}, UNCHANGED vault
  PROVE  /\ TaskTypeOK'
         /\ runs' \in [Shims -> 0..2] /\ lapse' \in [Shims -> SUBSET Lapses]
         /\ \A t \in Shims \ {s} : /\ task'[t] = task[t] /\ verdict'[t] = verdict[t]
                                   /\ runs'[t] = runs[t] /\ lapse'[t] = lapse[t]
  <1>1. runs[s] \in {0, 1}
    BY DEF IInv, TypeOK, Sound, Once, Accounted, Own, Unjudged
  <1>2. CASE RunByShim(s, k, L) \/ Stopped(s, L)
    <2>0. /\ \E w \in {"reply", "report", "match"} :
               task' = [task EXCEPT ![s] = w]
          /\ \/ verdict' = verdict
             \/ \E v \in {"exec", "block"} :
                  verdict' = [verdict EXCEPT ![s] = v]
      BY <1>2 DEF RunByShim, Stopped, Set
    <2>a. task' \in [Shims -> Works \cup {"none", "line", "reply"}]
      BY <2>0 DEF IInv, TypeOK, TaskTypeOK, Works
    <2>b. verdict' \in [Shims -> Answers \cup {"none"}]
      BY <2>0 DEF IInv, TypeOK, TaskTypeOK, Answers
    <2>1. TaskTypeOK'
      BY <2>a, <2>b DEF IInv, TypeOK, TaskTypeOK
    <2>2. runs' = runs /\ (Lapsed(s, L) \/ Lapsed(s, L \cup {"waived"}))
      BY <1>2 DEF RunByShim, Stopped
    <2>3. \A t \in Shims \ {s} : task'[t] = task[t] /\ verdict'[t] = verdict[t]
      BY <1>2 DEF RunByShim, Stopped, Set, IInv, TypeOK, TaskTypeOK
    <2>4. PICK M \in SUBSET Lapses :
                 lapse' = [lapse EXCEPT ![s] = lapse[s] \cup M]
      <3>1. L \cup {"waived"} \in SUBSET Lapses
        BY DEF Lapses
      <3> QED
        BY <2>2, <3>1 DEF Lapsed
    <2>5. /\ lapse' \in [Shims -> SUBSET Lapses]
          /\ \A t \in Shims \ {s} : lapse'[t] = lapse[t]
      BY <2>4 DEF IInv, TypeOK, EffectTypeOK
    <2> QED
      BY <2>1, <2>2, <2>3, <2>5 DEF IInv, TypeOK, EffectTypeOK
  <1>3. CASE RunByDaemon(s, L)
    <2>1. TaskTypeOK'
      BY <1>3 DEF RunByDaemon, Set, IInv, TypeOK, TaskTypeOK, Works
    <2>2. runs' = [runs EXCEPT ![s] = runs[s] + 1]
          /\ lapse' = [lapse EXCEPT ![s] = lapse[s] \cup L]
      BY <1>3 DEF RunByDaemon, Ran, Lapsed
    <2>3. \A t \in Shims \ {s} : task'[t] = task[t] /\ verdict'[t] = verdict[t]
      BY <1>3 DEF RunByDaemon, Set, IInv, TypeOK, TaskTypeOK
    <2> QED
      BY <1>1, <2>1, <2>2, <2>3 DEF IInv, TypeOK, EffectTypeOK
  <1> QED
    BY <1>2, <1>3, Rulings

\* A request the validators judge by its kind, or by another one after the error
\* that brought a secret file to them, is accounted for.
LEMMA RulingSound ==
  ASSUME IInv, NEW s \in Shims, NEW k, NEW L \in SUBSET Lapses, Ruling(s, k, L),
         task[s] \in {"line", "vault"}, "waived" \notin L,
         kind[s] = k \/ (kind[s] = "secret" /\ L # {}),
         UNCHANGED <<shimVars, conn, answer, pend, got>>
  PROVE  Sound(s)'
  <1> USE DEF shimVars
  <1>0. /\ runs[s] = Own(s) /\ talker[s] \notin {"off", "open"} /\ pend # s
        /\ answer[s] = "none" /\ result[s] \notin Answers /\ runs[s] \in {0, 1}
    BY DEF IInv, Sound, Once, Accounted, Own, Unjudged
  <1>1. CASE /\ task'[s] \in {"reply", "report"} /\ verdict'[s] = "exec"
             /\ runs'[s] = runs[s]
             /\ \/ k \in {"plain", "warned"} /\ lapse'[s] = lapse[s] \cup L
                \/ /\ k \in {"path", "capture"} /\ PathActions # {"block"}
                   /\ lapse'[s] = lapse[s] \cup L \cup {"waived"}
    <2>1. (kind[s] \notin Guarded \/ lapse'[s] # {})
      BY <1>1 DEF Guarded, PathKinds
    <2>2. lapse[s] \subseteq lapse'[s]
      BY <1>1
    <2>3. "waived" \in lapse'[s] => kind[s] \in PathKinds /\ PathActions # {"block"}
      BY <1>1 DEF IInv, Sound, OfKind, PathKinds
    <2> QED
      BY <1>0, <1>1, <2>1, <2>2, <2>3
      DEF IInv, Sound, Once, OfKind, Accounted, Own, Settled, Unjudged, Excused,
          Decided, Unheard, Answers
  <1>2. CASE /\ \/ task'[s] = "report" /\ verdict'[s] = "block"
                \/ task'[s] = "match" /\ verdict'[s] = verdict[s]
             /\ runs'[s] = runs[s] /\ lapse'[s] = lapse[s] \cup L
    BY <1>0, <1>2
    DEF IInv, Sound, Once, OfKind, Accounted, Own, Settled, Unjudged, Excused,
        Decided, Unheard, Answers
  <1>3. CASE /\ task'[s] = "capture" /\ verdict'[s] = verdict[s]
             /\ runs'[s] = runs[s] + 1 /\ lapse'[s] = lapse[s] \cup L
    BY <1>0, <1>3
    DEF IInv, Sound, Once, OfKind, Accounted, Own, Settled, Unjudged, Excused,
        Decided, Unheard, Answers
  <1> QED
    BY <1>1, <1>2, <1>3, Rulings
    DEF RunByShim, Stopped, RunByDaemon, IInv, TypeOK, TaskTypeOK, EffectTypeOK,
        Set, Lapsed, Ran

\* The verdict: only a tool whose output the daemon captures is run here.
LEMMA ProcessIInv ==
  ASSUME IInv, NEW s \in Shims, Process(s)
  PROVE  IInv'
  <1> USE DEF Process, Set, Trouble, Lapsed, Answering, Snapshot, Live, Descends
  <1>0. {} \in SUBSET Lapses
    OBVIOUS
  <1>a. \/ Ruling(s, kind[s], {})
        \/ /\ runs' = runs
           /\ \/ lapse' = lapse
              \/ Lapsed(s, {"error"}) \/ Lapsed(s, {"unseen"})
           /\ \/ Answering(s, "exec") \/ Waiting(s, "vault")
              \/ Waiting(s, "relaywait")
    BY DEF Judge, Ruling
  <1>b. /\ TaskTypeOK'
        /\ runs' \in [Shims -> 0..2] /\ lapse' \in [Shims -> SUBSET Lapses]
        /\ \A t \in Shims \ {s} : /\ task'[t] = task[t] /\ verdict'[t] = verdict[t]
                                  /\ runs'[t] = runs[t] /\ lapse'[t] = lapse[t]
    <2>1. CASE Ruling(s, kind[s], {})
      BY <1>0, <2>1, RulingTypes
    <2>2. CASE /\ runs' = runs
               /\ \/ lapse' = lapse
                  \/ Lapsed(s, {"error"}) \/ Lapsed(s, {"unseen"})
               /\ \/ Answering(s, "exec") \/ Waiting(s, "vault")
                  \/ Waiting(s, "relaywait")
      BY <2>2
      DEF Waiting, IInv, TypeOK, TaskTypeOK, EffectTypeOK, Answers, Works, Lapses
    <2> QED
      BY <1>a, <2>1, <2>2
  <1>1. TypeOK'
    <2>1. PipeTypeOK'
      BY WinGateAssumption DEF IInv, TypeOK, PipeTypeOK, pipeVars, Answers
    <2>2. EffectTypeOK'
      BY <1>b DEF IInv, TypeOK, EffectTypeOK
    <2>3. known' \subseteq Shims /\ fresh' \in BOOLEAN
      BY DEF IInv, TypeOK, trackVars
    <2>4. troubles' \in 0..MaxTroubles
      BY WinGateAssumption DEF IInv, TypeOK
    <2> QED
      BY <1>b, <2>1, <2>2, <2>3, <2>4
      DEF IInv, TypeOK, ShimTypeOK, shimVars, LoopTypeOK, loopVars
  <1>2. \A t \in Shims \ {s} : Spared(t)
    BY <1>b DEF Spared, shimVars, loopVars
  <1>3. Sound(s)'
    <2> USE WinGateAssumption
        DEF IInv, shimVars, pipeVars, loopVars, taskVars, effectVars, Sound,
            Once, OfKind, Accounted, Own, Settled, Unjudged, Excused, Decided,
            Unheard, Answers, Guarded, PathKinds
    <2>1. CASE Answering(s, "exec") /\ Lapsed(s, {"error"}) /\ UNCHANGED runs
      <3>1. task'[s] = "reply" /\ verdict'[s] = "exec"
            /\ lapse'[s] = lapse[s] \cup {"error"}
            /\ lapse'[s] # {}
        BY <2>1
        DEF IInv, TypeOK, ShimTypeOK, PipeTypeOK, TaskTypeOK, EffectTypeOK
      <3> QED
        BY <2>1, <3>1
    <2>2. CASE ~Descends(s) /\ Answering(s, "exec") /\ UNCHANGED runs
               /\ lapse' = IF kind[s] = "stranger" THEN lapse
                           ELSE [lapse EXCEPT ![s] = @ \cup {"unseen"}]
      <3>1. task'[s] = "reply" /\ verdict'[s] = "exec"
        BY <2>2
        DEF IInv, TypeOK, ShimTypeOK, PipeTypeOK, TaskTypeOK, EffectTypeOK
      <3>2. CASE kind[s] = "stranger"
        <4>1. lapse' = lapse
          BY <2>2, <3>2
        <4> QED
          BY <2>2, <3>1, <3>2, <4>1
      <3>3. CASE kind[s] # "stranger"
        <4>1. lapse'[s] = lapse[s] \cup {"unseen"}
          BY <2>2, <3>3 DEF IInv, TypeOK, EffectTypeOK
        <4>2. lapse'[s] # {}
          BY <4>1
        <4> QED
          BY <2>2, <3>1, <4>1, <4>2
      <3> QED
        BY <3>2, <3>3
    <2>3. CASE Judge(s) \/ CaptureFailed(s, kind[s], {})
      <3>1. CASE task'[s] = "reply" /\ verdict'[s] = "exec"
                 /\ UNCHANGED <<runs, lapse>> /\ kind[s] \in {"denied", "elsewhere"}
        BY <3>1
      <3>2. CASE /\ UNCHANGED <<runs, lapse, verdict>>
                 /\ \/ task'[s] = "vault" /\ kind[s] = "secret"
                    \/ task'[s] = "relaywait" /\ kind[s] = "relay"
        BY <3>2 DEF IInv, TypeOK, TaskTypeOK
      <3>3. CASE Ruling(s, kind[s], {})
        BY <3>3, RulingSound, SMTT(30)
      <3> QED
        <4>1. ASSUME NEW w \in {"vault", "relaywait", "reply"},
                     task' = Set(task, s, w)
              PROVE  task'[s] = w
          BY <4>1 DEF IInv, TypeOK, TaskTypeOK
        <4>2. verdict' = Set(verdict, s, "exec") => verdict'[s] = "exec"
          BY DEF IInv, TypeOK, TaskTypeOK
        <4>3. CASE ReadsSecret(s) /\ Waiting(s, "vault") /\ UNCHANGED <<lapse, runs>>
          BY <3>2, <4>1, <4>3 DEF ReadsSecret, Waiting
        <4>4. CASE /\ RelayAllowed(s) /\ Waiting(s, "relaywait")
                   /\ UNCHANGED <<lapse, runs>>
          BY <3>2, <4>1, <4>4 DEF RelayAllowed, Waiting
        <4>5. CASE /\ kind[s] = "denied" \/ ~HasRealTool(s)
                   /\ Answering(s, "exec") /\ UNCHANGED <<lapse, runs>>
          BY <3>1, <4>1, <4>2, <4>5 DEF HasRealTool
        <4> QED
          BY <2>3, <3>3, <4>3, <4>4, <4>5 DEF Judge, Ruling
    <2> QED
      BY <2>1, <2>2, <2>3 DEF Judge, Validated
  <1>4. LoopOK'
    BY WinGateAssumption DEF IInv, LoopOK, loopVars
  <1> QED
    BY <1>1, <1>2, <1>3, <1>4, StepIInv

\* The answer is the output.
LEMMA CaptureEndIInv ==
  ASSUME IInv, NEW s \in Shims, CaptureEnd(s)
  PROVE  IInv'
  <1> USE DEF CaptureEnd, Set, Reporting
  <1>1. TypeOK'
    <2>1. TaskTypeOK'
      BY WinGateAssumption
      DEF IInv, TypeOK, TaskTypeOK, taskVars, Answers, Works
    <2> QED
      BY <2>1, WinGateAssumption
      DEF IInv, TypeOK, ShimTypeOK, shimVars, PipeTypeOK, pipeVars, LoopTypeOK,
          loopVars, EffectTypeOK, effectVars, trackVars
  <1>2. \A t \in Shims \ {s} : Spared(t)
    BY DEF IInv, TypeOK, TaskTypeOK, Spared, shimVars, pipeVars, loopVars,
           taskVars, effectVars
  <1>3. Sound(s)'
    BY WinGateAssumption
    DEF IInv, TypeOK, ShimTypeOK, PipeTypeOK, TaskTypeOK, EffectTypeOK,
        shimVars, pipeVars, loopVars, taskVars, effectVars, Sound, Once, OfKind,
        Accounted, Own, Settled, Unjudged, Excused, Decided, Unheard, Answers
  <1>4. LoopOK'
    BY WinGateAssumption DEF IInv, LoopOK, loopVars
  <1> QED
    BY <1>1, <1>2, <1>3, <1>4, StepIInv

\* A secret file that is not masked is noted.
LEMMA MaskIInv ==
  ASSUME IInv, NEW s \in Shims, Mask(s)
  PROVE  IInv'
  <1> USE DEF Mask, Trouble
  <1>0. {"error"} \in SUBSET Lapses /\ UNCHANGED vault
    BY DEF Lapses
  <1>a. PICK k \in {"plain", "path", "capture", "endless"} :
             \/ Ruling(s, k, {"error"})
             \/ Answering(s, "output") /\ UNCHANGED <<lapse, runs>>
    BY DEF Ruling
  <1>b. /\ TaskTypeOK'
        /\ runs' \in [Shims -> 0..2] /\ lapse' \in [Shims -> SUBSET Lapses]
        /\ \A t \in Shims \ {s} : /\ task'[t] = task[t] /\ verdict'[t] = verdict[t]
                                  /\ runs'[t] = runs[t] /\ lapse'[t] = lapse[t]
    <2>1. CASE Ruling(s, k, {"error"})
      BY <1>0, <2>1, RulingTypes
    <2>2. CASE Answering(s, "output") /\ UNCHANGED <<lapse, runs>>
      BY <1>0, <2>2
      DEF Answering, Set, IInv, TypeOK, TaskTypeOK, EffectTypeOK, Answers, Works
    <2> QED
      BY <1>a, <2>1, <2>2
  <1>1. TypeOK'
    <2>1. EffectTypeOK'
      BY <1>b DEF IInv, TypeOK, EffectTypeOK
    <2>2. troubles' \in 0..MaxTroubles
      BY WinGateAssumption DEF IInv, TypeOK
    <2> QED
      BY <1>b, <2>1, <2>2
      DEF IInv, TypeOK, ShimTypeOK, shimVars, PipeTypeOK, pipeVars, LoopTypeOK,
          loopVars, trackVars
  <1>2. \A t \in Shims \ {s} : Spared(t)
    BY <1>b DEF Spared, shimVars, pipeVars, loopVars
  <1>3. Sound(s)'
    <2>1. CASE Ruling(s, k, {"error"})
      <3>1. kind[s] = "secret" /\ {"error"} # {} /\ "waived" \notin {"error"}
        BY DEF IInv, Sound, OfKind
      <3> QED
        BY <1>0, <2>1, <3>1, RulingSound DEF pipeVars, loopVars
    <2>2. CASE Answering(s, "output") /\ UNCHANGED <<lapse, runs>>
      <3>1. task'[s] = "reply" /\ verdict'[s] = "output"
        BY <2>2 DEF Answering, Set, IInv, TypeOK, TaskTypeOK
      <3> QED
        BY <2>2, <3>1
        DEF IInv, shimVars, pipeVars, loopVars, Sound, Once, OfKind, Accounted,
            Own, Settled, Unjudged, Excused, Decided, Unheard, Answers
    <2> QED
      BY <1>a, <2>1, <2>2
  <1>4. LoopOK'
    BY DEF IInv, LoopOK, loopVars
  <1> QED
    BY <1>1, <1>2, <1>3, <1>4, StepIInv

\* The daemon runs the request, or leaves it to the shim.
LEMMA RelayIInv ==
  ASSUME IInv, NEW s \in Shims, Relay(s)
  PROVE  IInv'
  <1> USE DEF Relay, Set, Waiting, Answering, Trouble, Ran
  <1>0. runs[s] \in {0, 1}
    BY DEF IInv, TypeOK, Sound, Once, Accounted, Own, Unjudged
  <1>1. TypeOK'
    <2>1. TaskTypeOK'
      BY WinGateAssumption
      DEF IInv, TypeOK, TaskTypeOK, taskVars, Answers, Works
    <2>2. EffectTypeOK'
      BY <1>0, WinGateAssumption
      DEF IInv, TypeOK, EffectTypeOK, effectVars, Lapses
    <2> QED
      BY <2>1, <2>2, WinGateAssumption
      DEF IInv, TypeOK, ShimTypeOK, shimVars, PipeTypeOK, pipeVars, LoopTypeOK,
          loopVars, trackVars
  <1>2. \A t \in Shims \ {s} : Spared(t)
    BY DEF IInv, TypeOK, TaskTypeOK, EffectTypeOK, Spared, shimVars, pipeVars,
           loopVars, taskVars, effectVars
  <1>3. Sound(s)'
    <2> USE WinGateAssumption
        DEF IInv, shimVars, pipeVars, loopVars, taskVars, effectVars, Sound,
            Once, OfKind, Accounted, Own, Settled, Unjudged, Excused, Decided,
            Unheard, Answers, Guarded, PathKinds
    <2>1. CASE Ran(s) /\ Waiting(s, "relay")
      <3>1. task'[s] = "relay" /\ runs'[s] = runs[s] + 1 /\ UNCHANGED verdict
        BY <2>1
        DEF IInv, TypeOK, ShimTypeOK, PipeTypeOK, TaskTypeOK, EffectTypeOK
      <3> QED
        BY <2>1, <3>1
    <2>2. CASE Answering(s, "exec") /\ UNCHANGED runs
      <3>1. task'[s] = "reply" /\ verdict'[s] = "exec"
        BY <2>2
        DEF IInv, TypeOK, ShimTypeOK, PipeTypeOK, TaskTypeOK, EffectTypeOK
      <3> QED
        BY <2>2, <3>1
    <2> QED
      BY <2>1, <2>2
  <1>4. LoopOK'
    BY WinGateAssumption DEF IInv, LoopOK, loopVars
  <1> QED
    BY <1>1, <1>2, <1>3, <1>4, StepIInv

\* The answer is the output.
LEMMA RelayEndIInv ==
  ASSUME IInv, NEW s \in Shims, RelayEnd(s)
  PROVE  IInv'
  <1> USE DEF RelayEnd, Set, Answering
  <1>1. TypeOK'
    <2>1. TaskTypeOK'
      BY WinGateAssumption
      DEF IInv, TypeOK, TaskTypeOK, taskVars, Answers, Works
    <2> QED
      BY <2>1, WinGateAssumption
      DEF IInv, TypeOK, ShimTypeOK, shimVars, PipeTypeOK, pipeVars, LoopTypeOK,
          loopVars, EffectTypeOK, effectVars, trackVars
  <1>2. \A t \in Shims \ {s} : Spared(t)
    BY DEF IInv, TypeOK, TaskTypeOK, Spared, shimVars, pipeVars, loopVars,
           taskVars, effectVars
  <1>3. Sound(s)'
    BY WinGateAssumption
    DEF IInv, TypeOK, ShimTypeOK, PipeTypeOK, TaskTypeOK, EffectTypeOK,
        shimVars, pipeVars, loopVars, taskVars, effectVars, Sound, Once, OfKind,
        Accounted, Own, Settled, Unjudged, Excused, Decided, Unheard, Answers
  <1>4. LoopOK'
    BY WinGateAssumption DEF IInv, LoopOK, loopVars
  <1> QED
    BY <1>1, <1>2, <1>3, <1>4, StepIInv

\* The verdict stays as it is.
LEMMA ReportIInv ==
  ASSUME IInv, NEW s \in Shims, Report(s)
  PROVE  IInv'
  <1> USE DEF Report, Set, Answering
  <1>1. TypeOK'
    <2>1. TaskTypeOK'
      BY WinGateAssumption
      DEF IInv, TypeOK, TaskTypeOK, taskVars, Answers, Works
    <2> QED
      BY <2>1, WinGateAssumption
      DEF IInv, TypeOK, ShimTypeOK, shimVars, PipeTypeOK, pipeVars, LoopTypeOK,
          loopVars, EffectTypeOK, effectVars, trackVars
  <1>2. \A t \in Shims \ {s} : Spared(t)
    BY DEF IInv, TypeOK, TaskTypeOK, Spared, shimVars, pipeVars, loopVars,
           taskVars, effectVars
  <1>3. Sound(s)'
    BY WinGateAssumption
    DEF IInv, TypeOK, ShimTypeOK, PipeTypeOK, TaskTypeOK, EffectTypeOK,
        shimVars, pipeVars, loopVars, taskVars, effectVars, Sound, Once, OfKind,
        Accounted, Own, Settled, Unjudged, Excused, Decided, Unheard, Answers
  <1>4. LoopOK'
    BY WinGateAssumption DEF IInv, LoopOK, loopVars
  <1> QED
    BY <1>1, <1>2, <1>3, <1>4, StepIInv

\* The verdict goes into the pipe if the shim is there, and the task ends.
LEMMA ReplyIInv ==
  ASSUME IInv, NEW s \in Shims, Reply(s)
  PROVE  IInv'
  <1> USE DEF Reply, Set
  <1>1. TypeOK'
    <2>1. PipeTypeOK'
      BY WinGateAssumption
      DEF IInv, TypeOK, PipeTypeOK, TaskTypeOK, pipeVars, Answers
    <2>2. TaskTypeOK'
      BY WinGateAssumption
      DEF IInv, TypeOK, TaskTypeOK, taskVars, Answers, Works
    <2> QED
      BY <2>1, <2>2, WinGateAssumption
      DEF IInv, TypeOK, ShimTypeOK, shimVars, LoopTypeOK, loopVars,
          EffectTypeOK, effectVars, trackVars
  <1>2. \A t \in Shims \ {s} : Spared(t)
    BY DEF IInv, TypeOK, PipeTypeOK, TaskTypeOK, Spared, shimVars, pipeVars,
           loopVars, taskVars, effectVars
  <1>3. Sound(s)'
    BY WinGateAssumption
    DEF IInv, TypeOK, ShimTypeOK, PipeTypeOK, TaskTypeOK, EffectTypeOK,
        shimVars, pipeVars, loopVars, taskVars, effectVars, Sound, Once, OfKind,
        Accounted, Own, Settled, Unjudged, Excused, Decided, Unheard, Answers
  <1>4. LoopOK'
    BY WinGateAssumption DEF IInv, LoopOK, loopVars
  <1> QED
    BY <1>1, <1>2, <1>3, <1>4, StepIInv

\* The loop hands the connection over, to be judged.
LEMMA ServedSound ==
  ASSUME IInv, Served, pend # Nobody,
         UNCHANGED <<shimVars, pipeVars, verdict, effectVars>>
  PROVE  \A s \in Shims : Sound(s)'
  <1> USE DEF Served, Set, shimVars, pipeVars, effectVars
  <1>1. pend \in Shims
    BY DEF IInv, TypeOK, LoopTypeOK
  <1>2. ASSUME NEW s \in Shims \ {pend} PROVE Spared(s)
    BY <1>1, WinGateAssumption
    DEF IInv, TypeOK, ShimTypeOK, PipeTypeOK, TaskTypeOK, EffectTypeOK, Spared
  <1>3. Sound(pend) /\ pend' = Nobody /\ pend' # pend
    BY <1>1, WinGateAssumption DEF IInv
  <1>4. ASSUME NEW s \in Shims, s = pend PROVE Sound(s)'
    BY <1>3, <1>4
    DEF IInv, TypeOK, ShimTypeOK, PipeTypeOK, TaskTypeOK, EffectTypeOK, Sound,
        Once, OfKind, Accounted, Own, Settled, Unjudged, Excused, Decided,
        Unheard, Answers
  <1> QED
    BY <1>2, <1>4, SparedSound DEF IInv

\* What the daemon was about to do is not done any more.
LEMMA GoneSound ==
  ASSUME IInv, Gone, UNCHANGED <<shimVars, answer, effectVars>>
  PROVE  \A s \in Shims : Sound(s)'
  <1> USE DEF Gone, shimVars, effectVars
  <1> SUFFICES ASSUME NEW s \in Shims PROVE Sound(s)'
    OBVIOUS
  <1>1. pend' # s /\ task'[s] = "none"
    BY WinGateAssumption
  <1> QED
    BY <1>1
    DEF IInv, TypeOK, ShimTypeOK, PipeTypeOK, TaskTypeOK, EffectTypeOK, Sound,
        Once, OfKind, Accounted, Own, Settled, Unjudged, Excused, Decided,
        Unheard, Answers

\* A connection is accepted, or is to be tried again.
LEMMA AcceptIInv ==
  ASSUME IInv, Accept
  PROVE  IInv'
  <1> USE DEF Accept, Trouble, shimVars, pipeVars, trackVars, effectVars
  <1>1. CASE Served
    <2>1. TypeOK'
      BY <1>1, WinGateAssumption
      DEF Served, Set, IInv, TypeOK, ShimTypeOK, PipeTypeOK, LoopTypeOK,
          TaskTypeOK, EffectTypeOK, Works
    <2>2. \A s \in Shims : Sound(s)'
      BY <1>1, ServedSound
    <2>3. LoopOK'
      BY <1>1 DEF Served, LoopOK
    <2> QED
      BY <2>1, <2>2, <2>3 DEF IInv
  <1>2. CASE UNCHANGED <<free, pend, task>> /\ loop' = "retry" /\ Trouble
    <2>1. TypeOK'
      BY <1>2, WinGateAssumption
      DEF IInv, TypeOK, ShimTypeOK, PipeTypeOK, LoopTypeOK, TaskTypeOK,
          EffectTypeOK, Works
    <2>2. \A s \in Shims : Spared(s)
      BY <1>2 DEF Spared
    <2>3. LoopOK'
      BY <1>2 DEF IInv, LoopOK
    <2> QED
      BY <2>1, <2>2, <2>3, SparedSound DEF IInv
  <1> QED
    BY <1>1, <1>2

\* An error of connect concerns no invocation.
LEMMA ConnectFailsIInv ==
  ASSUME IInv, ConnectFails
  PROVE  IInv'
  <1> USE DEF ConnectFails, Trouble, shimVars, pipeVars, taskVars, trackVars,
              effectVars
  <1>1. TypeOK'
    BY WinGateAssumption
    DEF IInv, TypeOK, ShimTypeOK, PipeTypeOK, LoopTypeOK, TaskTypeOK,
        EffectTypeOK
  <1>2. \A s \in Shims : Spared(s)
    BY DEF Spared
  <1>3. LoopOK'
    BY DEF IInv, LoopOK
  <1> QED
    BY <1>1, <1>2, <1>3, SparedSound DEF IInv

\* The second attempt serves the client or ends the daemon.
LEMMA AcceptAgainIInv ==
  ASSUME IInv, AcceptAgain
  PROVE  IInv'
  <1> USE DEF AcceptAgain, shimVars, pipeVars, trackVars, effectVars
  <1>1. CASE Served /\ UNCHANGED <<conn, sent, up, verdict, vault>>
    <2>1. TypeOK'
      BY <1>1, WinGateAssumption
      DEF Served, Set, IInv, TypeOK, ShimTypeOK, PipeTypeOK, LoopTypeOK,
          TaskTypeOK, EffectTypeOK, Works
    <2>2. \A s \in Shims : Sound(s)'
      BY <1>1, ServedSound DEF IInv, LoopOK
    <2>3. LoopOK'
      BY <1>1 DEF Served, LoopOK
    <2> QED
      BY <2>1, <2>2, <2>3 DEF IInv
  <1>2. CASE Gone
    <2>1. TypeOK'
      BY <1>2, WinGateAssumption
      DEF Gone, IInv, TypeOK, ShimTypeOK, PipeTypeOK, LoopTypeOK, TaskTypeOK,
          EffectTypeOK, Works
    <2>2. \A s \in Shims : Sound(s)'
      BY <1>2, GoneSound
    <2>3. LoopOK'
      BY <1>2 DEF Gone, LoopOK
    <2> QED
      BY <2>1, <2>2, <2>3 DEF IInv
  <1> QED
    BY <1>1, <1>2

\* The daemon may end at any step.
LEMMA CrashIInv ==
  ASSUME IInv, Crash
  PROVE  IInv'
  <1> USE DEF Crash, Trouble, shimVars, trackVars, effectVars
  <1>1. TypeOK'
    <2>1. PipeTypeOK' /\ LoopTypeOK'
      BY DEF Gone, IInv, TypeOK, PipeTypeOK, LoopTypeOK
    <2>2. TaskTypeOK'
      BY DEF Gone, TaskTypeOK
    <2>3. troubles' \in 0..MaxTroubles
      BY WinGateAssumption DEF IInv, TypeOK
    <2> QED
      BY <2>1, <2>2, <2>3 DEF IInv, TypeOK, ShimTypeOK, EffectTypeOK
  <1>2. \A s \in Shims : Sound(s)'
    BY GoneSound
  <1>3. LoopOK'
    BY DEF Gone, LoopOK
  <1> QED
    BY <1>1, <1>2, <1>3 DEF IInv

\* A new daemon, and time that passes, concern no invocation.
LEMMA StartIInv ==
  ASSUME IInv, Start \/ Elapse
  PROVE  IInv'
  <1> USE DEF Start, Elapse, Live, shimVars, pipeVars, loopVars, taskVars,
              effectVars
  <1>1. TypeOK'
    <2>1. LoopTypeOK' /\ known' \subseteq Shims /\ fresh' \in BOOLEAN
      BY DEF IInv, TypeOK, LoopTypeOK
    <2> QED
      BY <2>1 DEF IInv, TypeOK, ShimTypeOK, PipeTypeOK, TaskTypeOK, EffectTypeOK
  <1>2. \A s \in Shims : Spared(s)
    BY DEF Spared
  <1>3. LoopOK'
    BY DEF IInv, LoopOK
  <1> QED
    BY <1>1, <1>2, <1>3, SparedSound DEF IInv
-----------------------------------------------------------------------------
(* The specification.                                                      *)

\* Every step keeps the invariant.
LEMMA NextIInv ==
  ASSUME IInv, [Next]_vars
  PROVE  IInv'
  <1>1. ASSUME NEW s \in Shims, NEW k \in KindsOf(s), Invoke(s, k) PROVE IInv'
    BY <1>1, InvokeIInv
  <1>2. ASSUME NEW s \in Shims, Talk(s) PROVE IInv'
    BY <1>2, OpenIInv, WriteIInv, ReadIInv DEF Talk
  <1>3. ASSUME NEW s \in Shims, Await(s) PROVE IInv'
    BY <1>3, ReceiveIInv, TimeoutIInv DEF Await
  <1>4. ASSUME NEW s \in Shims, ToolEnd(s) \/ Drop(s) \/ Process(s) PROVE IInv'
    BY <1>4, ToolEndIInv, DropIInv, ProcessIInv
  <1>5. ASSUME NEW s \in Shims, Handle(s) PROVE IInv'
    BY <1>5, MaskIInv, RelayIInv, ReportIInv, ReplyIInv DEF Handle
  <1>6. ASSUME NEW s \in Shims, CaptureEnd(s) \/ RelayEnd(s) PROVE IInv'
    BY <1>6, CaptureEndIInv, RelayEndIInv
  <1>7. CASE Listen
    BY <1>7, AcceptIInv, AcceptAgainIInv DEF Listen
  <1>8. CASE ConnectFails \/ Crash \/ Start \/ Elapse
    BY <1>8, ConnectFailsIInv, CrashIInv, StartIInv
  <1>9. CASE UNCHANGED vars
    <2> USE <1>9 DEF vars, shimVars, pipeVars, loopVars, taskVars, trackVars,
                     effectVars
    <2>1. TypeOK'
      BY DEF IInv, TypeOK, ShimTypeOK, PipeTypeOK, LoopTypeOK, TaskTypeOK,
             EffectTypeOK
    <2>2. LoopOK' /\ \A s \in Shims : Spared(s)
      BY DEF IInv, LoopOK, Spared
    <2> QED
      BY <2>1, <2>2, SparedSound DEF IInv
  <1> QED
    BY <1>1, <1>2, <1>3, <1>4, <1>5, <1>6, <1>7, <1>8, <1>9 DEF Next

\* The invariant holds in every state.
LEMMA Invariant == Spec => []IInv
  BY InitIInv, NextIInv, PTL DEF Spec

\* Every variable keeps its type; in particular no tool is run three times.
THEOREM TypeCorrect == Spec => []TypeOK
  <1>1. IInv => TypeOK
    BY DEF IInv
  <1> QED
    BY Invariant, <1>1, PTL

\* A guarded tool is run by its shim only after a lapse, which is a waiver of
\* rules.json for paths only and for none under the default rules; a refused one
\* is run by nobody, and one is run twice only if the daemon's answer was late or
\* lost: for any number of shims, workers and attempts and however often the
\* daemon ends.
THEOREM Runs_AsJudged == Spec => []RunsAsJudged
  <1>1. IInv => RunsAsJudged
    <2> SUFFICES ASSUME IInv, NEW s \in Shims
                 PROVE  /\ kind[s] \in Guarded /\ got[s] = "raw" => lapse[s] # {}
                        /\ "waived" \in lapse[s] =>
                             kind[s] \in PathKinds /\ PathActions # {"block"}
                        /\ got[s] = "refused" => runs[s] = 0
                        /\ runs[s] = 2 =>
                             lapse[s] \cap {"late", "gone", "oversize"} # {}
      BY DEF RunsAsJudged
    <2>1. Accounted(s) /\ OfKind(s)
      BY DEF IInv, Sound
    <2>2. kind[s] \in Guarded /\ got[s] = "raw" => lapse[s] # {}
      BY <2>1 DEF Accounted, Excused
    <2>3. got[s] = "refused" => runs[s] = 0
      BY <2>1 DEF Accounted, Settled, Own
    <2>4. runs[s] = 2 => got[s] = "raw" /\ ~Settled(s)
      BY <2>1 DEF Accounted, Settled, Own
    <2>5. runs[s] = 2 => \E l \in {"late", "gone", "oversize"} : l \in lapse[s]
      BY <2>1, <2>4 DEF Accounted, Unheard
    <2>6. runs[s] = 2 => lapse[s] \cap {"late", "gone", "oversize"} # {}
      BY <2>5
    <2> QED
      BY <2>1, <2>2, <2>3, <2>6 DEF OfKind
  <1> QED
    BY Invariant, <1>1, PTL
=============================================================================
