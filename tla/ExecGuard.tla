------------------------------ MODULE ExecGuard ------------------------------
(***************************************************************************)
(* The exec interception pipeline of the Linux daemon: the eBPF tracepoint *)
(* that reports execve calls through a bounded ring buffer, the single     *)
(* main-loop thread that drains it (protector/src/main.rs, handle_event)   *)
(* and the agent's processes that run meanwhile.                           *)
(*                                                                         *)
(* The tracepoint never blocks the caller, so every step of the handler    *)
(* interleaves with every step of the processes it is judging.  Each read  *)
(* of /proc, each signal and each subprocess of the handler is a step of   *)
(* its own.                                                                *)
(***************************************************************************)
EXTENDS Integers, Sequences, FiniteSets

CONSTANTS
  Procs,       \* the agent's descendant processes (their pids)
  Nobody,      \* the handler is not working on any event
  Kinds,       \* the kinds of tool invocation the processes make
  RingCap,     \* events that fit in RING_BUF (256 KB in the code)
  MaxTries,    \* execve calls one invocation makes (PATH search)
  NewRules,    \* the configurations the web UI may save
  MaxEdits,    \* bound: changes made to the rules by the web UI
  MaxCrashes   \* bound: abrupt ends of the daemon

(***************************************************************************)
(* What an invocation is, by what the handler would find in its argv:      *)
(*   other    a binary that is not on the watch list                       *)
(*   plain    a watched tool doing nothing a rule objects to               *)
(*   warned   an inner validator answers Warn (sql "suspicious", docker)   *)
(*   blocked  an inner validator answers Block; argv need not match        *)
(*   gated    the same, of a tool matched through a required argument      *)
(*   fmask    reads a file under an fmask rule of the data policy          *)
(*   dmask    selects from a table under a mask rule of the data policy    *)
(*   secret   cat, head, ... of a file is_secret_path recognises           *)
(*   relay    curl or wget with a PROTECTOR_SECRET_ token in its arguments *)
(***************************************************************************)
ToolKinds == {"other", "plain", "warned", "blocked", "gated",
              "fmask", "dmask", "secret", "relay"}

RuleNames   == {"threat", "suspicious", "path_mask"}
RuleActions == {"pass", "alert", "block"}
RulesConfigs == [enabled : BOOLEAN, rule : [RuleNames -> RuleActions]]

ASSUME ExecGuardAssumption ==
  /\ Nobody \notin Procs
  /\ Kinds \subseteq ToolKinds
  /\ NewRules \subseteq RulesConfigs
  /\ RingCap \in Nat \ {0}
  /\ MaxTries \in Nat \ {0}
  /\ MaxEdits \in Nat
  /\ MaxCrashes \in Nat

VARIABLES
  \* the agent's processes
  kind,       \* what each of them is about to run
  phase,      \* where each is: idle, enter (inside execve), image, done, dead
  tries,      \* execve calls each may still make
  acted,      \* those whose tool has had its effect
  \* the kernel
  stopped,    \* processes under a group stop
  ring,       \* exec events not yet read
  \* the daemon's main loop
  pc,         \* its next step
  cur,        \* event.pid of the event being handled
  seen,       \* the kind of invocation the arguments it read present
  plan,       \* what follows the SIGKILL + SIGCONT pair
  res,        \* the ValidationResult in flight
  out,        \* the InspectOutcome to report
  rules,      \* rules.json as held in memory
  edits, crashes,
  \* what the outside has observed
  reports,    \* events recorded for `protector inspect`
  injected,   \* processes whose stdout received masked output, and of what
  relayed,    \* processes whose request was re-run with real credentials
  killed,     \* processes the daemon has sent SIGKILL to while alive
  early,      \* processes that had acted when they were last stopped
  orphans     \* processes left stopped by a daemon that crashed

agentVars   == <<kind, tries, acted>>
handlerVars == <<cur, seen, plan, res, out>>
boundVars   == <<edits, crashes>>
seenVars    == <<injected, relayed, killed, early, orphans>>
vars == <<kind, phase, tries, acted, stopped, ring, pc, cur, seen, plan, res,
          out, rules, edits, crashes, reports, injected, relayed, killed,
          early, orphans>>

Results  == {"none", "Allow", "Warn", "Block", "FsMasked", "DataMasked",
             "DataBlock", "Alert"}
Outcomes == {"Allowed", "Warned", "Alerted", "Blocked", "SECRET_MASKED",
             "SECRET_RELAYED", "SECRET_RELAY_DENIED"}
\* What is put in place of a tool's output.
Masks    == {"SECRET_MASKED", "FsMasked", "DataMasked"}
\* The outcomes that tell the observer the tool did not run.
Fatal    == {"Blocked", "SECRET_MASKED", "SECRET_RELAYED"}

\* Steps of the handler between its SIGSTOP and the signal that settles it.
Custody == {"mask", "open", "relay", "enabled", "inner", "capture", "apply",
            "settle", "kill", "cont", "write", "spawn", "child", "release"}
Steps   == Custody \cup {"select", "drain", "track", "cmdline", "stop",
                         "emit", "down"}

Phases   == {"idle", "enter", "image", "done", "dead"}
Alive(p) == phase[p] \in {"idle", "enter", "image"}

DefaultRules ==
  [enabled |-> TRUE,
   rule    |-> [r \in RuleNames |-> IF r = "threat" THEN "block" ELSE "alert"]]

Reports == [proc : Procs, out : Outcomes]

TypeOK ==
  /\ kind \in [Procs -> Kinds]
  /\ phase \in [Procs -> Phases]
  /\ tries \in [Procs -> 0..MaxTries]
  /\ acted \subseteq Procs
  /\ stopped \subseteq {p \in Procs : Alive(p)}
  /\ ring \in Seq(Procs) /\ Len(ring) <= RingCap
  /\ pc \in Steps
  /\ cur \in Procs \cup {Nobody}
  /\ cur = Nobody <=> pc \in {"select", "drain", "down"}
  /\ seen \in ToolKinds
  /\ plan \in {"emit", "write", "spawn"}
  /\ res \in Results
  /\ out \in Outcomes
  /\ rules \in RulesConfigs
  /\ edits \in 0..MaxEdits
  /\ crashes \in 0..MaxCrashes
  /\ reports \subseteq Reports
  /\ injected \subseteq Procs \X Masks /\ relayed \subseteq Procs
  /\ killed \subseteq Procs /\ early \subseteq Procs
  /\ orphans \subseteq Procs

Init ==
  /\ kind \in [Procs -> Kinds]
  /\ phase = [p \in Procs |-> "idle"]
  /\ tries = [p \in Procs |-> MaxTries]
  /\ acted = {}
  /\ stopped = {}
  /\ ring = <<>>
  /\ pc = "select"
  /\ cur = Nobody
  /\ seen = "plain"
  /\ plan = "emit"
  /\ res = "none"
  /\ out = "Allowed"
  /\ rules = DefaultRules
  /\ edits = 0
  /\ crashes = 0
  /\ reports = {}
  /\ injected = {} /\ relayed = {} /\ killed = {} /\ early = {}
  /\ orphans = {}

-----------------------------------------------------------------------------
(* The agent's processes and the kernel tracepoint.                        *)

OutputUnchecked(p) == ring' = Append(ring, p)

\* RING_BUF.output(...).ok(): an event that does not fit is dropped silently.
Output(p) ==
  ring' = IF Len(ring) < RingCap THEN Append(ring, p) ELSE ring

\* sys_enter_execve: the tracepoint fires whether or not the call succeeds,
\* for one filename after another while the caller searches PATH.
EnterExec(p) ==
  /\ phase[p] = "idle" /\ p \notin stopped /\ tries[p] > 0
  /\ phase' = [phase EXCEPT ![p] = "enter"]
  /\ tries' = [tries EXCEPT ![p] = @ - 1]
  /\ Output(p)
  /\ UNCHANGED <<kind, acted, stopped, pc, handlerVars, rules, boundVars,
                 reports, seenVars>>

\* The call returns: the new image is in place, or the file did not exist.  A
\* pending stop takes effect only on the way back to user mode, so a stopped
\* process still completes it.
FinishExec(p) ==
  /\ phase[p] = "enter"
  /\ \E r \in {"image", "idle"} :
       /\ r = "idle" => tries[p] > 0
       /\ phase' = [phase EXCEPT ![p] = r]
  /\ UNCHANGED <<agentVars, stopped, ring, pc, handlerVars, rules, boundVars,
                 reports, seenVars>>

\* The tool drops the table, prints the file, sends the request, ...
Act(p) ==
  /\ phase[p] = "image" /\ p \notin stopped /\ p \notin acted
  /\ acted' = acted \cup {p}
  /\ UNCHANGED <<kind, phase, tries, stopped, ring, pc, handlerVars, rules,
                 boundVars, reports, seenVars>>

\* ... and exits.
Exit(p) ==
  /\ phase[p] = "image" /\ p \notin stopped /\ p \in acted
  /\ phase' = [phase EXCEPT ![p] = "done"]
  /\ UNCHANGED <<agentVars, stopped, ring, pc, handlerVars, rules, boundVars,
                 reports, seenVars>>

\* The agent's own command timeout kills the process, stopped or not.
AgentKill(p) ==
  /\ Alive(p)
  /\ phase' = [phase EXCEPT ![p] = "dead"]
  /\ stopped' = stopped \ {p}
  /\ orphans' = orphans \ {p}
  /\ UNCHANGED <<agentVars, ring, pc, handlerVars, rules, boundVars, reports,
                 injected, relayed, killed, early>>

-----------------------------------------------------------------------------
(* Signals.  kill(2) on a pid that has exited does nothing (ESRCH).        *)

SendStop(p) == stopped' = IF Alive(p) THEN stopped \cup {p} ELSE stopped

SendCont(p) == stopped' = stopped \ {p}

SendKill(p) ==
  /\ phase' = [phase EXCEPT ![p] = IF Alive(p) THEN "dead" ELSE @]
  /\ stopped' = stopped \ {p}
  /\ killed' = IF Alive(p) THEN killed \cup {p} ELSE killed

-----------------------------------------------------------------------------
(* The main loop: tokio::select! between Ctrl-C and the ring buffer.       *)

\* handle_event returns; its locals are gone.
Return ==
  /\ pc' = "drain"
  /\ cur' = Nobody
  /\ seen' = "plain" /\ plan' = "emit" /\ res' = "none" /\ out' = "Allowed"

\* The ring buffer is readable: leave select! and drain it.
Wake ==
  /\ pc = "select" /\ ring # <<>>
  /\ pc' = "drain"
  /\ UNCHANGED <<agentVars, phase, stopped, ring, handlerVars, rules,
                 boundVars, reports, seenVars>>

\* rb.next() is None: clear_ready() and back to select!.
Drained ==
  /\ pc = "drain" /\ ring = <<>>
  /\ pc' = "select"
  /\ UNCHANGED <<agentVars, phase, stopped, ring, handlerVars, rules,
                 boundVars, reports, seenVars>>

\* Ctrl-C is seen in select! only, never while an event is being handled.
Shutdown ==
  /\ pc = "select"
  /\ pc' = "down"
  /\ UNCHANGED <<agentVars, phase, stopped, ring, handlerVars, rules,
                 boundVars, reports, seenVars>>

\* The binary's name is on the watch list.
looks_interesting(k) == k # "other"

\* An event of interest is handled, any other dropped.
NextEvent ==
  /\ pc = "drain" /\ ring # <<>>
  /\ ring' = Tail(ring)
  /\ IF looks_interesting(kind[Head(ring)])
       THEN pc' = "track" /\ cur' = Head(ring)
       ELSE UNCHANGED <<pc, cur>>
  /\ UNCHANGED <<agentVars, phase, stopped, seen, plan, res, out, rules,
                 boundVars, reports, seenVars>>

\* is_claude_descendant: a process that has exited is found only if its
\* parent is still in the tracker's cache.
Track ==
  /\ pc = "track"
  /\ \E found \in BOOLEAN :
       /\ Alive(cur) => found
       /\ IF found THEN pc' = "cmdline" /\ UNCHANGED handlerVars
                   ELSE Return
  /\ UNCHANGED <<agentVars, phase, stopped, ring, rules, boundVars, reports,
                 seenVars>>

\* read_cmdline and find_action.  An exited process has no cmdline.  Before
\* the new image is in place /proc shows the caller's arguments, and they are
\* judged instead of the tool's: a shell's command line may hold anything the
\* tool's rules look for, or nothing.
ReadCmdline ==
  /\ pc = "cmdline"
  /\ \/ /\ ~Alive(cur) \/ (phase[cur] # "image" /\ kind[cur] = "gated")
        /\ Return
     \/ /\ phase[cur] = "image"
        /\ seen' = kind[cur]
        /\ pc' = "stop" /\ UNCHANGED <<cur, plan, res, out>>
     \/ /\ phase[cur] \in {"idle", "enter"}
        /\ seen' \in ToolKinds \ {"other"}
        /\ pc' = "stop" /\ UNCHANGED <<cur, plan, res, out>>
  /\ UNCHANGED <<agentVars, phase, stopped, ring, rules, boundVars, reports,
                 seenVars>>

\* SIGSTOP, then the branch of handle_event the invocation belongs to.
Stop ==
  /\ pc = "stop"
  /\ SendStop(cur)
  /\ early' = IF cur \in acted THEN early \cup {cur} ELSE early
  /\ pc' = IF seen = "secret" THEN "mask"
           ELSE IF seen = "relay" THEN "relay" ELSE "enabled"
  /\ UNCHANGED <<agentVars, phase, ring, handlerVars, rules, boundVars,
                 reports, injected, relayed, killed, orphans>>

-----------------------------------------------------------------------------
(* Secret proxy, phase 1: mask the file, inject it, terminate the reader.  *)

\* mask_file under the secrets mutex.  On an error the command falls through to
\* its own validator: no rule names the path, or one blocks or masks it.
MaskFile ==
  /\ pc = "mask"
  /\ \/ pc' = "open" /\ plan' = "write" /\ UNCHANGED seen
     \/ /\ pc' = "enabled" /\ UNCHANGED plan
        /\ seen' \in {"plain", "blocked", "fmask"}
  /\ UNCHANGED <<agentVars, phase, stopped, ring, cur, res, out, rules,
                 boundVars, reports, seenVars>>

OpenStdoutNoKill ==
  /\ pc = "open"
  /\ \/ Alive(cur) /\ pc' = plan /\ UNCHANGED out
     \/ pc' = "release" /\ out' = "Allowed"
  /\ UNCHANGED <<agentVars, phase, stopped, ring, cur, seen, plan, res, rules,
                 boundVars, reports, seenVars>>

\* Open /proc/<pid>/fd/1 for writing before the kill.  It fails when the
\* process is gone and when its stdout is not a file or a pipe; the caller
\* then releases the process and reports it as allowed.
OpenStdout ==
  /\ pc = "open"
  /\ \/ Alive(cur) /\ pc' = "kill" /\ UNCHANGED out
     \/ pc' = "release" /\ out' = "Allowed"
  /\ UNCHANGED <<agentVars, phase, stopped, ring, cur, seen, plan, res, rules,
                 boundVars, reports, seenVars>>

Inject(p, how) == injected' = injected \cup {<<p, how>>}

\* write_all of the masked text into the pipe; EPIPE when the reader has gone.
InjectWrite ==
  /\ pc = "write"
  /\ \/ /\ Inject(cur, "SECRET_MASKED")
        /\ out' = "SECRET_MASKED" /\ pc' = "emit"
     \/ out' = "Allowed" /\ pc' = "release" /\ UNCHANGED injected
  /\ UNCHANGED <<agentVars, phase, stopped, ring, cur, seen, plan, res, rules,
                 boundVars, reports, relayed, killed, early, orphans>>

-----------------------------------------------------------------------------
(* Secret proxy, phase 2: re-run the request with the real credentials.    *)

RelayCheckNoRelease ==
  /\ pc = "relay"
  /\ \/ pc' = "open" /\ plan' = "spawn" /\ UNCHANGED out
     \/ pc' = "emit" /\ out' = "SECRET_RELAY_DENIED" /\ UNCHANGED plan
  /\ UNCHANGED <<agentVars, phase, stopped, ring, cur, seen, res, rules,
                 boundVars, reports, seenVars>>

\* relay_allowed: every host of the request is in the allowlist.
RelayCheck ==
  /\ pc = "relay"
  /\ \/ pc' = "open" /\ plan' = "spawn" /\ UNCHANGED out
     \/ pc' = "release" /\ out' = "SECRET_RELAY_DENIED" /\ UNCHANGED plan
  /\ UNCHANGED <<agentVars, phase, stopped, ring, cur, seen, res, rules,
                 boundVars, reports, seenVars>>

\* Command::new(cmd)...output(): the child starts, or fails to.
RelaySpawn ==
  /\ pc = "spawn"
  /\ \/ relayed' = relayed \cup {cur} /\ pc' = "child" /\ UNCHANGED out
     \/ out' = "Allowed" /\ pc' = "release" /\ UNCHANGED relayed
  /\ UNCHANGED <<agentVars, phase, stopped, ring, cur, seen, plan, res, rules,
                 boundVars, reports, injected, killed, early, orphans>>

\* The child has ended and its output is written to the pipe, or is not.
RelayDone ==
  /\ pc = "child"
  /\ \/ out' = "SECRET_RELAYED" /\ pc' = "emit"
     \/ out' = "Allowed" /\ pc' = "release"
  /\ UNCHANGED <<agentVars, phase, stopped, ring, cur, seen, plan, res, rules,
                 boundVars, reports, seenVars>>

-----------------------------------------------------------------------------
(* action.validate: ConfiguredValidator around the tool's own validator.   *)

\* A disabled tool is allowed before its validator is asked.
ReadEnabled ==
  /\ pc = "enabled"
  /\ IF rules.enabled
       THEN pc' = "inner" /\ UNCHANGED res
       ELSE pc' = "settle" /\ res' = "Allow"
  /\ UNCHANGED <<agentVars, phase, stopped, ring, cur, seen, plan, out, rules,
                 boundVars, reports, seenVars>>

\* What the tool's validator answers without running anything.
InnerResults(k) ==
  {r \in Results : \/ r = "Warn" /\ k = "warned"
                   \/ r = "Block" /\ k \in {"blocked", "gated", "fmask"}
                   \/ r = "DataBlock" /\ k = "dmask"
                   \/ r = "Allow" /\ k \in {"plain", "secret", "relay", "other"}}

\* The masking validators run the command themselves.
Inner ==
  /\ pc = "inner"
  /\ \/ res' \in InnerResults(seen) /\ pc' = "apply"
     \/ seen \in {"fmask", "dmask"} /\ pc' = "capture" /\ UNCHANGED res
  /\ UNCHANGED <<agentVars, phase, stopped, ring, cur, seen, plan, out, rules,
                 boundVars, reports, seenVars>>

\* substitute_output: the command has ended, run again with its columns or its
\* output masked, and what it printed goes into the stdout of the frozen
\* process, as a whole or, on an error, in part or not at all.
Capture ==
  /\ pc = "capture"
  /\ \E how \in {IF seen = "fmask" THEN "FsMasked" ELSE "DataMasked"} :
       \/ /\ res' = how
          /\ Alive(cur) /\ Inject(cur, how)
       \/ /\ res' = IF seen = "fmask" THEN "Block" ELSE "DataBlock"
          /\ \/ Alive(cur) /\ Inject(cur, how)
             \/ UNCHANGED injected
  /\ pc' = "apply"
  /\ UNCHANGED <<agentVars, phase, stopped, ring, cur, seen, plan, out, rules,
                 boundVars, reports, relayed, killed, early, orphans>>

\* rule_for_threat: data-policy results have no rule and are kept as they are.
RuleOf(r) == IF r = "Warn" THEN "suspicious"
             ELSE IF r = "FsMasked" THEN "path_mask" ELSE "threat"

ConfiguredAnyRule(r) ==
  IF r = "Allow" \/ rules.rule[RuleOf(r)] = "pass" THEN "Allow"
  ELSE IF rules.rule[RuleOf(r)] = "alert" THEN "Alert"
  ELSE IF r = "Warn" THEN "Warn" ELSE "Block"

\* apply_action: the verdict after the rule's action is read, a second time
\* that the configuration is locked.
Configured(r) ==
  IF r \in {"DataMasked", "DataBlock"} THEN "Block"
  ELSE IF r = "Allow" \/ rules.rule[RuleOf(r)] = "pass" THEN "Allow"
  ELSE IF rules.rule[RuleOf(r)] = "alert" THEN "Alert"
  ELSE IF r = "Warn" THEN "Warn" ELSE "Block"

ApplyAction ==
  /\ pc = "apply"
  /\ res' = Configured(res)
  /\ pc' = "settle"
  /\ UNCHANGED <<agentVars, phase, stopped, ring, cur, seen, plan, out, rules,
                 boundVars, reports, seenVars>>

\* The match on the ValidationResult: only Block takes the killing branch.
Settle ==
  /\ pc = "settle"
  /\ \/ /\ \/ res = "Allow" /\ out' = "Allowed"
           \/ res = "Warn"  /\ out' = "Warned"
           \/ res = "Alert" /\ out' = "Alerted"
        /\ pc' = "release" /\ UNCHANGED plan
     \/ /\ res = "Block" /\ out' = "Blocked"
        /\ pc' = "kill" /\ plan' = "emit"
  /\ UNCHANGED <<agentVars, phase, stopped, ring, cur, seen, res, rules,
                 boundVars, reports, seenVars>>

-----------------------------------------------------------------------------
(* The settling signals and the report.                                    *)

KillForgotten ==
  /\ pc = "kill"
  /\ pc' = "cont"
  /\ UNCHANGED <<agentVars, phase, stopped, ring, handlerVars, rules,
                 boundVars, reports, seenVars>>

\* SIGKILL first ...
Kill ==
  /\ pc = "kill"
  /\ SendKill(cur)
  /\ pc' = "cont"
  /\ UNCHANGED <<agentVars, ring, handlerVars, rules, boundVars, reports,
                 injected, relayed, early, orphans>>

\* ... then SIGCONT, so that the killed process is scheduled and dies.
Cont ==
  /\ pc = "cont"
  /\ SendCont(cur)
  /\ pc' = plan
  /\ UNCHANGED <<agentVars, phase, ring, handlerVars, rules, boundVars,
                 reports, seenVars>>

ReleaseUnreported ==
  /\ pc = "release"
  /\ SendCont(cur)
  /\ Return
  /\ UNCHANGED <<agentVars, phase, ring, rules, boundVars, reports, seenVars>>

\* SIGCONT alone: the tool goes on.
Release ==
  /\ pc = "release"
  /\ SendCont(cur)
  /\ pc' = "emit"
  /\ UNCHANGED <<agentVars, phase, ring, handlerVars, rules, boundVars,
                 reports, seenVars>>

\* emit_event, the last step of every path that stopped a process.
Emit ==
  /\ pc = "emit"
  /\ reports' = reports \cup {[proc |-> cur, out |-> out]}
  /\ Return
  /\ UNCHANGED <<agentVars, phase, stopped, ring, rules, boundVars, seenVars>>

-----------------------------------------------------------------------------
(* The environment of the daemon.                                          *)

\* set_rules of the web UI replaces the configuration under its write lock.
SetRules ==
  /\ edits < MaxEdits
  /\ edits' = edits + 1
  /\ rules' \in NewRules
  /\ UNCHANGED <<agentVars, phase, stopped, ring, pc, handlerVars, crashes,
                 reports, seenVars>>

\* The daemon is killed or panics, and is started again.  Its maps and its
\* memory go; a process it had stopped stays stopped.
Crash ==
  /\ crashes < MaxCrashes /\ pc # "down"
  /\ crashes' = crashes + 1
  /\ pc' = "select"
  /\ cur' = Nobody
  /\ seen' = "plain" /\ plan' = "emit" /\ res' = "none" /\ out' = "Allowed"
  /\ ring' = <<>>
  /\ reports' = {}
  /\ orphans' = stopped
  /\ UNCHANGED <<agentVars, phase, stopped, rules, edits, injected, relayed,
                 killed, early>>

-----------------------------------------------------------------------------
Agent == \E p \in Procs : \/ EnterExec(p) \/ FinishExec(p) \/ Act(p)
                          \/ Exit(p) \/ AgentKill(p)

Handler == \/ Wake \/ Drained \/ NextEvent \/ Track \/ ReadCmdline \/ Stop
           \/ MaskFile \/ OpenStdout \/ InjectWrite
           \/ RelayCheck \/ RelaySpawn \/ RelayDone
           \/ ReadEnabled \/ Inner \/ Capture \/ ApplyAction \/ Settle
           \/ Kill \/ Cont \/ Release \/ Emit

Next == Agent \/ Handler \/ Shutdown \/ SetRules \/ Crash

Spec == Init /\ [][Next]_vars

\* Where the handler waits, without a timeout, for what may never come: a mutex
\* held over a request, a FIFO that is nobody's, a full pipe, a command it runs,
\* the glob matcher.
Waits == {"mask", "open", "write", "spawn", "child", "inner", "capture"}

\* The main loop is a thread the scheduler runs.  Nothing is asked of what it
\* waits for, nor of the agent.
FairSpec == Spec /\ WF_vars(pc \notin Waits /\ Handler)
-----------------------------------------------------------------------------
(* What the pipeline promises.                                             *)

\* A process stands under the daemon's SIGSTOP only while it is the one being
\* handled, between the stop and the signal that settles it: no path out of
\* handle_event leaves a tool frozen, and no two tools are ever frozen at
\* once.  Only a crash of the daemon breaks custody, and is accounted apart.
FrozenInCustody ==
  /\ stopped \ orphans \subseteq {cur}
  /\ stopped \ orphans # {} => pc \in Custody

\* When the observer is told that a command was blocked, masked or relayed,
\* the process is gone, and if its tool had any effect that was before the
\* daemon stopped it: SIGKILL is pending before SIGCONT can let it run.
BlockedNeverActs ==
  \A r \in reports :
    r.out \in Fatal =>
      ~Alive(r.proc) /\ (r.proc \in acted => r.proc \in early)

\* The commands whose output the secret proxy or the data policy has replaced.
\* What fs_guard masks is not among them: the rule path_mask may let the command
\* run on (FmaskShowsOnlyMasked).
Substituted ==
  relayed \cup {p \in Procs : \E how \in {"SECRET_MASKED", "DataMasked"} :
                                <<p, how>> \in injected}

\* A command whose output was replaced (a masked secret file, a masked query, a
\* relayed request) does not also run by itself after the stop, so the request
\* is not sent twice and the real rows do not follow the masked, wholly or
\* partly delivered.
SubstitutedNeverActs == \A p \in Substituted : p \in acted => p \in early

\* An abrupt end of the daemon strands at most the one process it was
\* handling.
StrandedPerCrash == Cardinality(orphans) <= crashes

\* Every frozen process is resumed or killed in the end and, whatever the
\* verdict, reported to `inspect`, unless the daemon ends meanwhile or stands
\* for ever at one of its waits for this very process.
FrozenResolved == \A p \in Procs :
  \/ p \in stopped ~> \/ p \notin stopped /\ \E r \in reports : r.proc = p
                      \/ crashes > 0
  \/ <>[](cur = p /\ pc \in Waits)

-----------------------------------------------------------------------------
(* The pipeline implements the gate: a process under SIGSTOP is held, one  *)
(* that has ended is shut, and a report is a verdict told.                 *)

GateOf(p) == IF ~Alive(p) THEN "shut"
             ELSE IF p \in stopped THEN "held" ELSE "open"

VerdictOf(o) == IF o \in Fatal THEN "kill" ELSE "run"

Gate == INSTANCE ToolGate WITH
          gate <- [p \in Procs |-> GateOf(p)],
          told <- {[proc |-> r.proc, verdict |-> VerdictOf(r.out)] :
                     r \in reports}

\* Whatever the interleaving, a held tool has no effect, an ended one has none
\* either, and no report runs ahead of the signal it describes.
ImplementsGate == Gate!Spec

-----------------------------------------------------------------------------
(* What the documents say of it and the code does not do.                  *)

\* fs_guard.rs: under fmask the agent receives masked content.  The command
\* does not run on after its masked output was delivered.
FmaskShowsOnlyMasked ==
  \A p \in Procs : <<p, "FsMasked">> \in injected /\ p \in acted => p \in early
=============================================================================
