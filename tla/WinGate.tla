------------------------------- MODULE WinGate -------------------------------
(* Windows: a shim stands in for each watched tool and asks the daemon over a *)
(* named pipe what to do.  Translated from shim/src/main.rs and, of           *)
(* protector-win/src, main.rs, ipc.rs, tracker.rs, win_util.rs,               *)
(* secret_proxy.rs and the two validators that run the tool themselves.       *)
(*                                                                            *)
(* A shim has two threads: the main one waits ten seconds at most for the     *)
(* other, which talks to the daemon.  The daemon has a loop that accepts      *)
(* connections and a task per connection; a task that works on a request      *)
(* occupies one of the runtime's worker threads until it has a verdict, and   *)
(* it is a worker that learns of the events of the pipes.                     *)
EXTENDS Naturals, FiniteSets

CONSTANTS
  Shims,       \* invocations of watched tools, one shim process each
  KindsOf(_),  \* what an invocation may be
  Nobody,
  Workers,     \* worker threads of the daemon's runtime
  MaxTries,    \* attempts to open a busy pipe (20 in the code)
  PathActions, \* what rules.json may make of a path under a rule
  MaxTroubles  \* bound: errors of system calls and ends of the daemon

\* "stranger": the caller is no descendant of the agent; "plain": no rule, or
\* allowed; "denied": a request with tokens to a host not on the allowlist;
\* "relay": to one on it; "warned": warned or alerted; "gated": blocked, whatever
\* rules.json says of paths; "path": under a block rule of fs_guard, or under a
\* mask rule by a tool that prints nothing; "capture": under a mask rule by one
\* that prints; "query": a statement data_guard runs in its masked form;
\* "endless": a path on which the matcher of the rules does not end; "secret":
\* one that holds secrets; "elsewhere": a tool the daemon does not find on its
\* own PATH.
PathKinds == {"path", "capture", "secret"}
ToolKinds == PathKinds \cup {"stranger", "plain", "denied", "relay", "warned",
                             "gated", "query", "endless", "elsewhere"}

ASSUME WinGateAssumption ==
  /\ Nobody \notin Shims
  /\ \A s \in Shims : KindsOf(s) \subseteq ToolKinds
  /\ {Workers, MaxTries} \subseteq Nat \ {0} /\ MaxTroubles \in Nat
  /\ PathActions \subseteq {"block", "alert", "pass"}

VARIABLES
  kind,      \* of each shim: the invocation, or "none" before it
  main,      \* its main thread
  talker,    \* its thread that talks to the daemon
  tries,     \* its attempts to open the pipe
  result,    \* what the talker has sent over the channel between the two
  conn,      \* its connection
  sent,      \* a request waits in the connection
  answer,    \* an answer waits in it
  up,        \* the daemon runs
  free,      \* an instance of the pipe waits for a client
  pend,      \* the client connected to the instance the loop waits on
  loop,      \* the accept loop: waiting, waiting after an error of connect, or
             \* about to create again
  task,      \* of each shim: the task of its connection
  verdict,   \* what the task is going to answer
  vault,     \* who holds the mutex of the secret store
  known,     \* the shims in the tracker's snapshot
  fresh,     \* the snapshot is at most five seconds old
  runs,      \* how often the tool of each invocation has been run
  got,       \* what the agent got from it
  lapse,     \* what went wrong for it
  troubles

shimVars   == <<kind, main, talker, tries, result>>
pipeVars   == <<conn, sent, answer>>
loopVars   == <<up, free, pend, loop>>
taskVars   == <<task, verdict, vault>>
trackVars  == <<known, fresh>>
effectVars == <<runs, got, lapse>>
vars == <<shimVars, pipeVars, loopVars, taskVars, trackVars, effectVars,
          troubles>>

Answers == {"exec", "block", "output"}
Lapses  == {"late", "gone", "busy", "oversize", "unseen", "error", "waived"}
\* A task occupies its worker while it waits for the mutex of the store, runs a
\* tool, matches a path without end or sends to the SIEM.
Works   == {"vault", "relaywait", "relay", "capture", "match", "report"}

ShimTypeOK ==
  /\ kind \in [Shims -> ToolKinds \cup {"none"}]
  /\ main \in [Shims -> {"off", "wait", "tool", "done"}]
  /\ talker \in [Shims -> {"off", "open", "write", "read", "end"}]
  /\ tries \in [Shims -> 0..MaxTries - 1]
  /\ result \in [Shims -> Answers \cup {"none", "err"}]

PipeTypeOK ==
  /\ conn \in [Shims -> {"none", "open", "broken", "closed"}]
  /\ sent \in [Shims -> BOOLEAN]
  /\ answer \in [Shims -> Answers \cup {"none"}]

LoopTypeOK ==
  /\ up \in BOOLEAN /\ free \in BOOLEAN
  /\ pend \in Shims \cup {Nobody} /\ loop \in {"accept", "failing", "retry"}

TaskTypeOK ==
  /\ task \in [Shims -> Works \cup {"none", "line", "reply"}]
  /\ verdict \in [Shims -> Answers \cup {"none"}]
  /\ vault \in Shims \cup {Nobody}

EffectTypeOK ==
  /\ runs \in [Shims -> 0..2]
  /\ got \in [Shims -> {"nothing", "raw", "masked", "refused"}]
  /\ lapse \in [Shims -> SUBSET Lapses]

TypeOK ==
  /\ ShimTypeOK /\ PipeTypeOK /\ LoopTypeOK /\ TaskTypeOK /\ EffectTypeOK
  /\ known \subseteq Shims /\ fresh \in BOOLEAN
  /\ troubles \in 0..MaxTroubles

Init ==
  /\ kind = [s \in Shims |-> "none"] /\ main = [s \in Shims |-> "off"]
  /\ talker = [s \in Shims |-> "off"] /\ tries = [s \in Shims |-> 0]
  /\ result = [s \in Shims |-> "none"] /\ conn = [s \in Shims |-> "none"]
  /\ sent = [s \in Shims |-> FALSE] /\ answer = [s \in Shims |-> "none"]
  /\ up = TRUE /\ free = TRUE /\ pend = Nobody /\ loop = "accept"
  /\ task = [s \in Shims |-> "none"] /\ verdict = [s \in Shims |-> "none"]
  /\ vault = Nobody
  /\ known = {} /\ fresh = TRUE
  /\ runs = [s \in Shims |-> 0]
  /\ got = [s \in Shims |-> "nothing"] /\ lapse = [s \in Shims |-> {}]
  /\ troubles = 0

Set(f, s, v) == [f EXCEPT ![s] = v]
Lapsed(s, L) == lapse' = [lapse EXCEPT ![s] = @ \cup L]
Ran(s)       == runs' = [runs EXCEPT ![s] = @ + 1]
Trouble      == troubles < MaxTroubles /\ troubles' = troubles + 1
Live         == {s \in Shims : main[s] \in {"wait", "tool"}}

-----------------------------------------------------------------------------
(* The shim.                                                               *)

\* The agent runs a watched tool.
Invoke(s, k) ==
  /\ main[s] = "off"
  /\ kind' = Set(kind, s, k)
  /\ main' = Set(main, s, "wait") /\ talker' = Set(talker, s, "open")
  /\ UNCHANGED <<tries, result, pipeVars, loopVars, taskVars, trackVars,
                 effectVars, troubles>>

Tell(s, r) == result' = Set(result, s, r) /\ talker' = Set(talker, s, "end")

\* Mutant: the attempts are not bounded.
NeverSpent(s) == FALSE

\* The next failure is that of the last attempt.
Spent(s) == tries[s] + 1 = MaxTries

\* The pipe is opened if an instance is free; if all are busy the talker sleeps
\* and tries again; without a daemon, or after the last attempt, it gives up.
Open(s) ==
  /\ talker[s] = "open"
  /\ \/ /\ up /\ free
        /\ free' = FALSE /\ pend' = s
        /\ conn' = Set(conn, s, "open") /\ talker' = Set(talker, s, "write")
        /\ tries' = Set(tries, s, 0) /\ UNCHANGED <<result, lapse>>
     \/ /\ up /\ ~free /\ ~Spent(s)
        /\ tries' = Set(tries, s, tries[s] + 1)
        /\ UNCHANGED <<result, talker, lapse, free, pend, conn>>
     \/ /\ up /\ ~free /\ Spent(s)
        /\ tries' = Set(tries, s, 0) /\ Tell(s, "err") /\ Lapsed(s, {"busy"})
        /\ UNCHANGED <<free, pend, conn>>
     \/ /\ ~up
        /\ Tell(s, "err") /\ Lapsed(s, {"gone"})
        /\ UNCHANGED <<tries, free, pend, conn>>
  /\ UNCHANGED <<kind, main, sent, answer, up, loop, taskVars, trackVars,
                 runs, got, troubles>>

Write(s) ==
  /\ talker[s] = "write"
  /\ IF conn[s] = "open"
       THEN /\ sent' = Set(sent, s, TRUE) /\ talker' = Set(talker, s, "read")
            /\ UNCHANGED <<result, lapse>>
       ELSE Tell(s, "err") /\ Lapsed(s, {"gone"}) /\ UNCHANGED sent
  /\ UNCHANGED <<kind, main, tries, conn, answer, loopVars, taskVars,
                 trackVars, runs, got, troubles>>

\* One line is read; more than 16 MiB of it, or the end of the pipe before it,
\* is an error.
Read(s) ==
  /\ talker[s] = "read"
  /\ \/ answer[s] # "none" /\ Tell(s, answer[s]) /\ UNCHANGED <<lapse, troubles>>
     \/ answer[s] = "output" /\ Trouble /\ Tell(s, "err") /\ Lapsed(s, {"oversize"})
     \/ /\ answer[s] = "none" /\ conn[s] = "broken"
        /\ Tell(s, "err") /\ Lapsed(s, {"gone"}) /\ UNCHANGED troubles
  /\ UNCHANGED <<kind, main, tries, pipeVars, loopVars, taskVars, trackVars,
                 runs, got>>

\* The end of the process ends its talker and closes its end of the pipe.
Exit(s) ==
  /\ main' = Set(main, s, "done") /\ talker' = Set(talker, s, "end")
  /\ tries' = Set(tries, s, 0) /\ result' = Set(result, s, "none")
  /\ answer' = Set(answer, s, "none")
  /\ conn' = Set(conn, s, IF conn[s] = "none" THEN "none" ELSE "closed")

\* exec_real: the main thread waits for the tool, and the talker goes on; a
\* tool that is not on the shim's PATH either is not run.
ExecReal(s) ==
  \/ /\ main' = Set(main, s, "tool") /\ Ran(s) /\ got' = Set(got, s, "raw")
     /\ UNCHANGED <<talker, tries, result, answer, conn>>
  \/ kind[s] = "elsewhere" /\ Exit(s) /\ UNCHANGED <<runs, got>>

\* Mutant: a block is not told apart from a failure.
ReceiveAny(s) ==
  /\ main[s] = "wait" /\ result[s] # "none" /\ ExecReal(s)
  /\ UNCHANGED <<kind, sent, loopVars, taskVars, trackVars, lapse, troubles>>

\* The main thread takes the outcome: a block or an output ends the shim, and
\* anything else runs the tool.
Receive(s) ==
  /\ main[s] = "wait" /\ result[s] # "none"
  /\ CASE result[s] = "block"  -> /\ Exit(s) /\ got' = Set(got, s, "refused")
                                  /\ UNCHANGED runs
       [] result[s] = "output" -> /\ Exit(s) /\ got' = Set(got, s, "masked")
                                  /\ UNCHANGED runs
       [] OTHER                -> ExecReal(s)
  /\ UNCHANGED <<kind, sent, loopVars, taskVars, trackVars, lapse, troubles>>

\* Mutant: recv without a deadline.
NoTimeout(s) == FALSE /\ UNCHANGED vars

\* Ten seconds have passed: the tool is run.
Timeout(s) ==
  /\ main[s] = "wait" /\ result[s] = "none"
  /\ ExecReal(s) /\ Lapsed(s, {"late"})
  /\ UNCHANGED <<kind, sent, loopVars, taskVars, trackVars, troubles>>

ToolEnd(s) ==
  /\ main[s] = "tool" /\ Exit(s)
  /\ UNCHANGED <<kind, sent, loopVars, taskVars, trackVars, effectVars,
                 troubles>>

-----------------------------------------------------------------------------
(* The accept loop of async_main.                                          *)

Busy == {s \in Shims : task[s] \in Works}

\* Mutant: the instance is created again only when the client has been handled.
ServedLate == /\ UNCHANGED free /\ loop' = "accept" /\ pend' = Nobody
              /\ task' = Set(task, pend, "line")

\* connect() has returned: the next instance is created before the task that
\* serves this one is spawned.
Served == /\ free' = TRUE /\ loop' = "accept" /\ pend' = Nobody
          /\ task' = Set(task, pend, "line")

Accept ==
  /\ loop # "retry" /\ pend # Nobody /\ Cardinality(Busy) < Workers
  /\ \/ Served /\ UNCHANGED troubles
     \/ Trouble /\ loop' = "retry" /\ UNCHANGED <<free, pend, task>>
  /\ UNCHANGED <<shimVars, pipeVars, up, verdict, vault, trackVars,
                 effectVars>>

\* connect() answers with an error and is called again, of the same instance.
ConnectFails ==
  /\ up /\ loop = "accept" /\ Trouble /\ loop' = "failing"
  /\ UNCHANGED <<shimVars, pipeVars, up, free, pend, taskVars, trackVars,
                 effectVars>>

\* The daemon is gone, for whatever reason: its tasks with it, not the tools it
\* has started.
Gone ==
  /\ up' = FALSE /\ free' = FALSE /\ pend' = Nobody /\ loop' = "accept"
  /\ task' = [s \in Shims |-> "none"] /\ verdict' = [s \in Shims |-> "none"]
  /\ vault' = Nobody
  /\ sent' = [s \in Shims |-> FALSE]
  /\ conn' = [s \in Shims |-> IF conn[s] = "open" THEN "broken" ELSE conn[s]]

\* After 50 ms it is tried once more; a second failure ends the daemon.
AcceptAgain ==
  /\ loop = "retry"
  /\ \/ Served /\ UNCHANGED <<conn, sent, up, verdict, vault>>
     \/ Gone
  /\ UNCHANGED <<shimVars, answer, trackVars, effectVars, troubles>>

Crash ==
  /\ up /\ Trouble /\ Gone
  /\ UNCHANGED <<shimVars, answer, trackVars, effectVars>>

\* A new daemon takes a snapshot as it starts.
Start ==
  /\ ~up
  /\ up' = TRUE /\ free' = TRUE
  /\ known' = Live /\ fresh' = TRUE
  /\ UNCHANGED <<shimVars, pipeVars, pend, loop, taskVars, effectVars,
                 troubles>>

-----------------------------------------------------------------------------
(* handle_client and process_request.                                      *)

\* The client left without a request, or sent what is none: the connection is
\* dropped.
Drop(s) ==
  /\ task[s] = "line"
  /\ \/ ~sent[s] /\ conn[s] = "closed" /\ UNCHANGED troubles
     \/ sent[s] /\ Trouble
  /\ task' = Set(task, s, "none") /\ sent' = Set(sent, s, FALSE)
  /\ conn' = Set(conn, s, IF conn[s] = "open" THEN "broken" ELSE conn[s])
  /\ UNCHANGED <<shimVars, answer, loopVars, verdict, vault, trackVars,
                 effectVars>>

\* is_claude_descendant: a snapshot older than five seconds is taken again, and
\* a process that is not in the snapshot has no parent to follow.
Snapshot    == IF fresh THEN known ELSE Live
Descends(s) == s \in Snapshot /\ kind[s] # "stranger"

Answering(s, v) == task' = Set(task, s, "reply") /\ verdict' = Set(verdict, s, v)
Reporting(s, v) == task' = Set(task, s, "report") /\ verdict' = Set(verdict, s, v)
Waiting(s, w)   == task' = Set(task, s, w) /\ UNCHANGED verdict

\* resolve_real_tool finds a file of that name on the daemon's PATH, its own
\* directories and those of the shims left out.
HasRealTool(s) == kind[s] # "elsewhere"

\* A tool that prints files is given the path of one that holds secrets.
ReadsSecret(s) == kind[s] = "secret"

\* relay_allowed: all hosts that extract_hosts finds in a request with tokens
\* are on the allowlist (SecretVault: which those are).
RelayAllowed(s) == kind[s] = "relay"

\* apply_action: what rules.json makes of a block for the sake of a path.
PathBlock(s, L) ==
  \/ "block" \in PathActions /\ Reporting(s, "block") /\ Lapsed(s, L)
  \/ "alert" \in PathActions /\ Reporting(s, "exec")
       /\ Lapsed(s, L \cup {"waived"})
  \/ "pass" \in PathActions /\ Answering(s, "exec")
       /\ Lapsed(s, L \cup {"waived"})

\* The validators of a request of kind k: a tool whose output is wanted is run
\* here.
Validated(s, k, L) ==
  \/ k = "plain"   /\ Answering(s, "exec")   /\ Lapsed(s, L) /\ UNCHANGED runs
  \/ k = "warned"  /\ Reporting(s, "exec")   /\ Lapsed(s, L) /\ UNCHANGED runs
  \/ k = "gated"   /\ Reporting(s, "block")  /\ Lapsed(s, L) /\ UNCHANGED runs
  \/ k = "path"    /\ PathBlock(s, L)        /\ UNCHANGED runs
  \/ k = "endless" /\ Waiting(s, "match")    /\ Lapsed(s, L) /\ UNCHANGED runs
  \/ k \in {"capture", "query"}
       /\ Waiting(s, "capture") /\ Lapsed(s, L) /\ Ran(s)

\* The tool whose output a validator wants cannot be started: a statement is
\* blocked, and for a path it is as if its rule said so.
CaptureFailed(s, k, L) ==
  /\ \/ k = "query"   /\ Reporting(s, "block") /\ Lapsed(s, L)
     \/ k = "capture" /\ PathBlock(s, L)
  /\ UNCHANGED runs

\* What phase 1, phase 2 and the validators make of a request of the agent.
Judge(s) ==
  \/ /\ kind[s] = "denied" \/ ~HasRealTool(s)
     /\ Answering(s, "exec") /\ UNCHANGED <<lapse, runs>>
  \/ ReadsSecret(s)  /\ Waiting(s, "vault")     /\ UNCHANGED <<lapse, runs>>
  \/ RelayAllowed(s) /\ Waiting(s, "relaywait") /\ UNCHANGED <<lapse, runs>>
  \/ Validated(s, kind[s], {})

\* A worker takes the request up: the caller's pid, its descent, then the
\* verdict.
Process(s) ==
  /\ task[s] = "line" /\ sent[s] /\ Cardinality(Busy) < Workers
  /\ sent' = Set(sent, s, FALSE)
  /\ \/ /\ Trouble /\ Answering(s, "exec") /\ Lapsed(s, {"error"})
        /\ UNCHANGED <<known, fresh, runs>>
     \/ /\ known' = Snapshot /\ fresh' = TRUE /\ ~Descends(s)
        /\ Answering(s, "exec")
        /\ lapse' = IF kind[s] = "stranger" THEN lapse
                    ELSE [lapse EXCEPT ![s] = @ \cup {"unseen"}]
        /\ UNCHANGED <<runs, troubles>>
     \/ /\ known' = Snapshot /\ fresh' = TRUE /\ Descends(s)
        /\ \/ Judge(s) /\ UNCHANGED troubles
           \/ Trouble /\ CaptureFailed(s, kind[s], {})
  /\ UNCHANGED <<shimVars, conn, answer, loopVars, vault, got>>

CaptureEnd(s) ==
  /\ task[s] = "capture" /\ Reporting(s, "output")
  /\ UNCHANGED <<shimVars, pipeVars, loopVars, vault, trackVars, effectVars,
                 troubles>>

\* Phase 1: the file is masked under the store's mutex; one that cannot be read
\* falls through to the validators, whose rules may name its path as well.
Mask(s) ==
  /\ task[s] = "vault" /\ vault = Nobody
  /\ \/ Answering(s, "output") /\ UNCHANGED <<lapse, runs, troubles>>
     \/ /\ Trouble
        /\ \E k \in {"plain", "path", "capture", "endless"} :
             Validated(s, k, {"error"}) \/ CaptureFailed(s, k, {"error"})
  /\ UNCHANGED <<shimVars, pipeVars, loopVars, vault, trackVars, got>>

\* Phase 2: the request is sent with the tokens the store knows replaced, and
\* the mutex is held until it has ended; one that does not start is left to
\* the shim.
Relay(s) ==
  /\ task[s] = "relaywait" /\ vault = Nobody
  /\ \/ /\ vault' = s /\ Ran(s) /\ Waiting(s, "relay") /\ UNCHANGED troubles
     \/ /\ Trouble /\ Answering(s, "exec") /\ UNCHANGED <<vault, runs>>
  /\ UNCHANGED <<shimVars, pipeVars, loopVars, trackVars, got, lapse>>

RelayEnd(s) ==
  /\ task[s] = "relay"
  /\ vault' = Nobody /\ Answering(s, "output")
  /\ UNCHANGED <<shimVars, pipeVars, loopVars, trackVars, effectVars,
                 troubles>>

\* The report has gone to the SIEM, or its connection has timed out.
Report(s) ==
  /\ task[s] = "report" /\ Answering(s, verdict[s])
  /\ UNCHANGED <<shimVars, pipeVars, loopVars, vault, trackVars, effectVars,
                 troubles>>

\* The answer is written, to whoever is still there, and the connection closed.
Reply(s) ==
  /\ task[s] = "reply"
  /\ answer' = IF conn[s] = "open" THEN Set(answer, s, verdict[s]) ELSE answer
  /\ task' = Set(task, s, "none") /\ verdict' = Set(verdict, s, "none")
  /\ UNCHANGED <<shimVars, conn, sent, loopVars, vault, trackVars,
                 effectVars, troubles>>

Elapse ==
  /\ fresh /\ fresh' = FALSE
  /\ UNCHANGED <<shimVars, pipeVars, loopVars, taskVars, known, effectVars,
                 troubles>>

-----------------------------------------------------------------------------
Talk(s)   == Open(s) \/ Write(s) \/ Read(s)
Await(s)  == Receive(s) \/ Timeout(s)
Handle(s) == Mask(s) \/ Relay(s) \/ Report(s) \/ Reply(s)
Listen    == Accept \/ AcceptAgain

Next ==
  \/ \E s \in Shims : \/ \E k \in KindsOf(s) : Invoke(s, k)
                      \/ Talk(s) \/ Await(s) \/ ToolEnd(s)
                      \/ Drop(s) \/ Process(s) \/ Handle(s)
                      \/ CaptureEnd(s) \/ RelayEnd(s)
  \/ Listen \/ ConnectFails \/ Crash \/ Start \/ Elapse

Spec == Init /\ [][Next]_vars

\* The system schedules both threads of a shim, a worker that has something to
\* do, and the loop when no worker is occupied (the runtime does not promise
\* that the workers left over look after the pipes) and connect does not go on
\* failing.  Nothing says that a tool, whoever runs it, or a match ever ends.
FairSpec ==
  /\ Spec /\ WF_vars(Busy = {} /\ loop # "failing" /\ Listen)
  /\ \A s \in Shims : /\ WF_vars(Talk(s)) /\ WF_vars(Await(s))
                      /\ WF_vars(Handle(s))

-----------------------------------------------------------------------------
Guarded == PathKinds \cup {"gated", "query"}

\* The tool of a guarded invocation is run by its shim only if the shim gave up
\* on the daemon (the deadline, a lost or oversized answer, a busy pipe), the
\* daemon could not tell the caller or read the file, or rules.json has waived
\* the block, which it can for a path and for nothing else; a tool the shim
\* reports as blocked has not been run by anyone; and one is run twice only if
\* the daemon ran it and its answer came late, was lost or was too large.
RunsAsJudged ==
  \A s \in Shims :
    /\ kind[s] \in Guarded /\ got[s] = "raw" => lapse[s] # {}
    /\ "waived" \in lapse[s] => kind[s] \in PathKinds /\ PathActions # {"block"}
    /\ got[s] = "refused" => runs[s] = 0
    /\ runs[s] = 2 => lapse[s] \cap {"late", "gone", "oversize"} # {}

\* shim/src/main.rs: "a hung or crashed daemon can never freeze the wrapped
\* tool indefinitely".
ShimEnds == \A s \in Shims : main[s] = "wait" ~> main[s] \in {"tool", "done"}

\* protector-win/src/main.rs: "no unserved window".  A busy pipe is free again,
\* unless a tool the daemon runs in a worker or a match does not end or connect
\* goes on failing.
ListenerReturns ==
  up /\ ~free ~> \/ free \/ ~up \/ loop = "failing"
                 \/ \E s \in Shims : task[s] \in {"capture", "relay", "match"}
=============================================================================
