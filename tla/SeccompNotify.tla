----------------------------- MODULE SeccompNotify -----------------------------
(***************************************************************************)
(* The content substitution for reads inside the agent's own processes     *)
(* (protector/src/seccomp_notify.rs) and the launcher that puts an agent   *)
(* under it (protector/src/run.rs, `protector run`).  A launcher connects  *)
(* to the daemon, installs a seccomp filter on itself, sends the filter's  *)
(* listener over the socket and becomes the tool.  The daemon's accept     *)
(* thread receives the listeners one after the other and starts a          *)
(* supervisor thread for each, which answers the trapped opens of that     *)
(* tree one after the other.  Masking needs the mutex of the secret store, *)
(* which the main loop holds while it relays a request (secret_proxy.rs).  *)
(*                                                                         *)
(* The kernel's side is modelled as this code relies on it: a trapped open *)
(* waits until its notification is answered, is asked again when a signal  *)
(* interrupts it, and fails with ENOSYS once no process has the listener   *)
(* open.  After CONTINUE the kernel reads the path once more, and opens    *)
(* what it then finds.  recv_fd does not ask for close-on-exec, so the     *)
(* relay's child inherits the listeners the daemon holds when it starts.   *)
(***************************************************************************)
EXTENDS Integers, Sequences, FiniteSets

CONSTANTS
  Trees,          \* agent process trees started by a launcher
  Tasks,          \* their threads
  TreeOf(_),      \* the tree a task belongs to
  Nobody,         \* no task, no tree, no holder of the mutex
  Main,           \* the daemon's main loop
  Files,          \* the kinds of file that are opened
  Syscalls,       \* the system calls the filter traps
  JumpOffsets,    \* what build_filter may add to n - pos: 2 in the source
  MaxOpens,       \* bound: opens
  MaxRefusals,    \* bound: filters the kernel refuses to install
  MaxLosses,      \* bound: listeners not sent or not received
  MaxUnresolved,  \* bound: paths the supervisor cannot read
  MaxRewrites,    \* bound: paths rewritten after they were classified
  MaxSpawnFails,  \* bound: supervisor threads that cannot be started
  MaxFails,       \* bound: hard errors of a supervisor's listener
  MaxInterrupts,  \* bound: signals that interrupt a waiting task
  MaxRelays,      \* bound: requests the main loop relays
  MaxCrashes,     \* bound: ends of the daemon
  MaxTroubles     \* bound: all of the last nine together

\* plain: no rule names the path.  secret: a sensitive text file.  odd: a
\* sensitive path that is absent, over 4 MB or not text.
Wants     == {"plain", "secret", "odd"}

ASSUME SeccompNotifyAssumption ==
  /\ Nobody \notin Trees \cup Tasks \cup {Main} /\ Main \notin Trees
  /\ \A k \in Tasks : TreeOf(k) \in Trees
  /\ Files \subseteq Wants
  /\ Syscalls \in Nat \ {0} /\ JumpOffsets \subseteq {1, 2}
  /\ {MaxOpens, MaxRefusals, MaxLosses, MaxUnresolved, MaxRewrites,
      MaxSpawnFails, MaxFails, MaxInterrupts, MaxRelays, MaxCrashes,
      MaxTroubles} \subseteq Nat

VARIABLES
  \* the launchers and the agents
  launch,     \* each launcher's progress; "run" when it has become the tool
  filter,     \* the tree is under the seccomp filter
  wait,       \* each task: no open pending, asking, taken, told to continue,
              \* or dead
  want,       \* the file it opens
  \* the kernel
  at,         \* where the listener of each tree is held
  queue,      \* notifications of each tree not yet received, oldest first
  heirs,      \* listeners the relay's child inherited
  \* the daemon
  up,         \* it is running
  backlog,    \* connections not yet accepted
  accepted,   \* the connection recv_fd waits on
  step, cur,  \* each supervisor's next step, and the task it is answering
  vault,      \* holder of the mutex of the secret store
  child,      \* the relayed request is running
  \* what has been observed
  results,    \* answers: [task, want, got, trapped]
  opens, refusals, losses, unresolved, rewrites, spawnFails, fails,
  interrupts, relays, crashes

launchVars == <<launch, filter>>
taskVars   == <<wait, want, queue, results>>
heldVars   == <<at, heirs>>
acceptVars == <<backlog, accepted>>
superVars  == <<step, cur>>
vaultVars  == <<vault, child>>
passedVars == <<unresolved, rewrites>>
failVars   == <<spawnFails, fails>>
moreVars   == <<interrupts, relays, crashes>>
boundVars  == <<opens, refusals, losses, passedVars, failVars, moreVars>>
vars == <<launchVars, taskVars, heldVars, up, acceptVars, superVars,
          vaultVars, boundVars>>

Sensitive(w) == w # "plain"
Answers   == {"real", "masked", "ENOENT", "ENOSYS"}
Launches  == {"start", "connected", "filtered", "run", "dead"}
Holders   == {"none", "launcher", "socket", "super", "leaked", "heir",
              "closed", "lost"}
SuperSteps == {"none", "poll", "resolve", "lock", "mask", "inject"}
InDaemon(t) == at[t] \in {"super", "leaked"}
Waiting(k)  == wait[k] \in {"asking", "taken"}
TasksOf(T)  == {k \in Tasks : TreeOf(k) \in T}
RangeOf(s)  == {s[i] : i \in 1..Len(s)}
Result(k, got) == [task |-> k, want |-> want[k], got |-> got,
                   trapped |-> filter[TreeOf(k)]]

Troubles == refusals + losses + unresolved + rewrites + spawnFails + fails
            + interrupts + relays + crashes
More     == Troubles < MaxTroubles

TypeOK ==
  /\ launch \in [Trees -> Launches] /\ filter \in [Trees -> BOOLEAN]
  /\ wait \in [Tasks -> {"no", "asking", "taken", "continued", "dead"}]
  /\ want \in [Tasks -> Wants]
  /\ at \in [Trees -> Holders]
  /\ queue \in [Trees -> Seq(Tasks)]
  /\ heirs \subseteq Trees /\ (heirs # {} => child)
  /\ up \in BOOLEAN
  /\ backlog \in Seq(Trees) /\ accepted \in Trees \cup {Nobody}
  /\ step \in [Trees -> SuperSteps]
  /\ cur \in [Trees -> Tasks \cup {Nobody}]
  /\ \A t \in Trees : /\ cur[t] = Nobody <=> step[t] \in {"none", "poll"}
                      /\ step[t] # "none" <=> at[t] = "super"
                      /\ \A k \in TasksOf({t}) :
                           wait[k] = "asking" <=> k \in RangeOf(queue[t])
  /\ vault \in Trees \cup {Main, Nobody} /\ child \in BOOLEAN
  /\ results \subseteq [task : Tasks, want : Wants, got : Answers,
                        trapped : BOOLEAN]
  /\ opens \in 0..MaxOpens /\ refusals \in 0..MaxRefusals
  /\ losses \in 0..MaxLosses /\ unresolved \in 0..MaxUnresolved
  /\ rewrites \in 0..MaxRewrites
  /\ spawnFails \in 0..MaxSpawnFails /\ fails \in 0..MaxFails
  /\ interrupts \in 0..MaxInterrupts /\ relays \in 0..MaxRelays
  /\ crashes \in 0..MaxCrashes
  /\ Troubles <= MaxTroubles

Init ==
  /\ launch = [t \in Trees |-> "start"] /\ filter = [t \in Trees |-> FALSE]
  /\ wait = [k \in Tasks |-> "no"] /\ want = [k \in Tasks |-> "plain"]
  /\ at = [t \in Trees |-> "none"] /\ heirs = {}
  /\ queue = [t \in Trees |-> <<>>]
  /\ up = TRUE
  /\ backlog = <<>> /\ accepted = Nobody
  /\ step = [t \in Trees |-> "none"] /\ cur = [t \in Trees |-> Nobody]
  /\ vault = Nobody /\ child = FALSE
  /\ results = {}
  /\ opens = 0 /\ refusals = 0 /\ losses = 0 /\ unresolved = 0
  /\ rewrites = 0 /\ spawnFails = 0 /\ fails = 0 /\ interrupts = 0
  /\ relays = 0 /\ crashes = 0

\* The last descriptor of these listeners is closed: whoever waits gets ENOSYS.
Closed(T) ==
  LET K == {k \in TasksOf(T) : Waiting(k)}
  IN  /\ wait' = [k \in Tasks |-> IF k \in K THEN "no" ELSE wait[k]]
      /\ results' = results \cup {Result(k, "ENOSYS") : k \in K}
      /\ queue' = [t \in Trees |-> IF t \in T THEN <<>> ELSE queue[t]]
      /\ UNCHANGED want

-----------------------------------------------------------------------------
(* The launcher: run.rs, exec and install_and_handoff.                     *)

\* UnixStream::connect succeeds as soon as the connection is queued.  Without
\* a daemon the tool is launched unfiltered.
Connect(t) ==
  /\ launch[t] = "start"
  /\ IF up THEN /\ launch' = [launch EXCEPT ![t] = "connected"]
                /\ backlog' = Append(backlog, t)
           ELSE /\ launch' = [launch EXCEPT ![t] = "run"]
                /\ UNCHANGED backlog
  /\ UNCHANGED <<filter, taskVars, heldVars, up, accepted, superVars,
                 vaultVars, boundVars>>

\* build_filter: n + 3 instructions, the load, a comparison for each system
\* call, ALLOW and USER_NOTIF, with a jump from each comparison to the last.  A
\* jump counts from the next instruction, and the kernel takes no program with
\* one that leaves it, as all those with the offset of the source do.
Jump(pos, offset) == pos + 1 + (Syscalls + offset - pos)
Loads(offset)     == \A pos \in 1..Syscalls : Jump(pos, offset) < Syscalls + 3

\* prctl and seccomp: a bad program is refused, and either call may fail; then
\* the tool is launched without a filter.
Install(t) ==
  /\ launch[t] = "connected"
  /\ \E offset \in JumpOffsets :
       \/ /\ Loads(offset)
          /\ launch' = [launch EXCEPT ![t] = "filtered"]
          /\ filter' = [filter EXCEPT ![t] = TRUE]
          /\ at' = [at EXCEPT ![t] = "launcher"]
          /\ UNCHANGED refusals
       \/ /\ IF Loads(offset) THEN /\ refusals < MaxRefusals /\ More
                                   /\ refusals' = refusals + 1
                              ELSE UNCHANGED refusals
          /\ launch' = [launch EXCEPT ![t] = "run"]
          /\ UNCHANGED <<filter, at>>
  /\ UNCHANGED <<taskVars, heirs, up, acceptVars, superVars, vaultVars,
                 opens, losses, passedVars, failVars, moreVars>>

Connected(t) == t \in RangeOf(backlog) \cup {accepted}

\* send_fd, whose result nobody looks at: sendmsg fails when the connection is
\* gone, and may fail for want of memory or of descriptors in flight.  Both
\* descriptors are closed and the tool is executed.
Handoff(t) ==
  /\ launch[t] = "filtered"
  /\ launch' = [launch EXCEPT ![t] = "run"]
  /\ \/ /\ at' = [at EXCEPT ![t] = IF Connected(t) THEN "socket" ELSE "lost"]
        /\ UNCHANGED losses
     \/ /\ losses < MaxLosses /\ More
        /\ losses' = losses + 1
        /\ at' = [at EXCEPT ![t] = "lost"]
  /\ UNCHANGED <<filter, taskVars, heirs, up, acceptVars, superVars,
                 vaultVars, opens, refusals, passedVars, failVars, moreVars>>

\* The user interrupts the launcher.
GiveUp(t) ==
  /\ launch[t] \in {"connected", "filtered"}
  /\ launch' = [launch EXCEPT ![t] = "dead"]
  /\ at' = [at EXCEPT ![t] = IF @ = "launcher" THEN "closed" ELSE @]
  /\ wait' = [k \in Tasks |-> IF TreeOf(k) = t THEN "dead" ELSE wait[k]]
  /\ UNCHANGED <<filter, want, queue, results, heirs, up, acceptVars,
                 superVars, vaultVars, boundVars>>

-----------------------------------------------------------------------------
(* The agent's tasks and the kernel.                                       *)

Open(k, w) ==
  LET t == TreeOf(k)
  IN  /\ launch[t] = "run" /\ wait[k] = "no" /\ opens < MaxOpens
      /\ opens' = opens + 1
      /\ want' = [want EXCEPT ![k] = w]
      /\ IF filter[t] /\ at[t] \notin {"closed", "lost"}
           THEN /\ wait' = [wait EXCEPT ![k] = "asking"]
                /\ queue' = [queue EXCEPT ![t] = Append(@, k)]
                /\ UNCHANGED results
           ELSE /\ results' = results \cup
                     {[Result(k, IF filter[t] THEN "ENOSYS" ELSE "real")
                         EXCEPT !.want = w]}
                /\ UNCHANGED <<wait, queue>>
  /\ UNCHANGED <<launchVars, heldVars, up, acceptVars, superVars, vaultVars,
                 refusals, losses, passedVars, failVars, moreVars>>

\* After CONTINUE the kernel reads the path again.  Another thread may have
\* rewritten it since the supervisor did.
Continued(k) ==
  /\ wait[k] = "continued"
  /\ wait' = [wait EXCEPT ![k] = "no"]
  /\ \/ /\ results' = results \cup {Result(k, "real")}
        /\ UNCHANGED rewrites
     \/ /\ rewrites < MaxRewrites /\ More
        /\ rewrites' = rewrites + 1
        /\ \E w \in Files \ {want[k]} :
             results' = results \cup {[Result(k, "real") EXCEPT !.want = w]}
  /\ UNCHANGED <<launchVars, want, queue, heldVars, up, acceptVars, superVars,
                 vaultVars, opens, refusals, losses, unresolved, failVars,
                 moreVars>>

\* A task waits for one answer at a time, so it is in the queue at most once.
Without(q, k) ==
  IF k \notin RangeOf(q) THEN q
  ELSE LET i == CHOOSE j \in 1..Len(q) : q[j] = k
       IN  SubSeq(q, 1, i - 1) \o SubSeq(q, i + 1, Len(q))

\* A signal handler runs and the old notification is void.  The call is
\* restarted, and a new notification queued, or it fails with EINTR.
Interrupt(k) ==
  /\ Waiting(k) /\ interrupts < MaxInterrupts /\ More
  /\ interrupts' = interrupts + 1
  /\ LET rest == Without(queue[TreeOf(k)], k)
     IN  \/ /\ wait' = [wait EXCEPT ![k] = "asking"]
            /\ queue' = [queue EXCEPT ![TreeOf(k)] = Append(rest, k)]
         \/ /\ wait' = [wait EXCEPT ![k] = "no"]
            /\ queue' = [queue EXCEPT ![TreeOf(k)] = rest]
  /\ UNCHANGED <<launchVars, want, results, heldVars, up, acceptVars,
                 superVars, vaultVars, opens, refusals, losses, passedVars,
                 failVars, relays, crashes>>

\* A task ends, waiting or not.
Die(k) ==
  /\ launch[TreeOf(k)] = "run" /\ wait[k] # "dead"
  /\ wait' = [wait EXCEPT ![k] = "dead"]
  /\ queue' = [queue EXCEPT ![TreeOf(k)] = Without(@, k)]
  /\ UNCHANGED <<launchVars, want, results, heldVars, up, acceptVars,
                 superVars, vaultVars, boundVars>>

-----------------------------------------------------------------------------
(* The accept thread: start.                                               *)

Accept ==
  /\ up /\ accepted = Nobody /\ backlog # <<>>
  /\ accepted' = Head(backlog)
  /\ backlog' = Tail(backlog)
  /\ UNCHANGED <<launchVars, taskVars, heldVars, up, superVars, vaultVars,
                 boundVars>>

\* recv_fd returns the listener, and a supervisor is spawned; when that fails
\* (.ok()) the descriptor stays open and nobody serves it.
Receive ==
  /\ accepted # Nobody /\ at[accepted] = "socket"
  /\ accepted' = Nobody
  /\ \/ /\ at' = [at EXCEPT ![accepted] = "super"]
        /\ step' = [step EXCEPT ![accepted] = "poll"]
        /\ UNCHANGED spawnFails
     \/ /\ spawnFails < MaxSpawnFails /\ More
        /\ spawnFails' = spawnFails + 1
        /\ at' = [at EXCEPT ![accepted] = "leaked"]
        /\ UNCHANGED step
  /\ UNCHANGED <<launchVars, taskVars, heirs, up, backlog, cur, vaultVars,
                 opens, refusals, losses, passedVars, fails, moreVars>>

\* recv_fd returns nothing: the launcher closed its socket without sending.
ReceiveNothing ==
  /\ accepted # Nobody /\ at[accepted] # "socket"
  /\ launch[accepted] \in {"run", "dead"}
  /\ accepted' = Nobody
  /\ UNCHANGED <<launchVars, taskVars, heldVars, up, backlog, superVars,
                 vaultVars, boundVars>>

\* recvmsg fails, or what it returns carries no descriptor (the daemon has no
\* free one): the connection is dropped, and the listener that was in it.
ReceiveFails ==
  /\ accepted # Nobody /\ losses < MaxLosses /\ More
  /\ losses' = losses + 1
  /\ accepted' = Nobody
  /\ IF at[accepted] = "socket"
       THEN at' = [at EXCEPT ![accepted] = "lost"] /\ Closed({accepted})
       ELSE UNCHANGED <<at, taskVars>>
  /\ UNCHANGED <<launchVars, heirs, up, backlog, superVars, vaultVars, opens,
                 refusals, passedVars, failVars, moreVars>>

-----------------------------------------------------------------------------
(* A supervisor thread: supervise and handle.                              *)

\* The thread ends and closes its descriptor.
Finish(t) ==
  /\ step' = [step EXCEPT ![t] = "none"]
  /\ at' = [at EXCEPT ![t] = IF t \in heirs THEN "heir" ELSE "closed"]
  /\ IF t \in heirs THEN UNCHANGED taskVars ELSE Closed({t})

HupIgnored(t) == FALSE
\* Mutant: a poll that times out is taken for it.
HupIdle(t) == queue[t] = <<>>

\* POLLHUP: no task is under the filter any more.
Hup(t) == \A k \in TasksOf({t}) : wait[k] = "dead"

PollHup(t) ==
  /\ step[t] = "poll" /\ Hup(t)
  /\ Finish(t)
  /\ UNCHANGED <<launchVars, heirs, up, acceptVars, cur, vaultVars, boundVars>>

\* SECCOMP_IOCTL_NOTIF_RECV
Recv(t) ==
  /\ step[t] = "poll" /\ queue[t] # <<>>
  /\ cur' = [cur EXCEPT ![t] = Head(queue[t])]
  /\ wait' = [wait EXCEPT ![Head(queue[t])] = "taken"]
  /\ queue' = [queue EXCEPT ![t] = Tail(@)]
  /\ step' = [step EXCEPT ![t] = "resolve"]
  /\ UNCHANGED <<launchVars, want, results, heldVars, up, acceptVars,
                 vaultVars, boundVars>>

\* Any other error than EINTR and ENOENT ends the supervisor.
RecvFails(t) ==
  /\ step[t] = "poll" /\ fails < MaxFails /\ More
  /\ fails' = fails + 1
  /\ Finish(t)
  /\ UNCHANGED <<launchVars, heirs, up, acceptVars, cur, vaultVars, opens,
                 refusals, losses, passedVars, spawnFails, moreVars>>

\* The notification being handled is done with.
Done(t) ==
  /\ step' = [step EXCEPT ![t] = "poll"]
  /\ cur' = [cur EXCEPT ![t] = Nobody]

ReplyUnchecked(t, got) ==
  /\ wait' = [wait EXCEPT ![cur[t]] = IF @ # "dead" THEN "no" ELSE @]
  /\ results' = results \cup {Result(cur[t], got)}
  /\ queue' = [queue EXCEPT ![t] = Without(@, cur[t])]
  /\ Done(t)

\* The answer to the notification being handled.  It is void (ENOENT) when
\* the task has died or its call was restarted since.
Reply(t, got) ==
  /\ wait' = [wait EXCEPT ![cur[t]] = IF @ = "taken" THEN "no" ELSE @]
  /\ results' = IF wait[cur[t]] = "taken"
                  THEN results \cup {Result(cur[t], got)} ELSE results
  /\ UNCHANGED queue
  /\ Done(t)

\* respond_continue: the call goes on, and has no result yet.
Continue(t) ==
  /\ wait' = [wait EXCEPT ![cur[t]] = IF @ = "taken" THEN "continued" ELSE @]
  /\ UNCHANGED <<results, queue>>
  /\ Done(t)

\* resolve_target_path and the rules.  A path that cannot be read from the
\* task's memory is taken for one that is not sensitive.
Resolve(t) ==
  /\ step[t] = "resolve"
  /\ \/ /\ unresolved < MaxUnresolved /\ More
        /\ unresolved' = unresolved + 1
        /\ Continue(t)
     \/ /\ ~Sensitive(want[cur[t]])
        /\ Continue(t)
        /\ UNCHANGED unresolved
     \/ /\ want[cur[t]] = "odd"
        /\ Reply(t, "ENOENT")
        /\ UNCHANGED unresolved
     \/ /\ Sensitive(want[cur[t]])
        /\ step' = [step EXCEPT ![t] = "lock"]
        /\ UNCHANGED <<wait, queue, results, cur, unresolved>>
  /\ UNCHANGED <<launchVars, want, heldVars, up, acceptVars, vaultVars, opens,
                 refusals, losses, rewrites, failVars, moreVars>>

\* secrets.lock()
Lock(t) ==
  /\ step[t] = "lock" /\ vault = Nobody
  /\ vault' = t
  /\ step' = [step EXCEPT ![t] = "mask"]
  /\ UNCHANGED <<launchVars, taskVars, heldVars, up, acceptVars, cur, child,
                 boundVars>>

\* mask_file reads the file and fills the store; the lock is dropped.
Mask(t) ==
  /\ step[t] = "mask"
  /\ vault' = Nobody
  /\ IF want[cur[t]] = "secret"
       THEN /\ step' = [step EXCEPT ![t] = "inject"]
            /\ UNCHANGED <<wait, queue, results, cur>>
       ELSE Reply(t, "ENOENT")
  /\ UNCHANGED <<launchVars, want, heldVars, up, acceptVars, child,
                 boundVars>>

InjectContinues(t) ==
  /\ step[t] = "inject"
  /\ Reply(t, "masked") \/ Continue(t)
  /\ UNCHANGED <<launchVars, want, heldVars, up, acceptVars, vaultVars,
                 boundVars>>

InjectSilent(t) ==
  /\ step[t] = "inject"
  /\ \/ Reply(t, "masked")
     \/ Done(t) /\ UNCHANGED <<wait, queue, results>>
  /\ UNCHANGED <<launchVars, want, heldVars, up, acceptVars, vaultVars,
                 boundVars>>

\* inject_memfd, which completes the notification, or ENOENT when it fails.
Inject(t) ==
  /\ step[t] = "inject"
  /\ Reply(t, "masked") \/ Reply(t, "ENOENT")
  /\ UNCHANGED <<launchVars, want, heldVars, up, acceptVars, vaultVars,
                 boundVars>>

-----------------------------------------------------------------------------
(* The main loop and the daemon.                                           *)

\* relay_with_real_creds, called with the secret store locked: it starts the
\* request ...
RelayStart ==
  /\ up /\ vault = Nobody /\ ~child /\ relays < MaxRelays /\ More
  /\ relays' = relays + 1
  /\ vault' = Main /\ child' = TRUE
  /\ heirs' = {t \in Trees : InDaemon(t)}
  /\ UNCHANGED <<launchVars, taskVars, at, up, acceptVars, superVars, opens,
                 refusals, losses, passedVars, failVars, interrupts, crashes>>

\* ... and waits for its end, which may never come: the command has no limit.
RelayEnd ==
  /\ child
  /\ child' = FALSE /\ heirs' = {}
  /\ vault' = IF vault = Main THEN Nobody ELSE vault
  /\ at' = [t \in Trees |-> IF at[t] = "heir" THEN "closed" ELSE at[t]]
  /\ Closed({t \in Trees : at[t] = "heir"})
  /\ UNCHANGED <<launchVars, up, acceptVars, superVars, boundVars>>

CrashForgetsCur ==
  /\ up /\ crashes < MaxCrashes /\ More
  /\ crashes' = crashes + 1
  /\ up' = FALSE
  /\ backlog' = <<>> /\ accepted' = Nobody
  /\ step' = [t \in Trees |-> "none"] /\ UNCHANGED cur
  /\ vault' = Nobody
  /\ at' = [t \in Trees |-> IF at[t] = "socket" THEN "lost"
                            ELSE IF ~InDaemon(t) THEN at[t]
                            ELSE IF t \in heirs THEN "heir" ELSE "closed"]
  /\ Closed({t \in Trees : at'[t] \in {"lost", "closed"}})
  /\ UNCHANGED <<launchVars, heirs, child, opens, refusals, losses, passedVars,
                 failVars, interrupts, relays>>

\* The daemon ends: its threads, its mutex and its descriptors go, connections
\* are reset and the listeners still in them are closed.
Crash ==
  /\ up /\ crashes < MaxCrashes /\ More
  /\ crashes' = crashes + 1
  /\ up' = FALSE
  /\ backlog' = <<>> /\ accepted' = Nobody
  /\ step' = [t \in Trees |-> "none"] /\ cur' = [t \in Trees |-> Nobody]
  /\ vault' = Nobody
  /\ at' = [t \in Trees |-> IF at[t] = "socket" THEN "lost"
                            ELSE IF ~InDaemon(t) THEN at[t]
                            ELSE IF t \in heirs THEN "heir" ELSE "closed"]
  /\ Closed({t \in Trees : at'[t] \in {"lost", "closed"}})
  /\ UNCHANGED <<launchVars, heirs, child, opens, refusals, losses, passedVars,
                 failVars, interrupts, relays>>

Start ==
  /\ ~up
  /\ up' = TRUE
  /\ UNCHANGED <<launchVars, taskVars, heldVars, acceptVars, superVars,
                 vaultVars, boundVars>>

-----------------------------------------------------------------------------
Launcher(t)  == Connect(t) \/ Install(t) \/ Handoff(t)
Accepting    == Accept \/ Receive \/ ReceiveNothing
Supervise(t) == \/ PollHup(t) \/ Recv(t) \/ Resolve(t) \/ Lock(t) \/ Mask(t)
                \/ Inject(t)
Task(k)      == \/ Interrupt(k) \/ Die(k) \/ Continued(k)
                \/ \E w \in Files : Open(k, w)

Next ==
  \/ \E t \in Trees : Launcher(t) \/ GiveUp(t) \/ Supervise(t) \/ RecvFails(t)
  \/ \E k \in Tasks : Task(k)
  \/ Accepting \/ ReceiveFails \/ RelayStart \/ RelayEnd \/ Crash \/ Start

Spec == Init /\ [][Next]_vars

\* Steps that nothing bounds: the rules are matched by globs that may go on for
\* ever (GlobMatch), and the file is read whole, from whatever it is.
Waits == {"resolve", "mask"}

\* The daemon's threads are scheduled; the mutex is not denied for ever to one
\* that waits for it (there are finitely many that take it).  Nothing is asked
\* of the unbounded steps, of a relayed request or of the launchers.
FairSpec ==
  /\ Spec /\ WF_vars(Accepting)
  /\ \A t \in Trees : WF_vars(step[t] \notin Waits /\ Supervise(t))
-----------------------------------------------------------------------------
\* No task of a filtered tree gets the raw bytes of a sensitive file, whatever
\* fails while it is masked, is interrupted, or ends meanwhile; each path the
\* supervisor cannot read may let one through, and each path that is rewritten
\* between the supervisor's reading and the kernel's.  And an ordinary file is
\* opened as if there were no filter, unless the listener is gone: no answer
\* meant for another, sensitive open reaches it.
RawReads == {r \in results : r.trapped /\ Sensitive(r.want) /\ r.got = "real"}
RawOnlyUnresolved ==
  /\ Cardinality(RawReads) <= unresolved + rewrites
  /\ \A r \in results : r.want = "plain" => r.got \in {"real", "ENOSYS"}

\* ENOSYS comes only from an error of the daemon or its end, or from a listener
\* that was lost on its way, never from the supervisor's own life: one that
\* ends with its tree refuses nobody.
RefusedOnlyByFailure ==
  (\E r \in results : r.got = "ENOSYS") => crashes + fails + losses > 0

\* The accept thread waits for a launcher that does not go on.
Suspended == accepted # Nobody /\ launch[accepted] \in {"connected", "filtered"}

\* A supervisor's matching or reading goes on for ever.
Stuck == \E t \in Trees : <>[](step[t] \in Waits)

\* Every trapped open is answered, or its task ends, unless no thread could be
\* started to supervise the tree, or something that has no limit never ends: a
\* supervisor's matching or reading, a relayed request, a launcher between its
\* connection and its handoff.
Answered ==
  \A k \in Tasks : \/ []<>(~Waiting(k) \/ at[TreeOf(k)] = "leaked")
                   \/ Stuck \/ <>[]child \/ <>[]Suspended

\* A supervisor does not outlive its tree, unless it is stuck or kept from the
\* mutex.
SupervisorEnds ==
  \A t \in Trees :
    \/ []<>~(step[t] # "none" /\ \A k \in TasksOf({t}) : wait[k] = "dead")
    \/ Stuck \/ <>[]child
=============================================================================
