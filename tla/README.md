# A TLA+ verification of Protector

Protector is a daemon that runs beside a coding agent and supervises what the
agent's processes do. This directory holds TLA+ modules translated from its
source (`protector/src`, `protector-ebpf/src` for Linux; `protector-win/src`,
`shim/src` for Windows), TLC configurations that check them on small instances,
and proofs, checked by TLAPS, that the central ones hold for every instance.
`PROJECT.json` says, for each definition, which lines of the source it stands
for.

## The system

| Part | State | Operations | Interacts with |
|---|---|---|---|
| eBPF tracepoint (`protector-ebpf`) | ring buffer of 256 KB | one event per `execve`, dropped when the ring is full | main loop |
| Main loop (`main.rs`) | the event in hand, nothing across events | drain the ring, recognise, SIGSTOP, mask / relay / validate, kill or resume, report | everything below |
| Secret proxy (`secret_proxy.rs`) | token store under a mutex | mask a file, inject into a frozen process, re-run a request with real values | main loop, seccomp supervisors, web UI |
| Rules (`tool_db.rs`, `rules_config.rs`) | `rules.json` under an RwLock | wrap a validator's verdict | main loop, web UI |
| Validators (`validators/`) | none | judge an argv; two of them run the command and inject masked output | main loop |
| Process tracker (`tracker.rs`) | agent roots, ppid cache | refresh every 5 s, walk parents | main loop, read-guard, firewall |
| Read-guard (`read_guard.rs`) | fanotify group, marked paths, recent reports | mark every 10 s, answer each permission event | kernel, tracker, reports |
| Seccomp substitution (`seccomp_notify.rs`) | one listener and thread per agent tree | receive listeners, answer each trapped open | launcher, token store, reports |
| Launcher (`run.rs`) | none | connect, filter, hand over, execute | seccomp accept thread |
| Event bus (`event_bus.rs`) | history (2000), broadcast channel (1024) | record, send, replay, receive | all reporting threads, `protector inspect` |
| Alerts (`alert_store.rs`, `web/index.html`) | 500 alerts; the page's cursor and list | push, poll, load, clear | reporting threads, browser |
| Web UI (`web_ui.rs`, `auth.rs`) | sessions in memory | read and replace every configuration | rules, firewall, SIEM, budget, secrets |
| Firewall (`network_firewall.rs`) | iptables chain, cgroup, ipset | apply, refresh the allowlist every 30 s, track pids | tracker, web UI |
| Token budget (`budget.rs`, `token_proxy.rs`) | usage of the window, history | check, record, reset | HTTP clients, web UI |
| Traffic redirect (`traffic_redirect.rs`) | cgroup | append its rules once, add new agents every 5 s | tracker |
| Windows shim (`shim`) | none | ask the daemon, run the tool itself after 10 s | named pipe |
| Windows daemon (`protector-win`) | token store, snapshot of the processes | accept, judge, mask, relay, answer | shims |
| SIEM, injector, setup, banner | none to speak of | see "Left out" | |

What is hard about it: the tracepoint does not block, so the daemon judges
processes that run meanwhile; one thread handles all events and runs
subprocesses while a tool is frozen; the kernel makes other processes wait for
two more of its threads; three subsystems share one mutex; configuration is
edited while it is used; the daemon may end at any step and leaves signals,
marks and filters behind. What makes each part correct is stated by the
properties below; `PROJECT.json` lists the hazards at their lines.

## The modules

Each module defines `Init`, `Next` and `Spec`, and all but the abstract
`ToolGate` define `TypeOK`. In `AlertPanel` and `SecretVault` these names have a
prefix (`PanelSpec`, `VaultSpec`), because the proofs about them share a module
with those about `Firewall` and `ReadGuard`.

### `ExecGuard`, `ToolGate` — the exec pipeline

`ExecGuard` follows `handle_event` step by step. `pc` is the place in the
function; `cur`, `seen`, `plan`, `res`, `out` are its locals (`event.pid`, the
argv as read, what follows SIGKILL + SIGCONT, the `ValidationResult`, the
`InspectOutcome`); `ring` is `RING_BUF`; `rules` is `RulesConfig`. A process
goes through `idle`, `enter` (inside `execve`), `image`, `done` or `dead`. An
invocation is abstracted to its *kind*: what the handler would find in its
argv. Reading `/proc/<pid>/cmdline` before the image is in place shows the
caller's arguments, so `seen` may differ from the kind. A process searching
`PATH` enters `execve` more than once and raises an event each time.

Every failure the code handles is a disjunct: the file cannot be masked, stdout
cannot be opened, the write fails, the relay's child cannot be started or its
output delivered. A file that cannot be masked is left to the validators
(`main.rs:500`), where no rule may name it, or one that blocks it, or one of fmask
that runs the command and injects its output. `Crash` is an abrupt end and a
restart of the daemon, at any step; `Shutdown` is Ctrl-C, seen in `select!` only.

`ToolGate` is what the pipeline promises, apart from how: a tool's gate is
open, held or shut; a held tool has no effect; a report of a kill comes after
the gate was shut. `ImplementsGate` states that `ExecGuard` implements it under
`GateOf` (a stopped process is held, an ended one shut) and `VerdictOf`.

The run `ExecGuard` shows custody (a frozen process is the one in hand, between
its stop and the settling signal), that a blocked, masked or relayed command has
no effect after its stop, that `ToolGate` is implemented, and `FrozenResolved`:
every frozen process is resumed or killed and, whatever the verdict, reported,
unless the daemon ends meanwhile (what it leaves stopped stays so: `main.rs:460`)
or stands for ever at one of its waits for this very process. `ExecGuard_fmask` is
a counterexample to what a comment says (see Findings).

Bounds. One process of each kind, whose two `execve` calls (a search along
`PATH`) give an event for a process already judged; a ring of one, which fills
and drops; one edit of the rules, which falls between any two reads of them; a
crash at any step. What two processes add, that one waits in the ring while the
other is handled, rests on the proofs, which hold for any number: the handler's
state is per event. `StrandedPerCrash` says nothing of one process, so it is
proved only.

Fairness. The main loop is a running thread: `WF_vars(pc \notin Waits /\ Handler)`.
`Waits` are the steps that nothing in the code bounds: the mutex of the secrets,
which may be held over a request, and the reading of a file (`"mask"`), the opening
of what stdout is and the write into a full pipe, the commands run by the relay
and the validators, and the glob matcher (`"inner"`). At them the handler may
stand for ever, with the process frozen and all later ones unjudged. Nothing is
asked of the agent.

### `InspectBus` — `protector inspect`

`Record` and `Send` are the two steps of `emit_event`, of several threads;
`Accept`, `Snapshot`, `Replay`, `Recv`, `Lag` are `start_unix_server` and
`serve_client`. `missed` accounts for the two bounds, so that `NothingLost`
says that nothing *else* is lost: not what was recorded before the
subscription and sent after, not what was sent during the replay.
`ThreadOrderKept` bounds what the duplication may do: nothing is received
three times, and the first receptions of a thread's events keep their order.
`Delivered`: a client that goes on receiving gets what was recorded, but for
what the bounds dropped. The instance has two threads, one client, a history of
three and a channel of two for five events, so both overflow. Fairness is on a
thread that has recorded and on the client's task.

### `AlertPanel` — the dashboard's alerts

The store, its handlers and the page's script, whose timer starts a poll
whether or not the last was answered. `PanelComplete`: an alert stored up to
the page's cursor is on the panel, for any overlap, reordering and failure of
polls; it excepts what CLEAR ALL, a restart or a late first load do. With the
first and the last of these, an alert not newer than the cursor has at least
been on the panel, unless the daemon was restarted (its second part).
`AlertShown`: an alert newer than the cursor gets to the panel. Two polls
overlap in every way two requests can; three alerts overflow a store of two;
one failed request, restart or CLEAR ALL comes at any step. The timer, the
daemon's answers and their arrival are fair; failures and restarts are finite,
and nobody has to log in again.

### `ReadGuard` — the fanotify read-guard

Paths hold inodes; marks belong to inodes, the code's set `marked` to paths.
`Scan` and `Mark` are the marker thread, `Read`, `Respond`, `Report` the event
thread; `Replace` and `Remove` are what programs do to files; `Refresh` is the
tracker's view, which may miss an agent and may take any other process for one
(`tracker.rs:120`). A walk is whole, cut short (the limits at `read_guard.rs:327`
and `:401`, a directory that cannot be read) or never ends (the matcher, see
`GlobMatch`); the kernel may refuse a mark on a file that exists
(`read_guard.rs:112`). `Missed` are the protected paths no walk comes to: those of
a rule without a wildcard, and the entries skipped at `read_guard.rs:382`. The
kernel's side is external: an opener of a marked inode waits until its event is
answered; a hard error of `read` denies the open it was for (`denied` counts it)
and ends the thread.

`DeniedIsReported`: each process that was denied a file is reported, but for one
for each end of the daemon and one for each hard error. It speaks of processes and
not of files, since the name in a report is read after the descriptor was closed
and may be another file's (see Findings). `AllAnswered`: each opener is answered,
unless the event thread has ended. `NewPathMarked`: a path that is not in the set
has its file marked in the end, unless no walk is whole any more or the kernel
refuses the mark for ever. `AgentShutOut` puts the marker, the restarts and the
files together: an agent that stays known gets a protected file of a walked path
only finitely often, unless its marked file was replaced. That the set is right
but for replaced files (`MarkedIsGuarded`) is a theorem.

One agent, another process (which may be taken for an agent) and the daemon
(which is never) open one path a walk comes to and one it does not; two inodes
give one replacement; two opens of marked files a repeated denial, or one of
another process; one hard error, one restart. Opens of files without a mark are
not bounded. Both threads are fair; files, processes, errors, walks and refusals
do as they please.

### `SeccompNotify` — substitution and the launcher

`launch`/`filter` are the launcher of each tree, `at` says who holds the
listener, `step`/`cur` are the tree's supervisor, `vault` is the mutex of the
token store, `queue` the kernel's notifications. A signal makes a notification
void and the call is asked again or abandoned; an answer to a void notification
changes nothing. `recv_fd` sets no close-on-exec, so the relay's child inherits
the listeners (`heirs`), and a tree may wait for it after a crash.

`Continued` is the kernel's part after CONTINUE: it reads the path again, and
another thread of the task may have rewritten it since the supervisor read it (the
race that the comment at `seccomp_notify.rs:23` describes), so an open that was
let through as ordinary may show a sensitive file. `Install` takes the offset that
`build_filter` adds to its jumps from `JumpOffsets`: with 2, the offset of the
source (`run.rs:129`), a jump goes past the end of the program, the kernel refuses
it and the tool is started without a filter; with 1 it loads. Both are in the
instance, since with 2 alone nothing behind the filter would be reached.
`prctl` and `seccomp` may fail as well (`refusals`); `sendmsg`, whose result is
ignored, and `recvmsg` may lose the listener though both ends are alive
(`losses`).

`RawOnlyUnresolved`: under the filter, sensitive files are opened raw at most as
often as a path could not be read or was rewritten, and an ordinary one is left
alone. `RefusedOnlyByFailure`: ENOSYS comes only from an error, a loss on the way
or an end of the daemon. `Answered`: every trapped open is answered or abandoned,
unless a supervisor thread could not be started, whose tree waits for ever, or one
of three things that have no limit does not end: a supervisor's matching or
reading (`Stuck`), a relayed request, which holds the mutex (`child`), a launcher
between its connection and its handoff (`Suspended`). `SupervisorEnds`: a
supervisor ends with its tree, with the first two of these excepted. Two
trees are needed for the accept thread and the mutex to make one wait for the
other; they have one task each, so that a supervisor finds its own notification
void and not another's. One of each error, loss, rewritten path, interrupt, relay
and crash falls at every step, two of them in one behaviour (`MaxTroubles`).

Fairness. The accept thread runs, and so does each supervisor but where it
matches a path or reads a file (`Waits`). Nothing is asked of a relayed request or
of the launchers. A supervisor that waits for the mutex gets it in the end: the
requests of the instance are finitely many, and each one ends or is excepted. That
ever new requests may keep it waiting, since the mutex promises no order, is
outside the model.

### `Firewall` — iptables, ipset and their configuration

`Save`, `Write` and `Publish` are `set_firewall`, of several requests; `Load`
is the start; `Unjump` ... `Policy` are `apply`, one action per external
command (or per group of commands that only add to the chain), and `Create` ...
`Destroy` are `refresh_allowlist`, which `apply` and the resolver thread
both run. Nothing takes turns: requests, start and resolver interleave at every
command, over chains and sets that belong to the kernel and outlive the daemon.
The program is then restarted with the file as it was left, possibly truncated.
An error of a command ends `apply`, is logged or is ignored, as in the code.

`ConfigInForce`: when nothing is under way, the chain, the jump and the IPv6
drop are those of the configuration, in memory and on disk, unless since the
last edit or start a command failed or edits overlapped; so one whole edit or
start repairs whatever went before. Its second part counts the rules in the
system's own chains: never more than wanted, plus one for each failed command
and each overlap. `AllowlistHeals`: the ipset is in the end the list of the
configuration, although the temporary set has one name for all who fill it.

Two requests overlap in every way; one configuration of each mode; one trouble
(a command, write or look-up that fails, or the end of the daemon) at any step.
Of requests, finitely many are handled at a time (`FirewallAssumption`), since
their overlaps are counted. The set holds whole hosts, so one host tells a full
set from an empty one or a part. The IN chain gets the same commands and is not
modelled twice. Fairness:
commands end, so one of the requests, the start and the resolver thread goes on
whenever one of them can.

### `TokenBudget` — the proxy's limits

A request is `Arrive`, `Check`, `Answer` or `Fail`, `Relay`, `EndRelay` and
`Record`; between any two of them other requests, an edit, a reset, a restart
or a change of the clock may come. `Parsed` is what `parse_usage` finds in a
part of an answer. The clock is the age of the window; set back, the difference
of two `u64` wraps (`% Word`), as it does in the release build; a debug build
panics there instead. `top` is the highest limit of the window, 0 once there
was none.

`OverrunBounded`: the check before and the charge after a request let a window
overrun a limit by less than one answer for each request that can be under way,
also when answers are charged to the window after a reset, or break off.
`BudgetReturns`: clients that go on asking do not put off the automatic reset.
Two connections make two requests pass the check together; one model, since
usage is per model; answers of one and two tokens reach a limit exactly and
jump over it; a window of two ticks; `Word` is 16 instead of 2^64. Fairness is
on `Tick` alone: time passes.

### `SecretVault` — what a token stands for

`Mask` is `mask_file` with `tokenize` under the mutex, in the four formats
(`format` is that of the files of a behaviour); `Deliver` is the masked text on
its way to the frozen reader; `clear` is the web UI's, `VaultRestart` the daemon's
end. The agent may write a masked text into a file of its own (`Copy`), which is
then masked again: a text is a string and how often it has been turned into a
token. What the user writes holds no token (`VaultAssumption`). `detokenize` is
what the loop over the store may make of a token: a text on the way back, along
entries that are there, and the token itself only if it has no entry; where the
loop stops depends on the order of a hash map. `Relay` and `Release` are phase 2
of `handle_event`. `relay_allowed` sees the hosts that `extract_hosts` finds in the
text, which need not be those the request goes to (`main.rs:652`): an address
without a scheme, or the second one in an argument, is not seen (`Unseen`), and of
one with an @ behind its host what follows the @ is taken for the host. So nothing
is claimed about where a secret goes.

`SentIsMeant`: what goes out for a token is what it stands for, whatever has
become of its file and whatever other file holds the same secret; a token of a
time before a `clear` or a restart is resolved as well or sent as it is, never
into another secret.
`TriedInAnyOrder`, in `MCSecretVault`, runs the loop itself over the entries, in
every order, and compares what it makes of each token handed out with
`detokenize`.
Two files of one secret and two values give the collisions (the same value in
both, a value changed under its token); two events are enough for a copy, and
for a clear between masking and delivery; a text is masked twice (`MaxDepth`).

### `Tracker` — whose process it is, and the cgroup

Processes fork, execute something else, become subreapers, end and give their pids
back; an orphan is adopted by the nearest subreaper above it or by init, as Linux
does, and the agent may itself be the init of a namespace or a subreaper (`reapers`;
one stays one, which only `prctl` in the process itself could change). `above` is
the truth about who is above whom and has no bound; `LookUp` and `Climb` are
`is_claude_descendant`, one parent per turn, through `ppid_cache` or `/proc`, with
at most `MaxHops` turns (32 in the code). `Refresh` is part of a look-up or of the
redirection's watcher. `FirewallTick` and `RedirectTick` are the watchers of
`main.rs`, `Track` is one write to `cgroup.procs`; `FindAgents` and `Terminate` are
the web UI's `kill_agent`. `ours` is what the daemon does not see: the processes
that come from an agent.

`LookUpTruthful`: a look-up affirms a process of an agent only. It denies a process
that has an agent of the snapshot above it only at its last turn, or where it stood
at a process that has ended: a cached parent that is gone, or one that ended while
the look-up was there, whose children somebody else has adopted
(`tracker.rs:68`, see Findings). `misled` excepts a look-up that met a reused
pid, which the code cannot tell. `ConfinedAreOurs`: as long as no pid is reused, the
cgroup and the processes about to be signalled are the agents', however late the
write or the signal. `SeenIsCovered`: an agent the tracker has seen gets into the
cgroup if it lives, though a look-up that refreshes hides it from the watcher that
writes only what is new.

Three pids and two events let a pid be given out again while something that read
it still holds it, let the agent be a subreaper, and give chains of three, one
longer than the two turns of a look-up, so that the limit of turns shows; longer
chains, more turns and more events rest on the proof. Fairness: a look-up goes on,
so does a watcher that writes; `SF_vars(FirewallTick)`, because the watcher takes
the mutex between look-ups that others begin.

### `WinGate` — shims, the named pipe and the Windows daemon

A shim is two threads: `main` waits ten seconds at most (`Timeout`), `talker`
opens the pipe (`tries` against a busy one), writes and reads. `Accept`, `Served`,
`AcceptAgain` are the loop of `async_main`, which creates the next instance
before it hands over this one, and `ConnectFails` its `continue` on an error, which
calls `connect` of the same instance again; `Process`, `Mask`, `Relay`, `Report`,
`Reply` are the steps of `handle_client` and `process_request`; `Snapshot` is the
tracker's, at most five seconds old. A file of secrets that cannot be masked goes
on to the validators (`protector-win/src/main.rs:454`). A verdict about a path
(blocked, masked, or to be masked by a tool that cannot be started) goes through
the action of its rule, which `rules.json` may have set to alert or pass
(`PathActions`). `lapse` notes, for each invocation, what went wrong or was waived.

`RunsAsJudged`: the tool of a blocked, masked or secret invocation runs raw only
after a lapse (a deadline, a lost or too large answer, a busy pipe, a caller not
in the snapshot, a file that cannot be masked, a rule that waives the block);
waived is only a path, and only if `rules.json` does not say block; a tool told
blocked has been run by nobody; one that runs twice was run by the daemon first,
whose answer came late or not at all. `ShimEnds` is the comment of the shim,
`ListenerReturns` that of the accept loop. One shim of any kind and one that relays
a request (which occupies the worker and the store's mutex), one worker, two
attempts, every action of the path rules: each wait can be caused by the other
shim. One trouble falls at any step.

Fairness: the system schedules the threads of a shim and a worker with something
to do; no tool and no match need end. The loop is fair only while no worker is
occupied and `connect` does not go on failing
(`WF_vars(Busy = {} /\ loop # "failing" /\ Listen)`): handlers block the threads of
the runtime, and Tokio does not promise that an idle worker looks after the pipes
when another one is blocked. So `ListenerReturns` excepts a tool or a match in a
worker that does not end, and a `connect` that fails for ever; these are hazards of
the code, not of the model.

### `GlobMatch` — the matcher of path rules

`glob_match_inner` turn by turn, against `Documented`, what its comments say, as
a function of the positions in pattern and path. See Findings.

## Runs

| Run | Distinct states | Question |
|---|---|---|
| `ExecGuard` | 672 000 | custody, effects after a verdict, refinement of `ToolGate`, resolution of frozen processes |
| `InspectBus` | 179 000 | what a client of `protector inspect` may miss or see twice |
| `AlertPanel` | 155 000 | what the dashboard may miss |
| `ReadGuard` | 301 000 | that denials are reported, openers answered, new paths marked and known agents shut out |
| `SeccompNotify` | 728 000 | what is opened raw or refused, that trapped opens are answered |
| `SecretVault` | 494 000 | what a token sent in a request becomes, and that `detokenize` is the loop in some order |
| `Firewall` | 500 000 | whether the rules in the kernel are those of the configuration |
| `TokenBudget` | 962 000 | how far a window overruns its limits, that it ends |
| `Tracker` | 146 000 | whose process a pid is taken for, who gets into the cgroup |
| `WinGate` | 508 000 | who runs the tool on Windows, that nobody waits for ever |
| `ExecGuard_fmask`, `GlobMatch` | | counterexamples, see Findings |

## Findings

Each is a run that TLC ends with a counterexample; `PROJECT.json` quotes the
line it contradicts.

| Run | What happens |
|---|---|
| `ExecGuard_fmask` | `path_mask` on alert (the default): the command runs on, and prints the file, after its masked output |
| `GlobMatch` | `**/s*` on `/a/s/b`: a star met at a slash goes back to where it was, and the matcher never answers; on Linux the command asked about stays stopped, and the main loop with it |

The documents and the code also disagree in these points. They have no run: they
are plain in the source, or the properties of the modules except them by name:

- `run.rs:129`: the jumps of the seccomp filter are one too long, so that one goes
  past the end of the program; the kernel refuses the filter and every tool is
  started without one. `proxy-injector/src/seccomp.rs:88` counts in the same way,
  and `:67`-`:68` there say that the program stays correct for any number of
  syscalls; `seccomp_notify.rs:4`-`:6` says that the agent's opens are trapped.
  With 2 as the only member of `JumpOffsets` no tree is ever filtered.
- `seccomp_notify.rs:200`: a supervisor waits for the mutex that the main loop holds
  over a relayed request without a limit; `:17`-`:18` and `:21` say that the agent
  never hangs.
- `read_guard.rs:160`: after a hard read error the event thread returns with the
  group still open, so openers of marked files wait for ever; the comment there
  means to "bail rather than hang the system", and `:20`-`:21` says that access is
  allowed on any uncertainty.
- `read_guard.rs:97`: the set of marked paths is never emptied, so a file renamed
  over a marked one is not marked; `:72` speaks of picking up new files.
- `read_guard.rs:204`: the descriptor is closed before its name is read, so a report
  may name another file or none; `:152` has reports per pid and path.
- `main.rs:652`: `extract_hosts` takes `http://` and `https://` only, the first of
  each in an argument, and what follows the last `@` of the rest; a request may go to
  a host that is not on the allowlist, against `main.rs:512`-`:513` and `:627`.
- `tracker.rs:68`: a cached parent is used though it has ended, and the look-up is
  then denied although the child was adopted by a process of the agent; `:44` says
  that the answer is true for a descendant.
- `alert_store.rs:22`: ids begin again after a restart, and an open page shows no
  alerts until they pass its cursor; `AlertShown` and `PanelComplete` speak of the
  time without a restart.
- `network_firewall.rs:191`: when the last host is taken off the allowlist the set
  is not refreshed, so its addresses stay admitted; the repository's
  `README.md:33`-`:36` and `firewall_config.rs:93` say that the set follows the
  allowlist.
- `secret_proxy.rs:63` "Replace all tokens": a masked text that was masked again
  is resolved to the inner token or to the value, as the order of the map has it.
- `secret_proxy.rs:326`: in JSON the brace of `"auths": {` is taken for a value,
  and its place holds a token.
- `data_policy.rs:282`-`:284`: a single star does cross a slash when the matcher
  goes back to it; `:240` and `:270` say that it does not.
- `protector-win/src/validators/data_guard.rs:194`, `data_guard.rs:296` (Linux): only the
  value of a flag is replaced by the masking query, so `psql -f file`, or a query
  given by position to `sqlite3`, runs as it is and is reported as masked.
- `protector-win/src/tracker.rs:42`: a shim younger than the snapshot has no
  parent in it and is taken for a stranger: its tool runs unjudged (`"unseen"`).

Met while modelling, and in the models:

- `main.rs:460`: the tracepoint does not wait for the SIGSTOP, so a short tool
  acts before it is stopped. `early` records it, and the safety properties
  exempt it.
- `main.rs:491`: when stdout cannot be opened, the reader of a secret file is
  resumed. `main.rs:492`, `:535`: a killed command whose output could not be
  written is reported as allowed.
- `tool_db.rs:41`, `:79`: a disabled tool skips the data policy.
- `read_guard.rs:391`: a rule without a wildcard marks nothing.
- `run.rs:159`: a failed handoff leaves the tool under a filter nobody answers.
- `seccomp_notify.rs:115`: no supervisor thread, and the listener stays open
  unserved. `:100`: one suspended launcher holds up those behind it. `:184`: an
  unreadable path is let through.
- `web/index.html:983`: the panel misses alerts stored between CLEAR ALL and its
  answer.
- `seccomp_notify.rs:180`: the kernel reads the path again after CONTINUE, so one
  that is rewritten meanwhile gets through, as the comment at `:23`-`:26` says.
- `event_bus.rs:38`: a replay begins where the bounded history does.
- `network_firewall.rs:75`-`:187`: the agent is unfiltered between the flush and
  the last rule; `:217` a name that does not resolve empties its place in the
  set; two edits at once mix their rules in one chain. `web_ui.rs:424`: an
  `apply` that failed is answered with OK.
- `main.rs:249`: the resolver thread holds the `NetworkFirewall`, so its `drop`
  never removes the rules.

## Proofs

`ExecGuard_proofs` proves, from `ExecGuardAssumption` alone (`Procs` is any
set, the bounds any naturals):

- `TypeCorrect`: `Spec => []TypeOK`;
- `Custody_FrozenInCustody`, `Blocked_NeverActs`, `Substituted_NeverActs`;
- `Stranded_PerCrash`;
- `Implements_Gate`: `Spec => Gate!Spec`.

The argument. `FrozenInCustody` alone is not inductive: that the settling
signal has an effect depends on what the handler knows of its process at each
step. `IInv` adds it: between the stop and the settling signal the process is
stopped or gone, and gone after the SIGKILL (`Custodian`); the arguments read
are the invocation's or the caller's (`SeenOK`); a process a crash left behind
is stopped and never settled again (`OrphansOK`); a process whose output the
secret proxy or the data policy replaced is gone, or frozen, or about to be killed
(`SubstitutedDoomed`; what fs_guard masks is not among them, since `path_mask` may
resume it). `NextIInv` has one step per action. `GateStep` maps each action to a step of
the gate or a stutter, and uses `IInv` where a report is told: the gate is shut
by then. `NextStranded` counts orphans by the finite-set theorems.

`TokenBudget_proofs` proves, from `TokenBudgetAssumption` (a finite set of
connections, some model, positive bounds), `TypeCorrect` and `Overrun_Bounded`.
`OverrunBounded` is not inductive, since a charge may come at any height.
`IInv` is: each request that is admitted and not charged yet (`Live`) has its
most expensive answer kept free (`Reserved`), and a limit in force all through
the window is in force now, below `top` (`LimitOK`). A check admits below the
limit only; a charge uses up what was reserved for its request (`<1>7` of
`NextIInv`); a reset, a restart and an edit begin or keep a window
(`ResetIInv`, `Kept`). The products with `MaxCost` are settled once, in
`Monotone` and `LiveCount`.

`WinGate_proofs` proves `TypeCorrect` and `Runs_AsJudged` from
`WinGateAssumption`, for any number of shims of any kinds, where the run has two.
`RunsAsJudged` looks at the end of an invocation; `IInv` follows it there, shim by
shim (`Sound`): a shim connects, is served and is answered once (`Once`); until
the daemon comes to run a tool, the tool has been run by its shim alone
(`Unjudged`); a verdict to run or to refuse is under way only if the daemon has
not run it, a verdict to run only if the invocation is excused (`Decided`,
`Excused`: no guard names it, or something lapsed or was waived); and a shim that
ran it either was told to, and then the daemon will not (`Settled`), or did not hear
(`Unheard`). What `rules.json` waives is a path (`OfKind`). `Rulings` and
`RulingSound` do the verdicts once for `Process` and for `Mask`, whose failure leads
to the same validators. Each action has a lemma:
it changes one shim and spares the others (`Spared`), but for the accept loop and
the end of the daemon, which concern all.

`Tracker_proofs` proves `TypeCorrect`, `Confined_AreOurs` and `LookUp_Truthful`
from `TrackerAssumption`, for any pids, chains of any length, any subreapers and
any number of turns. `Lines` is about the truth the model keeps in `above`: what is
above a process is its parent and what is above that (`Stacked`), with all that is
above each of them (`Nested`), one above the other (`Ordered`). A birth and an
adoption keep it (`BornKeepsLines`, `EndKeepsLines`).

For the second theorem, `HeldAreOurs` is the strengthening: not only the members of
the cgroup but every pid a snapshot, a watcher or `kill_agent` still holds is that
of an agent's process, if it is that of a process at all; a birth cannot break this
unless it reuses a pid (`BornHeld`).

For the third, `TruthInv` relates the truth, the cache and a look-up under way.
`Ways` says what a cached parent is worth: all that is above a process is its
cached parent or above that one (`CacheAbove`), and a cached parent that goes on is
the parent (`CacheTrue`); what has ended has been replaced by who adopted its
children. For affirmations, there is a set of processes from which no look-up comes
to an agent of the snapshot (`Unreached`), and a look-up of what is not ours stands
in it (`Outside`). For denials, the agents of the snapshot that are above the
process looked up are above where the look-up stands or where it stands itself
(`WalkSound`), so that it is denied only at its last turn or at a process that has
ended; if one above where it stands ends, its children are adopted below those
agents.

`SecretFiles_proofs` proves, of `ReadGuard`, `SpecTypeOK`, `SpecMarkedIsGuarded`
and `SpecDeniedIsReported`, for any processes and paths. `SpecMarkedIsGuarded` says
that a path of the marker's set has its file marked in the kernel unless it was
replaced or removed since (`changed`), whatever walks are cut short, marks refused
and daemons restarted; `FilesMade` (each file was made and is at one path) keeps
another path's mark when a file is replaced. For the denials: one that is not
reported yet must be of the process in hand, so `IInv` says what the event thread
has in its hands at each step (`EventInHand`) and that a pair is suppressed as a
repetition only if it was reported (`RecentReported`). The processes that were
denied and are lost to the reports (`Lost`) grow at a restart and at a hard error
only, by one (`NobodyForgotten`, `ForgetsOne`); `Countable` lets them be counted.

Of `SecretVault` it proves `Vault_TypeCorrect` and `Sent_IsMeant`, from
`VaultAssumption`, for any files, values and hosts. A token that is
current must have an entry when it is sent, but it becomes current only when the
masked text is delivered, steps after the entry was made. `VaultInv` therefore
says of a text under way that every token in it has an entry (`Known`), unless
the store was emptied in between (`kept`). That is not enough by itself: a masked
file that the agent copied holds tokens already, and a token on a line that is
not masked would be handed out again without an entry. `TokensMasked` rules it
out: in a file, a text under way and a text handed out, only lines that the
format masks hold tokens; `MaskedFile` shows that masking keeps this and
`CopyKeeps` that a copy does. `Resolved` says what a token becomes. `BelowBound` is
about `MaxDepth` alone, which the code does not have.

`InspectBus_proofs` proves `SpecTypeOK`, `SpecNothingLost` and
`SpecThreadOrderKept`, for any threads, clients, capacities and events. `Sending`
is about the threads: the history is the last events recorded without a gap, each
event is sent or in the hands of its thread, once and in the thread's order.
`Sound(c)` is about one client: what lies before its place in the channel it has
read, will be replayed or misses (`Covered`); what is left of its replay is a run
of events, all those before it replayed or missed (`ReplayInOrder`); it has read,
before each event, the earlier ones of that thread (`ReadInOrder`); and what it
read is a part from the history and a part from the channel, neither of which
repeats an event (`TwoParts`), which is why none comes three times.
`SentAtMostRecorded` counts by an injection; `LeastNumber` takes the first of a
client's events by well-founded induction on a set, not on an operator.

`WebUI_proofs` proves, of `Firewall`, `Firewall_TypeCorrect` and
`Config_InForce`, from `FirewallAssumption`. `ConfigInForce` speaks of the moment
when nothing is under way, and its two parts need two invariants:

- `Undisturbed` holds as long as no command failed and no edits overlapped since
  the last edit or start. It follows the one `apply` there is: which rules are in
  the chain, and whether the jump and the IPv6 drop are there, at each command
  (`Progress`). `Places` says which steps a worker may be at with which
  configuration; an edit that began alone stays alone (`Alone`), so that it is the
  one whose `apply` repairs the kernel.
- `Counts` holds always, and is about the rules that pile up in the system's own
  chains. The rules there are, and those that appliers on their way will add, are
  as many as wanted plus one for each failure and overlap at most (`Bounded`). An
  applier deletes one first and adds one later, and the configuration may change
  between the two: `Spare` gives the one that a deletion still to come will make
  up for, and `Late` says that, while a rule is not wanted, every applier that
  will add it was counted as an overlap. `Keep`, `Adds` and `Cuts` do the
  arithmetic for a step that keeps, adds or deletes a rule, and `RunSteps` tells
  which of them each command is.

Of `AlertPanel` it proves `Alerts_TypeCorrect` and `Panel_Complete`, from
`AlertPanelAssumption`, for any number of polls in flight. `PanelComplete` speaks
of the page's cursor; an answer that arrives moves it, so `PanelInv` speaks of
the requests under way too: each started from a cursor up to which the panel was
complete, and an answer carries all that is stored between the two cursors it
names (`Continues`). A restart gives old ids out again, so this half
(`Complete`) holds while there was none, which is what `PanelComplete` claims;
the rest (`IdsCounted`, `LoadOnce`, `ClearUsed`) always.

`SeccompNotify_proofs` proves `SpecTypeOK`, `SpecRawOnlyUnresolved` and
`SpecRefusedOnlyByFailure` from `SeccompNotifyAssumption`, for any trees and
tasks. Whether an answer reveals a file is settled when the supervisor reads the
path and carried out steps later, by the kernel after CONTINUE, when the path may
have been rewritten and the task interrupted, asked again or ended; so `Tree(t)`
follows each tree: the kernel's
queue holds exactly the tasks that ask, once (`Queued`), the supervisor works for
its own tree and only with the listener (`Serving`), a tree not yet launched has
opened nothing (`Launching`), and the task whose file is being masked still asks
for it (`Handling`). `Shown` counts the raw reads together with those the kernel is
about to make after a CONTINUE (`Showing`): a path rewritten meanwhile enters the
second set and leaves it for the first, and both stay within the unreadable and
the rewritten paths. `Calm` is the other half: without a failure, a loss or a crash
no listener is lost, one that is closed has no living task, and a launcher's
connection is there to send over, so that no call is refused. Each action has a lemma.

Only model-checked:

- liveness: fairness and ENABLED are out of the prover's reach;
- `TriedInAnyOrder`: what a fold over the orders of a set computes needs an
  induction over data; the proofs use the closed form of `detokenize`, and the
  run compares the two in every state;
- `GlobMatch`: its run is a counterexample.

Every invariant that a passing run checks, but for `TriedInAnyOrder`, is thus a
theorem as well, and so is the refinement of `ToolGate`.

## Left out

- Text: what an SQL statement, a diff or a command line looks like. The
  validators' verdicts are a choice that depends on the kind, and of the parsers
  of `policy.conf`, `rules.json` and the table of tools only what a rule decides
  is kept.
- SIEM forwarding formats a message and sends it; it has no state of its own. That
  a send holds the process in hand, or a worker, is in the step that reports.
- The traffic redirect appends its `iptables` rules once at the start, removes
  them at the end, and nothing else reads them; its watcher is in `Tracker`.
- The proxy injector is a command of its own that kills a process and starts it
  behind a proxy; it keeps nothing and talks to no part of the daemon.
- Setup, banner, command line, reporter, demonstration scripts, the pages that
  show or save the policy and the SIEM settings: one-shot input and output.
- The Windows firewall is a stub in the source.
- A masked output written in part is not told from one written whole.
- The 256 KB, 2000, 1024, 500 and 4096 limits are constants, small in the runs.
- Time: a wait of three, five or ten seconds is a step that may come at any
  time; how long a process stays frozen is not measured.

## Plan

These modules are written: `ExecGuard`, `ToolGate`, `InspectBus`,
`AlertPanel`, `ReadGuard`, `SeccompNotify`, `SecretVault`, `Firewall`,
`TokenBudget`, `GlobMatch`, `Tracker`, `WinGate`. What is left is the
composition of `ReadGuard`, `SeccompNotify` and `ExecGuard` through the mutex of
the token store and the daemon's own opens: each is shown to go on if the others
let go of what it waits for, and the three are not put together.
