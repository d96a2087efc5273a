------------------------------ MODULE ReadGuard ------------------------------
(***************************************************************************)
(* The fanotify read-guard (protector/src/read_guard.rs): a marker thread  *)
(* that puts a mark on the inode of every protected file it finds, and an  *)
(* event thread that answers the kernel's question for each open of a      *)
(* marked inode.  Files come, go and are replaced meanwhile, processes     *)
(* open them, and the daemon's own threads open them too.                  *)
(*                                                                         *)
(* The kernel's side (fanotify marks and permission events) is modelled as *)
(* this code relies on it: a mark belongs to an inode, an opener waits     *)
(* until its event is answered, and closing the group lets everyone go.    *)
(***************************************************************************)
EXTENDS Integers, Sequences, FiniteSets

CONSTANTS
  Agents,       \* processes below an agent root
  Others,       \* unrelated processes
  Daemon,       \* the daemon itself: mask_file, the seccomp supervisor
  Nobody,       \* no event in hand, no reader
  Globs,        \* protected paths a walk comes to: under a rule with a wildcard,
                \* or in an agent's working directory
  Missed,       \* protected paths no walk comes to: named by a rule without a
                \* wildcard or without a base, behind a symbolic link, or in a
                \* directory that is skipped
  MaxInodes,    \* bound: files made, anew or by replacing one
  MaxAsks,      \* bound: opens the kernel asks about
  MaxFails,     \* bound: hard errors of read(fan_fd)
  MaxCrashes    \* bound: ends of the daemon

Openers == Agents \cup Others \cup {Daemon}
Paths   == Globs \cup Missed

ASSUME ReadGuardAssumption ==
  /\ Agents \cap Others = {} /\ Daemon \notin Agents \cup Others
  /\ Nobody \notin Openers \X Paths
  /\ Globs \cap Missed = {}
  /\ {MaxInodes, MaxAsks, MaxFails, MaxCrashes} \subseteq Nat

NoFile == 0

VARIABLES
  inode,     \* the file at each path
  made,      \* files made so far
  marks,     \* inodes with a FAN_OPEN_PERM mark
  marked,    \* the marker thread's set of paths it has marked
  targets,   \* paths left to mark in this pass
  walk,      \* how the last walk ended, if it did
  failing,   \* paths whose last fanotify_mark failed though the file was there
  changed,   \* paths of `marked` whose file was replaced or removed since
  known,     \* processes the tracker would find below a root it knows; of
             \* the daemon itself it is never asked
  waiting,   \* processes whose open the kernel holds until it is answered
  events,    \* permission events not yet read, oldest first: who opens what
  guard,     \* the event thread's next step
  ev,        \* the event it is working on
  recent,    \* (pid, name) pairs reported less than three seconds ago
  asks,      \* opens the kernel has asked about
  raw,       \* the open by which an agent got a file at one of Globs last, until
             \* it is closed
  denied,    \* opens that were denied, by this code or by the kernel
  reports,   \* what report_denied was told: who, and the name of the file
  fails, crashes

fileVars   == <<inode, made>>
markVars   == <<marks, marked, targets, walk, failing, changed>>
eventVars  == <<waiting, events, asks>>
threadVars == <<guard, ev, recent>>
resultVars == <<denied, reports>>
boundVars  == <<fails, crashes>>
vars == <<fileVars, markVars, known, eventVars, threadVars, raw, resultVars,
          boundVars>>

Steps == {"read", "decide", "name", "stopped"}
\* A walk is whole, is cut short (by its limits of depth and number, a directory
\* it cannot read, an agent the tracker lost) or never comes back.
Walks == {"whole", "cut", "stuck"}
\* What read_link of a descriptor can say after it was closed: nothing, or
\* the file another thread has opened under the same number.
Names == Paths \cup {"unknown"}
Opens == Openers \X Paths

TypeOK ==
  /\ inode \in [Paths -> 0..MaxInodes]
  /\ made \in 0..MaxInodes
  /\ marks \subseteq 1..made
  /\ marked \subseteq Paths /\ targets \subseteq Paths
  /\ walk \in Walks
  /\ failing \subseteq Paths /\ changed \subseteq marked
  /\ known \subseteq Openers \ {Daemon}
  /\ waiting \subseteq Openers
  /\ events \in Seq(Opens)
  /\ guard \in Steps
  /\ ev \in Opens \cup {Nobody}
  /\ recent \subseteq (Openers \X Names)
  /\ asks \in 0..MaxAsks
  /\ raw \in (Agents \X Globs) \cup {Nobody}
  /\ denied \subseteq Opens
  /\ reports \subseteq (Openers \X Names)
  /\ fails \in 0..MaxFails /\ crashes \in 0..MaxCrashes

Init ==
  /\ inode = [p \in Paths |-> NoFile]
  /\ made = 0
  /\ marks = {} /\ marked = {} /\ targets = {}
  /\ walk = "whole" /\ failing = {} /\ changed = {}
  /\ known = {}
  /\ waiting = {} /\ events = <<>> /\ asks = 0
  /\ guard = "read" /\ ev = Nobody /\ recent = {}
  /\ raw = Nobody
  /\ denied = {} /\ reports = {}
  /\ fails = 0 /\ crashes = 0

-----------------------------------------------------------------------------
(* Files and processes.                                                    *)

\* The old inode, and the mark on it, are gone; the set of paths is not told.
Unmark(p) ==
  /\ marks' = marks \ {inode[p]}
  /\ changed' = changed \cup ({p} \cap marked)
  /\ UNCHANGED <<marked, targets, walk, failing>>

\* A file appears at a path: created, or renamed over the one that was there.
Replace(p) ==
  /\ made < MaxInodes
  /\ made' = made + 1
  /\ inode' = [inode EXCEPT ![p] = made']
  /\ Unmark(p)
  /\ UNCHANGED <<known, eventVars, threadVars, raw, resultVars, boundVars>>

Remove(p) ==
  /\ inode[p] # NoFile
  /\ inode' = [inode EXCEPT ![p] = NoFile]
  /\ Unmark(p)
  /\ UNCHANGED <<made, known, eventVars, threadVars, raw, resultVars, boundVars>>

Gets(open) == raw' = IF open \in Agents \X Globs THEN open ELSE raw

\* The open of a marked inode waits for an answer, any other gets the file.
Open(who, p) ==
  /\ inode[p] # NoFile /\ who \notin waiting
  /\ IF inode[p] \in marks
       THEN /\ asks < MaxAsks /\ asks' = asks + 1
            /\ waiting' = waiting \cup {who}
            /\ events' = Append(events, <<who, p>>)
            /\ UNCHANGED raw
       ELSE /\ Gets(<<who, p>>)
            /\ UNCHANGED eventVars
  /\ UNCHANGED <<fileVars, markVars, known, threadVars, resultVars, boundVars>>

Close ==
  /\ raw # Nobody
  /\ raw' = Nobody
  /\ UNCHANGED <<fileVars, markVars, known, eventVars, threadVars, resultVars,
                 boundVars>>

\* ProcessTracker scans /proc for its roots, at every walk and every five
\* seconds: an agent that has started since is found, one whose root has exited
\* is lost with all its children, and any process whose command line mentions
\* claude is taken for a root.
Refresh ==
  /\ known' \in SUBSET (Openers \ {Daemon})
  /\ UNCHANGED <<fileVars, markVars, eventVars, threadVars, raw, resultVars,
                 boundVars>>

-----------------------------------------------------------------------------
(* The marker thread: every ten seconds.                                   *)

Found == {p \in Globs : inode[p] # NoFile}

\* concrete_protected_files and sensitive_files_in_agent_cwds.  A walk that is
\* cut short leaves out what it had still to visit; one that asks the matcher
\* about the wrong path never ends (GlobMatch).
Scan ==
  /\ targets = {} /\ walk # "stuck"
  /\ \/ targets' = Found /\ walk' = "whole"
     \/ targets' \in SUBSET Found /\ walk' = "cut"
     \/ targets' = {} /\ walk' = "stuck"
  /\ UNCHANGED <<fileVars, marks, marked, failing, changed, known, eventVars,
                 threadVars, raw, resultVars, boundVars>>

MarkMissing(p) ==
  /\ p \in targets
  /\ targets' = targets \ {p}
  /\ marks' = marks \cup {inode[p]} /\ marked' = marked \cup {p}
  /\ UNCHANGED <<fileVars, walk, failing, changed, known, eventVars, threadVars,
                 raw, resultVars, boundVars>>

MarkAnyway(p) ==
  /\ p \in targets
  /\ targets' = targets \ {p}
  /\ marked' = marked \cup {p}
  /\ \/ marks' = (marks \cup {inode[p]}) \ {NoFile}
     \/ UNCHANGED marks
  /\ UNCHANGED <<fileVars, walk, failing, changed, known, eventVars, threadVars,
                 raw, resultVars, boundVars>>

\* A path already in the set is passed over.  Another is looked up anew by the
\* kernel, and entered in the set only if the mark was placed: it is not when the
\* file has gone, nor when the kernel refuses (limits, the file system).
Mark(p) ==
  /\ p \in targets
  /\ targets' = targets \ {p}
  /\ \/ /\ p \in marked \/ inode[p] = NoFile
        /\ UNCHANGED <<marks, marked, failing>>
     \/ /\ p \notin marked /\ inode[p] # NoFile
        /\ marks' = marks \cup {inode[p]} /\ marked' = marked \cup {p}
        /\ failing' = failing \ {p}
     \/ /\ p \notin marked /\ inode[p] # NoFile
        /\ failing' = failing \cup {p}
        /\ UNCHANGED <<marks, marked>>
  /\ UNCHANGED <<fileVars, walk, changed, known, eventVars, threadVars, raw,
                 resultVars, boundVars>>

-----------------------------------------------------------------------------
(* The event thread.                                                       *)

Read ==
  /\ guard = "read" /\ events # <<>>
  /\ ev' = Head(events)
  /\ events' = Tail(events)
  /\ guard' = "decide"
  /\ UNCHANGED <<fileVars, markVars, known, waiting, asks, recent, raw,
                 resultVars, boundVars>>

\* A hard error of read() (no descriptor left for the event, say): the kernel
\* denies that open itself, whoever made it, and the thread ends.  The group's
\* descriptor stays open, and with it the marks.
ReadFails ==
  /\ guard = "read" /\ events # <<>> /\ fails < MaxFails
  /\ fails' = fails + 1
  /\ waiting' = waiting \ {Head(events)[1]}
  /\ denied' = denied \cup {Head(events)}
  /\ events' = Tail(events)
  /\ guard' = "stopped"
  /\ UNCHANGED <<fileVars, markVars, known, asks, ev, recent, raw, reports,
                 crashes>>

\* pid != daemon_pid and is_claude_descendant(pid).
Deny(who) == who # Daemon /\ who \in known

RespondOnlyDeny ==
  /\ guard = "decide"
  /\ IF Deny(ev[1])
       THEN /\ waiting' = waiting \ {ev[1]} /\ denied' = denied \cup {ev}
            /\ guard' = "name" /\ UNCHANGED ev
       ELSE guard' = "read" /\ ev' = Nobody /\ UNCHANGED <<waiting, denied>>
  /\ UNCHANGED <<fileVars, markVars, known, events, asks, recent, raw, reports,
                 boundVars>>

\* The decision under the tracker's lock, the response, and close(meta.fd).
Respond ==
  /\ guard = "decide"
  /\ waiting' = waiting \ {ev[1]}
  /\ IF Deny(ev[1])
       THEN /\ denied' = denied \cup {ev} /\ guard' = "name"
            /\ UNCHANGED <<raw, ev>>
       ELSE /\ Gets(ev)
            /\ guard' = "read" /\ ev' = Nobody
            /\ UNCHANGED denied
  /\ UNCHANGED <<fileVars, markVars, known, events, asks, recent, reports,
                 boundVars>>

ReportPerFile ==
  /\ guard = "name"
  /\ guard' = "read" /\ ev' = Nobody
  /\ \E n \in Names :
       IF \E who \in Openers : <<who, n>> \in recent
         THEN UNCHANGED <<reports, recent>>
         ELSE /\ reports' = reports \cup {<<ev[1], n>>}
              /\ recent' = recent \cup {<<ev[1], n>>}
  /\ UNCHANGED <<fileVars, markVars, known, eventVars, raw, denied, boundVars>>

\* read_link of the descriptor just closed, and the report unless the same
\* pid was reported with the same name within three seconds.
Report ==
  /\ guard = "name"
  /\ guard' = "read" /\ ev' = Nobody
  /\ \E n \in Names :
       IF <<ev[1], n>> \in recent
         THEN UNCHANGED <<reports, recent>>
         ELSE /\ reports' = reports \cup {<<ev[1], n>>}
              /\ recent' = recent \cup {<<ev[1], n>>}
  /\ UNCHANGED <<fileVars, markVars, known, eventVars, raw, denied, boundVars>>

\* Three seconds pass, or the map grew beyond 4096 entries and is cleared.
Expire ==
  /\ recent # {}
  /\ recent' = {}
  /\ UNCHANGED <<fileVars, markVars, known, eventVars, guard, ev, raw,
                 resultVars, boundVars>>

RestartKeepsMarked ==
  /\ crashes < MaxCrashes
  /\ crashes' = crashes + 1
  /\ marks' = {} /\ targets' = {}
  /\ walk' = "whole" /\ failing' = {} /\ changed' = {}
  /\ known' = {}
  /\ waiting' = {} /\ events' = <<>>
  /\ guard' = "read" /\ ev' = Nobody /\ recent' = {}
  /\ UNCHANGED <<fileVars, marked, asks, raw, denied, reports, fails>>

\* The daemon ends and is started again: the kernel allows what was waiting.
Restart ==
  /\ crashes < MaxCrashes
  /\ crashes' = crashes + 1
  /\ marks' = {} /\ marked' = {} /\ targets' = {}
  /\ walk' = "whole" /\ failing' = {} /\ changed' = {}
  /\ known' = {}
  /\ raw' \in {raw} \cup (waiting \cap Agents) \X Globs
  /\ waiting' = {} /\ events' = <<>>
  /\ guard' = "read" /\ ev' = Nobody /\ recent' = {}
  /\ UNCHANGED <<fileVars, asks, denied, reports, fails>>

-----------------------------------------------------------------------------
Marker == Scan \/ \E p \in Paths : Mark(p)
Guard  == Read \/ Respond \/ Report

Next ==
  \/ Marker \/ Guard
  \/ \E p \in Paths : Replace(p) \/ Remove(p) \/ \E who \in Openers : Open(who, p)
  \/ Close \/ Refresh \/ ReadFails \/ Expire \/ Restart

Spec == Init /\ [][Next]_vars

\* Both threads run; files, processes and errors do as they please.
FairSpec == Spec /\ WF_vars(Marker) /\ WF_vars(Guard)
-----------------------------------------------------------------------------
(* What the read-guard promises.                                           *)

\* The marker never passes over a file it believes marked and that is not: a
\* path of its set has its file marked in the kernel, unless that file was
\* replaced or removed after the mark.
MarkedIsGuarded == \A p \in marked \ changed : inode[p] \in marks

\* Each process that was denied a file appears in the reports: what is left
\* out as a repetition was reported for that process before.  An end of the
\* daemon between the answer and its report loses one, and each hard error
\* another: the kernel's own denial is reported by nobody.  For each file as
\* well it does not hold, since the name may be another file's.
Unreported == {d[1] : d \in denied} \ {r[1] : r \in reports}
DeniedIsReported ==
  Cardinality(Unreported \ (IF guard = "name" THEN {ev[1]} ELSE {}))
    <= crashes + fails

\* No opener hangs while the event thread lives: each permission event is
\* answered in the end.
AllAnswered == \A who \in Openers :
  who \in waiting ~> who \notin waiting \/ guard = "stopped"

\* What excuses the marker: no walk is whole any more, or the kernel goes on
\* refusing the mark.
Unmarkable(p) == <>[](walk # "whole" \/ p \in failing)

\* A path the walks come to that is not in the set yet has its file marked in
\* the end, even when files come, go and are replaced between walk and mark.
NewPathMarked == \A p \in Globs :
  \/ p \notin marked /\ inode[p] # NoFile ~> inode[p] \in marks \cup {NoFile}
  \/ Unmarkable(p)

\* An agent that stays known is shut out in the end of a path the walks come to,
\* through errors, restarts and new files, unless its marked file was replaced.
GetsRaw(who, p) == raw' = <<who, p>> /\ raw' # raw
AgentShutOut == \A who \in Agents, p \in Globs :
  \/ <>[][~GetsRaw(who, p)]_vars
  \/ []<>(who \notin known) \/ []<>(p \in changed) \/ Unmarkable(p)
=============================================================================
