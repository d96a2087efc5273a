------------------------------- MODULE Tracker -------------------------------
(* Which processes belong to an agent, and which of them are in the cgroup    *)
(* the firewall and the redirection match.  Translated, of protector/src,     *)
(* from tracker.rs, the watchers of main.rs, track_pids of                    *)
(* network_firewall.rs and traffic_redirect.rs, and kill_agent of web_ui.rs.  *)
(*                                                                            *)
(* Processes fork, execute, end and give their pids back while the daemon     *)
(* looks parents up one at a time, its watchers write pids to the cgroup and  *)
(* the web UI sends signals to pids.                                          *)
EXTENDS Naturals

CONSTANTS
  Pids, InitPid,   \* the pids that are given out, and that of init
  Nobody,
  Agent0,          \* runs an agent when the daemon starts
  MaxHops,         \* turns of the loop of a look-up (32 in the code)
  MaxEvents,       \* bound: processes that begin, execute another program or
                   \* become a subreaper, and uses of kill_agent
  MaxTroubles      \* bound: writes to the cgroup that fail

ASSUME TrackerAssumption ==
  /\ Agent0 \in Pids /\ InitPid \notin Pids /\ Nobody \notin Pids \cup {InitPid}
  /\ MaxHops \in Nat \ {0} /\ {MaxEvents, MaxTroubles} \subseteq Nat

VARIABLES
  alive,     \* the pids in /proc
  parent,    \* their parents in /proc
  above,     \* all processes above each; of a pid that has ended, and is in
             \* nobody's way, what it would be now
  reapers,   \* the processes that adopt orphans: subreapers, and the init of a
             \* namespace
  agents,    \* the processes with the name or command line of an agent
  ours,      \* the processes that are, were or descend from an agent
  events,    \* the events MaxEvents bounds
  used,      \* pids that have been given to a process
  reused,    \* pids given to a second one
  roots,     \* claude_pids
  cache,     \* ppid_cache
  walk,      \* the look-up under the tracker's mutex
  writes,    \* the pids the watchers still have to write
  cgroup,    \* the members of the cgroup
  kills,     \* the pids kill_agent has found and still has to signal
  troubles

procVars  == <<alive, parent, above, reapers, agents, ours, events, used,
               reused>>
trackVars == <<roots, cache, walk>>
groupVars == <<writes, cgroup, kills, troubles>>
vars == <<procVars, trackVars, groupVars>>

\* A look-up: of which process and whether it is ours, where it stands after
\* how many turns, and whether it relied on a pid that had been reused.
Walks == [of : Pids, mine : BOOLEAN, at : Pids \cup {InitPid},
          turn : 0..MaxHops, misled : BOOLEAN]
NoWalk == [of |-> Nobody]

TypeOK ==
  /\ alive \subseteq used /\ used \subseteq Pids /\ reused \subseteq used
  /\ parent \in [Pids -> Pids \cup {InitPid}]
  /\ above \in [Pids -> SUBSET alive] /\ reapers \subseteq alive
  /\ agents \subseteq ours /\ ours \subseteq alive /\ cgroup \subseteq alive
  /\ events \in 0..MaxEvents
  /\ roots \subseteq used
  /\ cache \in [Pids -> Pids \cup {InitPid, Nobody}]
  /\ walk \in Walks \cup {NoWalk}
  /\ writes \subseteq used /\ kills \subseteq used
  /\ troubles \in 0..MaxTroubles

\* ProcessTracker::new has taken its first snapshot, and both owners of the
\* cgroup are about to write it; the agent may be the init of its namespace.
Init ==
  /\ alive = {Agent0} /\ parent = [p \in Pids |-> InitPid]
  /\ above = [p \in Pids |-> {}] /\ reapers \in SUBSET {Agent0}
  /\ agents = {Agent0} /\ ours = {Agent0}
  /\ events = 0 /\ used = {Agent0} /\ reused = {}
  /\ roots = {Agent0} /\ cache = [p \in Pids |-> Nobody] /\ walk = NoWalk
  /\ writes = {Agent0} /\ cgroup = {} /\ kills = {} /\ troubles = 0

-----------------------------------------------------------------------------
(* The processes.                                                          *)

Event == events < MaxEvents /\ events' = events + 1

\* p and all above it; init, which no look-up takes for an agent, is left out.
Line(p) == IF p = InitPid THEN {} ELSE {p} \cup above[p]

\* A process begins with the pid q as a child of p.
Born(q, p) ==
  /\ q \in Pids \ alive /\ Event
  /\ alive' = alive \cup {q} /\ parent' = [parent EXCEPT ![q] = p]
  /\ above' = [above EXCEPT ![q] = Line(p)] /\ UNCHANGED reapers
  /\ used' = used \cup {q}
  /\ reused' = IF q \in used THEN reused \cup {q} ELSE reused

\* A child has its parent's name and cgroup.
Fork(p, q) ==
  /\ p \in alive /\ Born(q, p)
  /\ agents' = IF p \in agents THEN agents \cup {q} ELSE agents
  /\ ours'   = IF p \in ours   THEN ours \cup {q}   ELSE ours
  /\ cgroup' = IF p \in cgroup THEN cgroup \cup {q} ELSE cgroup
  /\ UNCHANGED <<trackVars, writes, kills, troubles>>

\* The user starts a process.
Start(q) == Born(q, InitPid) /\ UNCHANGED <<agents, ours, trackVars, groupVars>>

\* A process executes an agent, which makes its own of all below it, or
\* something else.
Exec(p) ==
  /\ p \in alive /\ Event
  /\ \/ p \notin agents /\ agents' = agents \cup {p}
        /\ ours' = ours \cup {q \in alive : p \in Line(q)}
     \/ p \in agents /\ agents' = agents \ {p} /\ UNCHANGED ours
  /\ UNCHANGED <<alive, parent, above, reapers, used, reused, trackVars,
                 groupVars>>

\* PR_SET_CHILD_SUBREAPER; a subreaper stays one.
Subreap(p) ==
  /\ p \in alive \ reapers /\ Event /\ reapers' = reapers \cup {p}
  /\ UNCHANGED <<alive, parent, above, agents, ours, used, reused, trackVars,
                 groupVars>>

\* The nearest of the processes above p that adopts, or else init.
Adopts(r, p) == /\ r \in (above[p] \cap reapers) \cup {InitPid}
                /\ above[p] \cap reapers \subseteq Line(r)

\* A process ends, and its children are adopted.
End(p) ==
  /\ alive' = alive \ {p} /\ agents' = agents \ {p} /\ ours' = ours \ {p}
  /\ reapers' = reapers \ {p} /\ cgroup' = cgroup \ {p}
  /\ \E r \in Pids \cup {InitPid} :
       /\ Adopts(r, p)
       /\ parent' = [q \in Pids |-> IF parent[q] = p THEN r ELSE parent[q]]
       /\ above' = [q \in Pids |->
                      IF p \in above[q] THEN (above[q] \ Line(p)) \cup Line(r)
                                       ELSE above[q]]
  /\ UNCHANGED <<events, used, reused, trackVars, writes, troubles>>

Exit(p) == p \in alive /\ End(p) /\ UNCHANGED kills

-----------------------------------------------------------------------------
(* The tracker.                                                            *)

\* refresh_claude_pids: the cache forgets the pids that are not in /proc.
Refresh ==
  /\ roots' = agents
  /\ cache' = [p \in Pids |-> IF p \in alive THEN cache[p] ELSE Nobody]

\* The mutex of the tracker.
Free == walk.of = Nobody

\* Mutant: the loop begins with the parent.
LookUpFromParent(p) ==
  /\ Free /\ p \in alive
  /\ Refresh \/ UNCHANGED <<roots, cache>>
  /\ walk' = [of |-> p, mine |-> p \in ours, at |-> parent[p], turn |-> 0,
              misled |-> FALSE]
  /\ UNCHANGED <<procVars, groupVars>>

\* is_claude_descendant, of a process that has executed or opened a file: five
\* seconds have passed since the last snapshot or not.
LookUp(p) ==
  /\ Free /\ p \in alive
  /\ Refresh \/ UNCHANGED <<roots, cache>>
  /\ walk' = [of |-> p, mine |-> p \in ours, at |-> p, turn |-> 0,
              misled |-> FALSE]
  /\ UNCHANGED <<procVars, groupVars>>

\* ppid: what the cache has, or else what /proc has.
ppid(p) == IF cache[p] # Nobody THEN cache[p]
           ELSE IF p \in alive THEN parent[p] ELSE Nobody

\* What the loop answers where it stands.
Affirms == ~Free /\ walk.turn < MaxHops /\ walk.at \in roots
Denies  == /\ ~Free
           /\ \/ walk.turn = MaxHops
              \/ walk.at \notin roots
                 /\ IF walk.at = InitPid THEN TRUE ELSE ppid(walk.at) = Nobody

\* It has stood, or stands, at a pid that was another process's before.
Misled == walk.misled \/ walk.at \in reused

\* One turn: the answer, or one step up.
Climb ==
  /\ ~Free
  /\ IF Affirms \/ Denies THEN walk' = NoWalk /\ UNCHANGED cache
     ELSE LET up == ppid(walk.at)
          IN /\ cache' = [cache EXCEPT ![walk.at] = up]
             /\ walk' = [walk EXCEPT !.at = up, !.turn = @ + 1,
                                     !.misled = Misled]
  /\ UNCHANGED <<procVars, roots, groupVars>>

-----------------------------------------------------------------------------
(* The two watchers of main.rs.                                            *)

\* Mutant: all pids the tracker has heard of are written.
FirewallTickCache ==
  /\ Free /\ writes' = writes \cup {p \in used : cache[p] # Nobody}
  /\ UNCHANGED <<procVars, trackVars, cgroup, kills, troubles>>

\* Mutant: only what a refresh finds new is written.
FirewallTickNew ==
  /\ Free /\ Refresh /\ writes' = writes \cup (agents \ roots)
  /\ UNCHANGED <<procVars, walk, cgroup, kills, troubles>>

\* Every five seconds the roots the tracker has at that time are written.
FirewallTick ==
  /\ Free /\ writes' = writes \cup roots
  /\ UNCHANGED <<procVars, trackVars, cgroup, kills, troubles>>

\* Every five seconds the tracker is refreshed, and what is new is written.
RedirectTick ==
  /\ Free /\ Refresh /\ writes' = writes \cup (agents \ roots)
  /\ UNCHANGED <<procVars, walk, cgroup, kills, troubles>>

\* Mutant: a write that fails for want of the process is taken for a success.
TrackAnyway(p) ==
  /\ p \in writes /\ writes' = writes \ {p} /\ cgroup' = cgroup \cup {p}
  /\ UNCHANGED <<procVars, trackVars, kills, troubles>>

\* track_pids, one pid at a time: whatever process has it now, if one has.
Track(p) ==
  /\ p \in writes /\ writes' = writes \ {p}
  /\ \/ p \in alive /\ cgroup' = cgroup \cup {p} /\ UNCHANGED troubles
     \/ p \notin alive /\ UNCHANGED <<cgroup, troubles>>
     \/ /\ p \in alive /\ troubles < MaxTroubles /\ troubles' = troubles + 1
        /\ UNCHANGED cgroup
  /\ UNCHANGED <<procVars, trackVars, kills>>

-----------------------------------------------------------------------------
(* kill_agent of web_ui.rs.                                                *)

\* find_claude_pids looks at /proc for itself ...
FindAgents ==
  /\ kills = {} /\ kills' = agents /\ Event
  /\ UNCHANGED <<alive, parent, above, reapers, agents, ours, used, reused,
                 trackVars, writes, cgroup, troubles>>

\* ... and the pids are signalled one after the other; SIGTERM ends a process
\* or not, and does nothing if there is none.
Terminate(p) ==
  /\ p \in kills /\ kills' = kills \ {p}
  /\ \/ p \in alive /\ End(p)
     \/ UNCHANGED <<procVars, trackVars, writes, cgroup, troubles>>

-----------------------------------------------------------------------------
Next ==
  \/ \E p \in Pids : \/ \E q \in Pids : Fork(p, q)
                     \/ Start(p) \/ Exec(p) \/ Subreap(p) \/ Exit(p)
                     \/ LookUp(p) \/ Track(p) \/ Terminate(p)
  \/ Climb \/ FirewallTick \/ RedirectTick \/ FindAgents

Spec == Init /\ [][Next]_vars

\* A look-up goes on, a watcher goes on writing, and its turn comes however
\* often the mutex is taken for look-ups.
FairSpec ==
  /\ Spec /\ WF_vars(Climb) /\ SF_vars(FirewallTick)
  /\ \A p \in Pids : WF_vars(Track(p))

-----------------------------------------------------------------------------
\* A look-up affirms only a process that comes from an agent, whatever forks,
\* ends and is adopted meanwhile, and denies one that has an agent of the
\* snapshot above it only because it has made all its turns, or because it came
\* to a process that has ended (by a cached parent, or while it stood there) and
\* not to the one that adopted the children: unless it met a reused pid.
LookUpTruthful ==
  /\ Affirms /\ ~Misled => walk.mine
  /\ Denies /\ ~Misled /\ walk.of \in alive \ reused
       => \/ Line(walk.of) \cap roots = {}
          \/ walk.turn = MaxHops \/ walk.at \in Pids \ alive

\* As long as no pid is reused (nothing in the code looks whether one has been)
\* the cgroup holds only processes that come from an agent, however late a
\* watcher writes what it read, and only such a process is signalled, however
\* late after the look at /proc.
ConfinedAreOurs == reused = {} => cgroup \cup (kills \cap alive) \subseteq ours

\* What the tracker has seen to be an agent gets into the cgroup, if it stays,
\* though a look-up that refreshes the tracker hides it from the watcher that
\* writes only what is new, and a write may fail.
SeenIsCovered ==
  \A p \in Pids :
    p \in roots ~> p \in cgroup \/ p \notin roots \/ p \notin alive
=============================================================================
