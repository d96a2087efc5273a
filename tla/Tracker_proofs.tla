---------------------------- MODULE Tracker_proofs ----------------------------
(* Proofs about the tracker and the cgroup, for any pids, any length of the   *)
(* chains of parents, any subreapers, any number of turns of a look-up and    *)
(* any number of events and failed writes.                                    *)
EXTENDS Tracker, TLAPS

-----------------------------------------------------------------------------
(* Types, and who is above whom.                                           *)

\* What is above a process is its parent and what is above that ...
Stacked ==
  \A x \in Pids : /\ x \notin above[x] /\ parent[x] \in alive \cup {InitPid}
                  /\ above[x] = Line(parent[x])

\* ... with each of them all that is above it ...
Nested == \A x \in Pids : \A y \in above[x] : above[y] \subseteq above[x]

\* ... one above the other.
Ordered ==
  \A x \in Pids : \A y, z \in above[x] :
    y = z \/ y \in above[z] \/ z \in above[y]

Lines == Stacked /\ Nested /\ Ordered

TypeInv == TypeOK /\ Lines

\* The state in which the daemon starts has them.
LEMMA InitTypeInv == Init => TypeInv
  BY TrackerAssumption
  DEF Init, TypeInv, TypeOK, Lines, Stacked, Nested, Ordered, Line

\* What a birth changes: the new process is above none.
LEMMA BornLines ==
  ASSUME TypeInv, NEW q \in Pids, NEW p \in alive \cup {InitPid}, Born(q, p)
  PROVE  /\ above'[q] = Line(p) /\ parent'[q] = p
         /\ \A x \in Pids :
              /\ q \notin above[x] /\ q \notin Line(p)
              /\ x # q => above'[x] = above[x] /\ parent'[x] = parent[x]
         /\ \A x \in Pids : \A y \in above'[x] : above'[y] = above[y]
         /\ Line(p) \subseteq alive
         /\ above' \in [Pids -> SUBSET alive]
         /\ parent' \in [Pids -> Pids \cup {InitPid}]
  <1> USE TrackerAssumption
  <1>1. q \notin alive /\ p \in Pids \cup {InitPid}
    BY DEF Born, TypeInv, TypeOK
  <1>2. Line(p) \subseteq alive
    BY <1>1 DEF Line, TypeInv, TypeOK
  <1>3. above'[q] = Line(p) /\ parent'[q] = p
    BY DEF Born, TypeInv, TypeOK
  <1>4. \A x \in Pids : q \notin above[x] /\ above[x] \subseteq alive
    BY <1>1 DEF TypeInv, TypeOK
  <1>5. \A x \in Pids : x # q => above'[x] = above[x] /\ parent'[x] = parent[x]
    BY DEF Born, TypeInv, TypeOK
  <1>6. /\ above' \in [Pids -> SUBSET alive]
        /\ parent' \in [Pids -> Pids \cup {InitPid}]
    BY <1>1, <1>2 DEF Born, TypeInv, TypeOK
  <1>7. ASSUME NEW x \in Pids, NEW y \in above'[x] PROVE above'[y] = above[y]
    <2>1. y \in alive /\ y \in Pids
      BY <1>6 DEF TypeInv, TypeOK
    <2> QED
      BY <1>1, <1>5, <2>1
  <1> QED
    BY <1>1, <1>2, <1>3, <1>4, <1>5, <1>6, <1>7

\* It leaves processes above each other as they should be.
LEMMA BornKeepsLines ==
  ASSUME TypeInv, NEW q \in Pids, NEW p \in alive \cup {InitPid}, Born(q, p)
  PROVE  Lines'
  <1> USE TrackerAssumption
  <1> Lines /\ TypeOK
    BY DEF TypeInv
  <1>1. alive' = alive \cup {q} /\ q \notin alive
    BY DEF Born
  <1>2. p = InitPid \/ (p \in Pids /\ p \in alive /\ p # q)
    BY <1>1 DEF TypeOK
  <1>3. Line(p)' = Line(p)
    BY <1>2, BornLines DEF Line
  <1>4. Stacked'
    <2> SUFFICES ASSUME NEW x \in Pids
                 PROVE  /\ x \notin above'[x]
                        /\ parent'[x] \in alive' \cup {InitPid}
                        /\ above'[x] = Line(parent[x])'
      BY DEF Stacked
    <2>1. CASE x = q
      BY <1>1, <1>3, <2>1, BornLines
    <2>2. CASE x # q
      <3>1. above'[x] = above[x] /\ parent'[x] = parent[x]
        BY <2>2, BornLines
      <3>2. parent[x] \in alive \cup {InitPid} /\ parent[x] # q
        BY <1>1 DEF Lines, Stacked, TypeOK
      <3>3. parent[x] \in Pids => above'[parent[x]] = above[parent[x]]
        BY <3>2, BornLines
      <3>4. Line(parent[x])' = Line(parent[x])
        BY <3>1, <3>2, <3>3 DEF Line, TypeOK
      <3> QED
        BY <1>1, <3>1, <3>2, <3>4 DEF Lines, Stacked
    <2> QED
      BY <2>1, <2>2
  <1>5. \A y \in Line(p) : above[y] \subseteq Line(p) /\ y \in Pids
    BY <1>2 DEF Line, Lines, Nested, TypeOK
  <1>6. \A y, z \in Line(p) : y = z \/ y \in above[z] \/ z \in above[y]
    BY <1>2 DEF Line, Lines, Ordered
  <1>7. Nested'
    <2> SUFFICES ASSUME NEW x \in Pids, NEW y \in above'[x]
                 PROVE  above'[y] \subseteq above'[x]
      BY DEF Nested
    <2> above'[y] = above[y]
      BY BornLines
    <2>1. CASE x = q
      BY <1>5, <2>1, BornLines
    <2>2. CASE x # q
      BY <2>2, BornLines DEF Lines, Nested
    <2> QED
      BY <2>1, <2>2
  <1>8. Ordered'
    <2> SUFFICES ASSUME NEW x \in Pids, NEW y \in above'[x], NEW z \in above'[x]
                 PROVE  y = z \/ y \in above'[z] \/ z \in above'[y]
      BY DEF Ordered
    <2> above'[y] = above[y] /\ above'[z] = above[z]
      BY BornLines
    <2>1. CASE x = q
      BY <1>6, <2>1, BornLines
    <2>2. CASE x # q
      BY <2>2, BornLines DEF Lines, Ordered
    <2> QED
      BY <2>1, <2>2
  <1> QED
    BY <1>4, <1>7, <1>8 DEF Lines

\* What an end changes: r adopts, and p is above none.
Adopted(p, r) ==
  /\ r = InitPid \/ (r \in Pids /\ r \in above[p] /\ r \in reapers)
  /\ r # p /\ p \notin Line(r) /\ Line(r) \subseteq above[p]
  /\ above[p] \cap reapers \subseteq Line(r)
  /\ \A x \in Pids : /\ above'[x] \subseteq above[x] /\ p \notin above'[x]
                     /\ p \notin above[x] => above'[x] = above[x]
                     /\ p \in above[x]
                          => above'[x] = (above[x] \ Line(p)) \cup Line(r)
                     /\ parent'[x] = IF parent[x] = p THEN r ELSE parent[x]
  /\ \A x \in Line(r) : above'[x] = above[x] /\ x \in Pids

\* It does.
LEMMA EndLines ==
  ASSUME TypeInv, NEW p \in Pids, End(p)
  PROVE  \E r \in Pids \cup {InitPid} : Adopted(p, r)
  <1> USE TrackerAssumption
  <1> Lines /\ TypeOK
    BY DEF TypeInv
  <1>1. PICK r \in Pids \cup {InitPid} :
          /\ Adopts(r, p)
          /\ parent' = [q \in Pids |-> IF parent[q] = p THEN r ELSE parent[q]]
          /\ above' = [q \in Pids |->
                         IF p \in above[q]
                           THEN (above[q] \ Line(p)) \cup Line(r)
                           ELSE above[q]]
    BY DEF End
  <1>2. r = InitPid \/ (r \in Pids /\ r \in above[p] /\ r \in reapers)
    BY <1>1 DEF Adopts
  <1>3. p \notin above[p]
    BY DEF Lines, Stacked
  <1>4. Line(r) \subseteq above[p]
    BY <1>2 DEF Line, Lines, Nested
  <1>5. above[p] \cap reapers \subseteq Line(r)
    BY <1>1 DEF Adopts
  <1>6. \A x \in Pids : p \in above[x] => Line(r) \subseteq above[x]
    BY <1>4 DEF Lines, Nested
  <1>7. p \in Line(p) /\ above[p] \subseteq Line(p)
    BY DEF Line
  <1>8. ASSUME NEW x \in Pids
        PROVE  /\ above'[x] \subseteq above[x] /\ p \notin above'[x]
               /\ p \notin above[x] => above'[x] = above[x]
               /\ p \in above[x]
                    => above'[x] = (above[x] \ Line(p)) \cup Line(r)
               /\ parent'[x] = IF parent[x] = p THEN r ELSE parent[x]
    <2>1. above'[x] = IF p \in above[x] THEN (above[x] \ Line(p)) \cup Line(r)
                                        ELSE above[x]
      BY <1>1
    <2>2. parent'[x] = IF parent[x] = p THEN r ELSE parent[x]
      BY <1>1
    <2> QED
      BY <1>3, <1>4, <1>6, <1>7, <2>1, <2>2
  <1>9. ASSUME NEW x \in Line(r) PROVE above'[x] = above[x] /\ x \in Pids
    <2>1. x \in above[p] /\ x \in Pids
      BY <1>4 DEF TypeOK
    <2>2. p \notin above[x]
      BY <1>3, <2>1 DEF Lines, Nested
    <2> QED
      BY <1>8, <2>1, <2>2
  <1>10. r # p /\ p \notin Line(r)
    BY <1>2, <1>3, <1>4
  <1> QED
    BY <1>2, <1>4, <1>5, <1>8, <1>9, <1>10 DEF Adopted

\* It leaves the others above each other as they should be.
LEMMA EndKeepsLines ==
  ASSUME TypeInv, NEW p \in Pids, End(p)
  PROVE  above' \in [Pids -> SUBSET alive'] /\ Lines'
  <1> USE TrackerAssumption
  <1> Lines /\ TypeOK
    BY DEF TypeInv
  <1>1. PICK r \in Pids \cup {InitPid} : Adopted(p, r)
    BY EndLines
  <1>2. alive' = alive \ {p}
    BY DEF End
  <1>3. above' \in [Pids -> SUBSET alive']
    <2>1. \E f : above' = [q \in Pids |-> f[q]]
      <3>1. PICK s \in Pids \cup {InitPid} :
              above' = [q \in Pids |->
                         IF p \in above[q]
                           THEN (above[q] \ Line(p)) \cup Line(s)
                           ELSE above[q]]
        BY DEF End
      <3> DEFINE f == [q \in Pids |->
                         IF p \in above[q]
                           THEN (above[q] \ Line(p)) \cup Line(s)
                           ELSE above[q]]
      <3>2. above' = [q \in Pids |-> f[q]]
        BY <3>1
      <3> QED
        BY <3>2
    <2>2. \A x \in Pids : above'[x] \subseteq alive'
      BY <1>1, <1>2 DEF Adopted, TypeOK
    <2> QED
      BY <2>1, <2>2
  <1>4. ASSUME NEW x \in Pids, NEW c \in Pids, c # p, above[x] = Line(c)
        PROVE  above'[x] = Line(c)'
    <2>1. Line(c) = {c} \cup above[c] /\ Line(c)' = {c} \cup above'[c]
      BY DEF Line
    <2>2. CASE p \notin above[c]
      BY <1>1, <1>4, <2>1, <2>2 DEF Adopted
    <2>3. CASE p \in above[c]
      <3>1. c \notin Line(p)
        BY <1>4, <2>3 DEF Line, Lines, Stacked, Nested
      <3>2. above'[x] = (({c} \cup above[c]) \ Line(p)) \cup Line(r)
        BY <1>1, <1>4, <2>1, <2>3 DEF Adopted
      <3>3. above'[c] = (above[c] \ Line(p)) \cup Line(r)
        BY <1>1, <2>3 DEF Adopted
      <3> QED
        BY <2>1, <3>1, <3>2, <3>3
    <2> QED
      BY <2>2, <2>3
  <1>5. Stacked'
    <2> SUFFICES ASSUME NEW x \in Pids
                 PROVE  /\ x \notin above'[x]
                        /\ parent'[x] \in alive' \cup {InitPid}
                        /\ above'[x] = Line(parent[x])'
      BY DEF Stacked
    <2>1. /\ x \notin above[x] /\ parent[x] \in alive \cup {InitPid}
          /\ above[x] = Line(parent[x])
      BY DEF Lines, Stacked
    <2>2. x \notin above'[x]
      BY <1>1, <2>1 DEF Adopted
    <2>3. CASE parent[x] = p
      <3>1. parent'[x] = r
        BY <1>1, <2>3 DEF Adopted
      <3>2. above'[x] = Line(r)
        <4>1. p \in Line(p) /\ above[x] = Line(p)
          BY <2>1, <2>3 DEF Line
        <4>2. above'[x] = (above[x] \ Line(p)) \cup Line(r)
          BY <1>1, <4>1 DEF Adopted
        <4> QED
          BY <4>1, <4>2
      <3>3. Line(r)' = Line(r)
        BY <1>1 DEF Adopted, Line
      <3>4. r \in alive' \cup {InitPid}
        BY <1>1, <1>2 DEF Adopted, TypeOK
      <3> QED
        BY <2>2, <3>1, <3>2, <3>3, <3>4
    <2>4. CASE parent[x] = InitPid
      <3>1. parent'[x] = InitPid /\ above[x] = {}
        BY <1>1, <2>1, <2>4 DEF Adopted, Line
      <3>2. above'[x] = {}
        BY <1>1, <3>1 DEF Adopted
      <3> QED
        BY <2>2, <3>1, <3>2 DEF Line
    <2>5. CASE parent[x] # p /\ parent[x] # InitPid
      <3>1. parent'[x] = parent[x] /\ parent[x] \in Pids /\ parent[x] \in alive'
        BY <1>1, <1>2, <2>1, <2>5 DEF Adopted, TypeOK
      <3>2. above'[x] = Line(parent[x])'
        BY <1>4, <2>1, <2>5, <3>1 DEF Line
      <3> QED
        BY <2>2, <3>1, <3>2
    <2> QED
      BY <2>3, <2>4, <2>5
  <1>6. ASSUME NEW x \in Pids, NEW y \in above'[x], NEW z \in above[y],
               p \in above[x] => z \notin Line(p) \/ z \in Line(r)
        PROVE  z \in above'[x]
    <2>1. y \in above[x] /\ y \in Pids /\ z \in above[x]
      BY <1>1 DEF Adopted, Lines, Nested, TypeOK
    <2> QED
      BY <1>1, <1>6, <2>1 DEF Adopted
  <1>7. Nested'
    <2> SUFFICES ASSUME NEW x \in Pids, NEW y \in above'[x], NEW z \in above'[y]
                 PROVE  z \in above'[x]
      BY DEF Nested
    <2>1. y \in above[x] /\ y \in Pids
      BY <1>1 DEF Adopted, TypeOK
    <2>2. z \in above[y]
      BY <1>1, <2>1 DEF Adopted
    <2>3. ASSUME p \in above[x], z \in Line(p) PROVE z \in Line(r)
      <3>1. CASE p \in above[y]
        BY <1>1, <2>1, <2>3, <3>1 DEF Adopted
      <3>2. CASE p \notin above[y]
        <4>1. y \in above[p]
          BY <1>1, <2>1, <2>3, <3>2 DEF Lines, Ordered, Adopted
        <4>2. y \in Line(r)
          BY <1>1, <2>3, <4>1 DEF Adopted, Line
        <4> QED
          BY <1>1, <2>2, <4>2 DEF Line, Lines, Nested
      <3> QED
        BY <3>1, <3>2
    <2> QED
      BY <1>6, <2>2, <2>3
  <1>8. Ordered'
    <2> SUFFICES ASSUME NEW x \in Pids, NEW y \in above'[x],
                        NEW z \in above'[x], z \in above[y]
                 PROVE  z \in above'[y]
      <3>1. ASSUME NEW x \in Pids, NEW y \in above'[x], NEW z \in above'[x]
            PROVE  y = z \/ y \in above[z] \/ z \in above[y]
        BY <1>1 DEF Adopted, Lines, Ordered
      <3> QED
        BY <3>1 DEF Ordered
    <2>1. y \in above[x] /\ y \in Pids
      BY <1>1 DEF Adopted, TypeOK
    <2>2. CASE p \notin above[y]
      BY <1>1, <2>1, <2>2 DEF Adopted
    <2>3. CASE p \in above[y]
      <3>1. p \in above[x]
        BY <2>1, <2>3 DEF Lines, Nested
      <3>2. z \notin Line(p) \/ z \in Line(r)
        BY <1>1, <3>1 DEF Adopted
      <3> QED
        BY <1>1, <2>1, <2>3, <3>2 DEF Adopted
    <2> QED
      BY <2>2, <2>3
  <1> QED
    BY <1>3, <1>5, <1>7, <1>8 DEF Lines

\* Every step leaves the processes above each other as they should be, and the
\* sets of processes with those that are there.
LEMMA NextLines ==
  ASSUME TypeInv, [Next]_vars
  PROVE  above' \in [Pids -> SUBSET alive'] /\ Lines'
  <1> DEFINE Placed == above' \in [Pids -> SUBSET alive'] /\ Lines'
  <1> SUFFICES Placed
    OBVIOUS
  <1>0. ASSUME UNCHANGED <<alive, parent, above>> PROVE Placed
    BY <1>0 DEF TypeInv, TypeOK, Lines, Stacked, Nested, Ordered, Line
  <1>1. ASSUME NEW q \in Pids, NEW p \in alive \cup {InitPid}, Born(q, p)
        PROVE  Placed
    <2>1. above' \in [Pids -> SUBSET alive]
      BY <1>1, BornLines
    <2>2. alive \subseteq alive'
      BY <1>1 DEF Born
    <2> QED
      BY <1>1, <2>1, <2>2, BornKeepsLines
  <1>2. ASSUME NEW p \in Pids, End(p) PROVE Placed
    BY <1>2, EndKeepsLines
  <1>3. ASSUME UNCHANGED procVars PROVE Placed
    BY <1>0, <1>3 DEF procVars
  <1> HIDE DEF Placed
  <1>4. ASSUME NEW p \in Pids, NEW q \in Pids, Fork(p, q) PROVE Placed
    BY <1>1, <1>4 DEF Fork
  <1>5. ASSUME NEW p \in Pids,
               Start(p) \/ Exec(p) \/ Subreap(p) \/ Exit(p) \/ LookUp(p)
                 \/ Track(p) \/ Terminate(p)
        PROVE  Placed
    BY <1>0, <1>1, <1>2, <1>3, <1>5
    DEF Start, Exec, Subreap, Exit, LookUp, Track, Terminate
  <1>6. CASE Climb \/ FirewallTick \/ RedirectTick \/ FindAgents
    BY <1>0, <1>3, <1>6 DEF Climb, FirewallTick, RedirectTick, FindAgents
  <1>7. CASE UNCHANGED vars
    BY <1>3, <1>7 DEF vars
  <1> QED
    BY <1>4, <1>5, <1>6, <1>7 DEF Next

\* A birth takes a pid that is free and counts as an event.
LEMMA BornType ==
  ASSUME TypeInv, NEW q \in Pids, NEW p \in alive \cup {InitPid}, Born(q, p)
  PROVE  /\ alive' \subseteq used' /\ used' \subseteq Pids
         /\ reused' \subseteq used' /\ reapers' \subseteq alive'
         /\ parent' \in [Pids -> Pids \cup {InitPid}]
         /\ events' \in 0..MaxEvents
         /\ alive \subseteq alive' /\ used \subseteq used' /\ q \in alive'
  <1>1. parent' \in [Pids -> Pids \cup {InitPid}]
    BY BornLines
  <1> QED
    BY <1>1, TrackerAssumption DEF TypeInv, TypeOK, Born, Event

\* An end leaves every set with the processes that go on.
LEMMA EndType ==
  ASSUME TypeInv, NEW p \in Pids, End(p), kills' \subseteq kills
  PROVE  TypeOK'
  <1>1. above' \in [Pids -> SUBSET alive']
    BY EndKeepsLines
  <1>2. parent' \in [Pids -> Pids \cup {InitPid}]
    BY DEF End, TypeInv, TypeOK
  <1> QED
    BY <1>1, <1>2, TrackerAssumption DEF TypeInv, TypeOK, End, trackVars, Walks

\* A refresh leaves the snapshot and the cache well typed.
LEMMA RefreshType ==
  ASSUME TypeOK, Refresh
  PROVE  /\ roots' \subseteq used
         /\ cache' \in [Pids -> Pids \cup {InitPid, Nobody}]
  BY DEF TypeOK, Refresh

\* One turn of a look-up stays among the pids and within the number of turns.
LEMMA ClimbType ==
  ASSUME TypeOK, Climb
  PROVE  /\ walk' \in Walks \cup {NoWalk}
         /\ cache' \in [Pids -> Pids \cup {InitPid, Nobody}]
  <1>1. CASE Affirms \/ Denies
    BY <1>1 DEF Climb, TypeOK
  <1>2. CASE ~(Affirms \/ Denies)
    <2>1. ~Free /\ walk \in Walks
      BY DEF Climb, TypeOK, Free, NoWalk
    <2>2. walk.at \in Pids \cup {InitPid} /\ walk.turn \in 0..MaxHops
          /\ walk.misled \in BOOLEAN
      BY <2>1 DEF Walks
    <2>3. walk.turn # MaxHops /\ walk.turn < MaxHops
      BY <1>2, <2>1, <2>2, TrackerAssumption DEF Denies
    <2>4. walk.at \notin roots
      BY <1>2, <2>1, <2>3 DEF Affirms
    <2>5. walk.at \in Pids /\ ppid(walk.at) # Nobody
      BY <1>2, <2>1, <2>2, <2>4 DEF Denies
    <2>6. ppid(walk.at) \in Pids \cup {InitPid}
      BY <2>5 DEF ppid, TypeOK
    <2>7. cache' = [cache EXCEPT ![walk.at] = ppid(walk.at)]
          /\ walk' = [walk EXCEPT !.at = ppid(walk.at), !.turn = @ + 1,
                                  !.misled = Misled]
      BY <1>2 DEF Climb
    <2>8. walk.turn + 1 \in 0..MaxHops
      BY <2>2, <2>3, TrackerAssumption
    <2>9. Misled \in BOOLEAN
      BY <2>2 DEF Misled
    <2>10. walk' \in Walks
      BY <2>1, <2>6, <2>7, <2>8, <2>9 DEF Walks
    <2> QED
      BY <2>6, <2>7, <2>10 DEF TypeOK
  <1> QED
    BY <1>1, <1>2

\* Every step keeps the types.
LEMMA NextTypeInv ==
  ASSUME TypeInv, [Next]_vars
  PROVE  TypeInv'
  <1> USE TrackerAssumption
  <1> TypeOK
    BY DEF TypeInv
  <1>0. above' \in [Pids -> SUBSET alive'] /\ Lines'
    BY NextLines
  <1> SUFFICES TypeOK'
    BY <1>0 DEF TypeInv
  <1>1. ASSUME NEW p \in Pids, NEW q \in Pids, Fork(p, q) PROVE TypeOK'
    <2>1. Born(q, p) /\ p \in alive \cup {InitPid}
      BY <1>1 DEF Fork
    <2>2. q \in alive' /\ alive \subseteq alive'
      BY <2>1, BornType
    <2>3. /\ agents' \subseteq ours' /\ ours' \subseteq alive'
          /\ cgroup' \subseteq alive'
      BY <1>1, <2>2 DEF Fork, TypeOK
    <2> QED
      BY <1>0, <1>1, <2>1, <2>3, BornType DEF Fork, TypeOK, trackVars
  <1>2. ASSUME NEW q \in Pids, Start(q) PROVE TypeOK'
    <2>1. Born(q, InitPid)
      BY <1>2 DEF Start
    <2> QED
      BY <1>0, <1>2, <2>1, BornType DEF Start, TypeOK, trackVars, groupVars
  <1>3. ASSUME NEW p \in Pids, Exec(p) PROVE TypeOK'
    <2>1. agents' \subseteq ours' /\ ours' \subseteq alive'
      <3>1. p \in Line(p) /\ p \in alive /\ alive' = alive
        BY <1>3 DEF Exec, Line
      <3> QED
        BY <1>3, <3>1 DEF Exec, TypeOK
    <2>2. events' \in 0..MaxEvents
      BY <1>3 DEF Exec, TypeOK, Event
    <2> QED
      BY <1>3, <2>1, <2>2 DEF Exec, TypeOK, trackVars, groupVars
  <1>13. ASSUME NEW p \in Pids, Subreap(p) PROVE TypeOK'
    <2>1. events' \in 0..MaxEvents
      BY <1>13 DEF Subreap, TypeOK, Event
    <2> QED
      BY <1>13, <2>1 DEF Subreap, TypeOK, trackVars, groupVars
  <1>4. ASSUME NEW p \in Pids, Exit(p) PROVE TypeOK'
    BY <1>4, EndType DEF Exit
  <1>5. ASSUME NEW p \in Pids, LookUp(p) PROVE TypeOK'
    <2>1. /\ roots' \subseteq used
          /\ cache' \in [Pids -> Pids \cup {InitPid, Nobody}]
      BY <1>5, RefreshType DEF LookUp, TypeOK
    <2>2. walk' \in Walks
      BY <1>5 DEF LookUp, Walks
    <2> QED
      BY <1>5, <2>1, <2>2 DEF LookUp, TypeOK, procVars, groupVars
  <1>6. ASSUME NEW p \in Pids, Track(p) PROVE TypeOK'
    BY <1>6 DEF Track, TypeOK, procVars, trackVars
  <1>7. ASSUME NEW p \in Pids, Terminate(p) PROVE TypeOK'
    <2>1. CASE End(p)
      BY <1>7, <2>1, EndType DEF Terminate
    <2>2. CASE UNCHANGED <<procVars, trackVars, writes, cgroup, troubles>>
      BY <1>7, <2>2 DEF Terminate, TypeOK, procVars, trackVars
    <2> QED
      BY <1>7, <2>1, <2>2 DEF Terminate
  <1>8. CASE Climb
    BY <1>8, ClimbType DEF Climb, TypeOK, procVars, groupVars
  <1>9. CASE FirewallTick
    BY <1>9 DEF FirewallTick, TypeOK, procVars, trackVars
  <1>10. CASE RedirectTick
    BY <1>10, RefreshType DEF RedirectTick, TypeOK, procVars
  <1>11. CASE FindAgents
    BY <1>11 DEF FindAgents, TypeOK, Event, trackVars
  <1>12. CASE UNCHANGED vars
    BY <1>12 DEF vars, procVars, trackVars, groupVars, TypeOK
  <1> QED
    BY <1>1, <1>2, <1>3, <1>4, <1>5, <1>6, <1>7, <1>8, <1>9, <1>10, <1>11,
       <1>12, <1>13 DEF Next

\* Every variable keeps its type: a look-up ends within its number of turns at a
\* pid it can go on from, and the cgroup has living members only.
THEOREM TypeCorrect == Spec => []TypeOK
  <1>1. TypeInv => TypeOK
    BY DEF TypeInv
  <1> QED
    BY InitTypeInv, NextTypeInv, <1>1, PTL DEF Spec


-----------------------------------------------------------------------------
(* Who is confined and who is signalled.                                   *)

\* A pid that any part of the daemon still holds is that of an agent's process,
\* if it is that of a process at all.
HeldAreOurs ==
  reused = {} =>
    (roots \cup writes \cup kills \cup cgroup) \cap alive \subseteq ours

IInv == TypeInv /\ HeldAreOurs

\* Only the first agent is known when the daemon starts.
LEMMA InitIInv == Init => IInv
  BY InitTypeInv DEF Init, IInv, HeldAreOurs

\* A process that begins is held by nobody unless it has a pid of before.
LEMMA BornHeld ==
  ASSUME IInv, NEW q \in Pids, NEW p \in alive \cup {InitPid}, Born(q, p),
         reused' = {}
  PROVE  /\ reused = {} /\ q \notin roots \cup writes \cup kills \cup cgroup
         /\ alive' = alive \cup {q}
  BY DEF IInv, TypeInv, TypeOK, Born

\* A process that ends is nobody's.
LEMMA EndHeld ==
  ASSUME IInv, NEW p \in Pids, End(p), kills' \subseteq kills
  PROVE  HeldAreOurs'
  BY DEF IInv, TypeInv, TypeOK, HeldAreOurs, End, trackVars

\* Every step keeps it.
LEMMA NextIInv ==
  ASSUME IInv, [Next]_vars
  PROVE  IInv'
  <1> TypeOK /\ TypeInv'
    BY NextTypeInv DEF IInv, TypeInv
  <1> SUFFICES HeldAreOurs'
    BY DEF IInv
  <1>1. ASSUME NEW p \in Pids, NEW q \in Pids, Fork(p, q) PROVE HeldAreOurs'
    <2> SUFFICES ASSUME reused' = {}
                 PROVE  (roots \cup writes \cup kills \cup cgroup') \cap alive'
                          \subseteq ours'
      BY <1>1 DEF HeldAreOurs, Fork, trackVars
    <2>1. /\ reused = {} /\ q \notin roots \cup writes \cup kills \cup cgroup
          /\ alive' = alive \cup {q}
      BY <1>1, BornHeld DEF Fork
    <2>2. p \in cgroup => p \in ours
      BY <2>1 DEF IInv, HeldAreOurs, TypeOK
    <2> QED
      BY <1>1, <2>1, <2>2 DEF Fork, IInv, HeldAreOurs
  <1>2. ASSUME NEW q \in Pids, Start(q) PROVE HeldAreOurs'
    <2> SUFFICES ASSUME reused' = {}
                 PROVE  (roots \cup writes \cup kills \cup cgroup) \cap alive'
                           \subseteq ours
      BY <1>2 DEF HeldAreOurs, Start, trackVars, groupVars
    <2>1. /\ reused = {} /\ q \notin roots \cup writes \cup kills \cup cgroup
          /\ alive' = alive \cup {q}
      BY <1>2, BornHeld DEF Start
    <2> QED
      BY <2>1 DEF IInv, HeldAreOurs
  <1>3. ASSUME NEW p \in Pids, Exec(p) PROVE HeldAreOurs'
    BY <1>3 DEF Exec, IInv, HeldAreOurs, trackVars, groupVars
  <1>13. ASSUME NEW p \in Pids, Subreap(p) PROVE HeldAreOurs'
    BY <1>13 DEF Subreap, IInv, HeldAreOurs, trackVars, groupVars
  <1>4. ASSUME NEW p \in Pids, Exit(p) PROVE HeldAreOurs'
    BY <1>4, EndHeld DEF Exit
  <1>5. ASSUME NEW p \in Pids, LookUp(p) PROVE HeldAreOurs'
    BY <1>5 DEF LookUp, Refresh, IInv, HeldAreOurs, TypeOK, procVars, groupVars
  <1>6. ASSUME NEW p \in Pids, Track(p) PROVE HeldAreOurs'
    BY <1>6 DEF Track, IInv, HeldAreOurs, procVars, trackVars
  <1>7. ASSUME NEW p \in Pids, Terminate(p) PROVE HeldAreOurs'
    <2>1. CASE End(p)
      BY <1>7, <2>1, EndHeld DEF Terminate
    <2>2. CASE UNCHANGED <<procVars, trackVars, writes, cgroup, troubles>>
      BY <1>7, <2>2 DEF Terminate, IInv, HeldAreOurs, procVars, trackVars
    <2> QED
      BY <1>7, <2>1, <2>2 DEF Terminate
  <1>8. CASE Climb
    BY <1>8 DEF Climb, IInv, HeldAreOurs, procVars, groupVars
  <1>9. CASE FirewallTick
    BY <1>9 DEF FirewallTick, IInv, HeldAreOurs, procVars, trackVars
  <1>10. CASE RedirectTick
    BY <1>10 DEF RedirectTick, Refresh, IInv, HeldAreOurs, TypeOK, procVars
  <1>11. CASE FindAgents
    BY <1>11 DEF FindAgents, IInv, HeldAreOurs, TypeOK, trackVars
  <1>12. CASE UNCHANGED vars
    BY <1>12 DEF vars, procVars, trackVars, groupVars, IInv, HeldAreOurs
  <1> QED
    BY <1>1, <1>2, <1>3, <1>4, <1>5, <1>6, <1>7, <1>8, <1>9, <1>10, <1>11,
       <1>12, <1>13 DEF Next

\* As long as no pid has been given out twice, the cgroup holds, and kill_agent
\* signals, only processes that come from an agent, for any number of processes
\* and however late the writes and the signals.
THEOREM Confined_AreOurs == Spec => []ConfinedAreOurs
  <1>1. IInv => ConfinedAreOurs
    BY DEF IInv, TypeInv, TypeOK, HeldAreOurs, ConfinedAreOurs
  <1> QED
    BY InitIInv, NextIInv, <1>1, PTL DEF Spec


-----------------------------------------------------------------------------
(* The inductive invariant of the look-up.                                 *)

\* What has something of an agent above it is ours.
OursBelow == \A x \in alive : above[x] \cap ours # {} => x \in ours

\* Only pids that have been given out are in the cache.
CachedUsed ==
  \A x \in Pids : cache[x] # Nobody
                    => x \in used /\ cache[x] \in used \cup {InitPid}

\* All that is above a process is the cached parent or above that: if it has
\* ended, another one adopted its children.
CacheAbove ==
  \A x \in used \ reused :
    /\ cache[x] = InitPid => above[x] = {}
    /\ cache[x] \in Pids \ reused
         => /\ above[x] \subseteq Line(cache[x])
            /\ parent[x] \in {cache[x], InitPid} \cup reapers

\* A cached parent that goes on is the parent.
CacheTrue ==
  \A x \in used \ reused : cache[x] \in alive \ reused => parent[x] = cache[x]

Ways == OursBelow /\ CachedUsed /\ CacheAbove /\ CacheTrue

\* From the processes in S no look-up comes to an agent of the snapshot, unless
\* by a reused pid ...
Unreached(S) ==
  /\ S \subseteq used /\ alive \ ours \subseteq S
  /\ \A x \in (S \cap alive) \ reused : above[x] \subseteq S \cup reused
  /\ \A x \in S \ reused : cache[x] \in S \cup reused \cup {InitPid, Nobody}
  /\ S \cap roots \subseteq reused

\* ... and one of what is not ours stands at one of them.
Outside(S) ==
  /\ Unreached(S)
  /\ ~Free /\ ~Misled /\ ~walk.mine => walk.at \in S \cup {InitPid}

\* The agents of the snapshot that are, or are above, the process looked up.
Sought == Line(walk.of) \cap roots

\* A look-up has none of them behind it; and if one that is above where it
\* stands ends, its children are adopted below them.
WalkSound ==
  /\ ~Free => walk.of \in used /\ walk.at \in used \cup {InitPid}
  /\ ~Free /\ ~Misled /\ walk.of \in alive \ reused =>
       /\ Sought \subseteq Line(walk.at)
       /\ walk.at \in Pids =>
            \A p \in above[walk.at] \ Line(walk.of) :
              \A z \in Sought \cap above[p] :
                \E m \in reapers \cap above[p] : z \in Line(m)

TruthInv == TypeInv /\ Ways /\ (\E S \in SUBSET Pids : Outside(S)) /\ WalkSound

\* At first the daemon knows one agent and looks nothing up.
LEMMA InitTruth == Init => TruthInv
  <1> SUFFICES ASSUME Init PROVE TruthInv
    OBVIOUS
  <1>1. TypeInv
    BY InitTypeInv
  <1>2. Ways
    BY TrackerAssumption
    DEF Init, Ways, OursBelow, CachedUsed, CacheAbove, CacheTrue
  <1>3. Free
    BY DEF Init, Free, NoWalk
  <1>4. Outside({})
    BY <1>3 DEF Init, Outside, Unreached
  <1>5. WalkSound
    BY <1>3 DEF WalkSound
  <1> QED
    BY <1>1, <1>2, <1>4, <1>5 DEF TruthInv

\* What any step may rely on.
LEMMA TruthFacts ==
  ASSUME TruthInv
  PROVE  /\ TypeInv /\ TypeOK /\ Lines /\ Stacked /\ Nested /\ Ordered
         /\ OursBelow /\ CachedUsed /\ CacheAbove /\ CacheTrue /\ WalkSound
         /\ InitPid \notin Pids /\ Nobody \notin Pids \cup {InitPid}
         /\ \A x \in Pids : Line(x) = {x} \cup above[x] /\ x \in Line(x)
         /\ Line(InitPid) = {}
  BY TrackerAssumption DEF TruthInv, TypeInv, Lines, Ways, Line

\* A look-up is of a pid, and stands at one or at init's.
LEMMA WalkTypes ==
  ASSUME TypeOK, ~Free
  PROVE  /\ walk \in Walks
         /\ walk.of \in Pids /\ walk.at \in Pids \cup {InitPid}
         /\ walk.turn \in 0..MaxHops /\ walk.mine \in BOOLEAN
         /\ walk.misled \in BOOLEAN
  <1>1. walk \in Walks
    BY DEF TypeOK, Free, NoWalk
  <1> QED
    BY <1>1 DEF Walks

-----------------------------------------------------------------------------
(* The steps of the processes.                                             *)

\* A process that begins is above none and nobody looks it up; a child of what
\* is not ours is not ours.
LEMMA BornTruth ==
  ASSUME TruthInv, NEW q \in Pids, NEW p \in alive \cup {InitPid}, Born(q, p),
         ours' = IF p \in ours THEN ours \cup {q} ELSE ours, UNCHANGED trackVars
  PROVE  Ways' /\ (\E S \in SUBSET Pids : Outside(S)') /\ WalkSound'
  <1> USE TruthFacts
  <1>1. /\ alive' = alive \cup {q} /\ q \notin alive /\ reapers' = reapers
        /\ used' = used \cup {q} /\ reused \subseteq reused'
        /\ q \in used => q \in reused'
        /\ reused' \subseteq reused \cup {q} /\ q \in reused' => q \in used
    BY DEF Born, TypeOK
  <1>2. UNCHANGED <<roots, cache, walk>>
    BY DEF trackVars
  <1>3. \A x \in Pids :
          /\ q \notin above[x]
          /\ x # q => above'[x] = above[x] /\ parent'[x] = parent[x]
    BY BornLines
  <1>4. above'[q] = Line(p) /\ parent'[q] = p /\ Line(p) \subseteq alive
    BY BornLines
  <1>5. \A x \in Pids : x # q => Line(x)' = Line(x)
    BY <1>3 DEF Line
  <1>6. OursBelow'
    <2> SUFFICES ASSUME NEW x \in alive', NEW y \in above'[x], y \in ours'
                 PROVE  x \in ours'
      BY DEF OursBelow
    <2>1. CASE x = q
      <3>1. y # q /\ y \in ours
        BY <1>1, <1>4, <2>1
      <3>2. p \in ours
        BY <1>4, <2>1, <3>1 DEF OursBelow, Line
      <3> QED
        BY <2>1, <3>2
    <2>2. CASE x # q
      <3>1. x \in alive /\ x \in Pids /\ y \in above[x] /\ y # q
        BY <1>1, <1>3, <2>2 DEF TypeOK
      <3> QED
        BY <3>1 DEF OursBelow
    <2> QED
      BY <2>1, <2>2
  <1>7. CachedUsed'
    BY <1>1, <1>2 DEF CachedUsed
  <1>8. \A x \in used' \ reused' :
          (x = q /\ cache[x] = Nobody) \/ (x # q /\ x \in used \ reused)
    BY <1>1 DEF CachedUsed
  <1>9. \A x \in Pids : cache[x] \in Pids \ reused' => cache[x] # q
    BY <1>1 DEF CachedUsed
  <1>10. CacheAbove'
    <2> SUFFICES ASSUME NEW x \in used' \ reused', cache[x] # Nobody
                 PROVE  /\ cache[x] = InitPid => above'[x] = {}
                        /\ cache[x] \in Pids \ reused' =>
                             /\ above'[x] \subseteq Line(cache[x])'
                             /\ parent'[x] \in {cache[x], InitPid} \cup reapers'
      BY <1>2 DEF CacheAbove
    <2>1. x # q /\ x \in used \ reused /\ x \in Pids
      BY <1>8 DEF TypeOK
    <2>2. above'[x] = above[x] /\ parent'[x] = parent[x]
      BY <1>3, <2>1
    <2>3. ASSUME cache[x] \in Pids \ reused'
          PROVE  cache[x] \in Pids \ reused /\ Line(cache[x])' = Line(cache[x])
      <3>1. cache'[x] = cache[x] /\ cache[x] # q
        BY <1>2, <1>9, <2>1, <2>3
      <3> QED
        BY <1>1, <1>3, <2>3, <3>1 DEF Line
    <2> QED
      BY <1>1, <2>1, <2>2, <2>3 DEF CacheAbove
  <1>11. CacheTrue'
    <2> SUFFICES ASSUME NEW x \in used' \ reused', cache[x] \in alive' \ reused'
                 PROVE  parent'[x] = cache[x]
      BY <1>2 DEF CacheTrue
    <2>1. cache[x] \in Pids
      BY <1>1 DEF TypeOK
    <2>2. x # q /\ x \in used \ reused /\ x \in Pids
      BY <1>8, <2>1 DEF TypeOK
    <2>3. cache[x] \in alive \ reused
      BY <1>1, <1>9, <2>1, <2>2
    <2> QED
      BY <1>3, <2>2, <2>3 DEF CacheTrue
  <1>12. Free' = Free /\ (~Free /\ ~Misled' => ~Misled /\ walk.at # q)
    BY <1>1, <1>2 DEF Free, Misled, WalkSound
  <1>13. \E S \in SUBSET Pids : Outside(S)'
    <2>1. PICK S \in SUBSET Pids : Outside(S)
      BY DEF TruthInv
    <2>9. PICK T \in SUBSET Pids : T = IF q \in ours' THEN S ELSE S \cup {q}
      OBVIOUS
    <2>2. T \subseteq used' /\ S \subseteq T /\ T \subseteq S \cup {q}
      BY <1>1, <2>1, <2>9 DEF Outside, Unreached
    <2>3. alive' \ ours' \subseteq T
      BY <1>1, <2>1, <2>9 DEF Outside, Unreached
    <2>4. ASSUME NEW x \in (T \cap alive') \ reused'
          PROVE  above'[x] \subseteq T \cup reused'
      <3>1. CASE x = q
        <4>1. q \notin used /\ q \notin S /\ q \notin ours'
          BY <1>1, <2>1, <2>4, <2>9, <3>1 DEF Outside, Unreached
        <4>2. p \notin ours
          BY <4>1
        <4>3. Line(p) \subseteq alive \ ours
          BY <1>4, <4>2 DEF Line, OursBelow
        <4> QED
          BY <1>4, <2>1, <2>2, <3>1, <4>3 DEF Outside, Unreached
      <3>2. CASE x # q
        <4>1. x \in (S \cap alive) \ reused /\ x \in Pids
          BY <1>1, <2>2, <2>4, <3>2
        <4> QED
          BY <1>1, <1>3, <2>1, <2>2, <3>2, <4>1 DEF Outside, Unreached
      <3> QED
        BY <3>1, <3>2
    <2>5. ASSUME NEW x \in T \ reused'
          PROVE  cache[x] \in T \cup reused' \cup {InitPid, Nobody}
      <3>1. CASE x = q
        BY <1>1, <2>5, <3>1 DEF CachedUsed
      <3>2. CASE x # q
        BY <1>1, <2>1, <2>2, <2>5, <3>2 DEF Outside, Unreached
      <3> QED
        BY <3>1, <3>2
    <2>6. T \cap roots \subseteq reused'
      BY <1>1, <2>1, <2>2 DEF Outside, Unreached, TypeOK
    <2>7. ~Free /\ ~Misled' /\ ~walk.mine => walk.at \in T \cup {InitPid}
      BY <1>12, <2>1, <2>2 DEF Outside, Unreached
    <2>8. Outside(T)'
      BY <1>2, <1>12, <2>2, <2>3, <2>4, <2>5, <2>6, <2>7 DEF Outside, Unreached
    <2> QED
      BY <2>8
  <1>14. WalkSound'
    <2>1. ~Free => walk.of \in used' /\ walk.at \in used' \cup {InitPid}
      BY <1>1 DEF WalkSound
    <2>2. ASSUME ~Free, ~Misled', walk.of \in alive' \ reused'
          PROVE  /\ Sought' \subseteq Line(walk.at)'
                 /\ walk.at \in Pids =>
                      \A s \in above'[walk.at] \ Line(walk.of)' :
                        \A z \in Sought' \cap above'[s] :
                          \E m \in reapers' \cap above'[s] : z \in Line(m)'
      <3>1. walk.of \in Pids /\ walk.at \in Pids \cup {InitPid}
        BY <2>2, WalkTypes
      <3>2. walk.of # q /\ walk.of \in alive \ reused /\ walk.at # q /\ ~Misled
        BY <1>1, <1>12, <2>2 DEF WalkSound
      <3>3. Line(walk.of)' = Line(walk.of) /\ Sought' = Sought
        BY <1>2, <1>5, <3>1, <3>2 DEF Sought
      <3>4. Line(walk.at)' = Line(walk.at)
        BY <1>2, <1>5, <3>1, <3>2 DEF Line
      <3>5. walk.at \in Pids => above'[walk.at] = above[walk.at]
        BY <1>3, <3>2
      <3>6. \A x, s \in Pids : s \in above[x] => s # q /\ above'[s] = above[s]
        BY <1>3
      <3>7. \A m \in reapers : m \in Pids /\ Line(m)' = Line(m)
        BY <1>1, <1>5 DEF TypeOK
      <3>8. Sought \subseteq Line(walk.at)
        BY <2>2, <3>2 DEF WalkSound
      <3>9. ASSUME walk.at \in Pids,
                   NEW s \in above[walk.at] \ Line(walk.of),
                   NEW z \in Sought \cap above'[s]
            PROVE  \E m \in reapers' \cap above'[s] : z \in Line(m)'
        <4>1. s \in Pids /\ above'[s] = above[s]
          BY <3>6, <3>9 DEF TypeOK
        <4>2. PICK m \in reapers \cap above[s] : z \in Line(m)
          BY <2>2, <3>2, <3>9, <4>1 DEF WalkSound
        <4> QED
          BY <1>1, <3>7, <4>1, <4>2
      <3> QED
        BY <1>2, <3>3, <3>4, <3>5, <3>8, <3>9
    <2> QED
      BY <1>2, <1>12, <2>1, <2>2 DEF WalkSound
  <1> QED
    BY <1>6, <1>7, <1>10, <1>11, <1>13, <1>14 DEF Ways

\* When p ends, what is above x stays above it, unless x is below p and it is
\* above p and not above the process that adopts.
LEMMA EndAbove ==
  ASSUME TruthInv, NEW p \in Pids, NEW r \in Pids \cup {InitPid}, Adopted(p, r),
         NEW x \in Pids, NEW z \in Line(x), z # p,
         z \in Line(p) => z \in Line(r) \/ p \notin above[x]
  PROVE  z \in {x} \cup above'[x]
  <1> USE TruthFacts
  <1>1. CASE z = x
    BY <1>1
  <1>2. CASE z # x
    BY <1>2 DEF Adopted
  <1> QED
    BY <1>1, <1>2

\* A process ends in the way of others: what is above those is adopted, and a
\* look-up misses no agent.
LEMMA EndTruth ==
  ASSUME TruthInv, NEW p \in Pids, p \in alive, End(p)
  PROVE  Ways' /\ (\E S \in SUBSET Pids : Outside(S)') /\ WalkSound'
  <1> USE TruthFacts
  <1>1. /\ alive' = alive \ {p} /\ ours' = ours \ {p}
        /\ reapers' = reapers \ {p}
        /\ UNCHANGED <<used, reused, roots, cache, walk>>
    BY DEF End, trackVars
  <1>2. PICK r \in Pids \cup {InitPid} : Adopted(p, r)
    BY EndLines
  <1>3. \A x \in Pids : /\ above'[x] \subseteq above[x] /\ p \notin above'[x]
                        /\ Line(x)' = {x} \cup above'[x]
                        /\ p \notin above[x] => above'[x] = above[x]
                        /\ above[x] \subseteq Pids
    BY <1>2 DEF Adopted, Line, TypeOK
  <1>4. OursBelow'
    BY <1>1, <1>3 DEF OursBelow, TypeOK
  <1>5. CachedUsed'
    BY <1>1 DEF CachedUsed
  <1>6. CacheTrue'
    <2> SUFFICES ASSUME NEW x \in used \ reused, cache[x] \in alive' \ reused
                 PROVE  parent'[x] = cache[x]
      BY <1>1 DEF CacheTrue
    <2>1. parent[x] = cache[x] /\ cache[x] # p /\ x \in Pids
      BY <1>1 DEF CacheTrue, TypeOK
    <2> QED
      BY <1>2, <2>1 DEF Adopted
  <1>7. CacheAbove'
    <2> SUFFICES ASSUME NEW x \in used \ reused
                 PROVE  /\ cache[x] = InitPid => above'[x] = {}
                        /\ cache[x] \in Pids \ reused =>
                             /\ above'[x] \subseteq Line(cache[x])'
                             /\ parent'[x] \in {cache[x], InitPid} \cup reapers'
      BY <1>1 DEF CacheAbove
    <2>1. x \in Pids
      BY DEF TypeOK
    <2>2. cache[x] = InitPid => above'[x] = {}
      BY <1>3, <2>1 DEF CacheAbove
    <2> SUFFICES ASSUME NEW c \in Pids, c = cache[x], c \notin reused
                 PROVE  /\ above'[x] \subseteq {c} \cup above'[c]
                        /\ parent'[x] \in {c, InitPid} \cup reapers'
      BY <1>1, <1>3, <2>2
    <2>3. above[x] \subseteq Line(c) /\ parent[x] \in {c, InitPid} \cup reapers
      BY DEF CacheAbove
    <2>4. parent'[x] \in {c, InitPid} \cup reapers'
      BY <1>1, <1>2, <2>1, <2>3 DEF Adopted
    <2>5. ASSUME NEW z \in above'[x] PROVE z \in {c} \cup above'[c]
      <3>1. z \in above[x] /\ z \in Line(c) /\ z # p
        BY <1>3, <2>1, <2>3, <2>5
      <3>2. ASSUME z \in Line(p), p \in above[c] PROVE z \in Line(r)
        <4>1. CASE p \in above[x]
          BY <1>2, <2>1, <2>5, <3>2, <4>1 DEF Adopted
        <4>2. CASE p \notin above[x]
          <5>1. above[x] = Line(parent[x]) /\ parent[x] # InitPid
            BY <2>1, <3>1 DEF Stacked
          <5>2. p \in Line(c)
            BY <3>2
          <5>3. parent[x] # c /\ parent[x] \in reapers /\ parent[x] \in Pids
            BY <2>3, <4>2, <5>1, <5>2 DEF TypeOK
          <5>4. parent[x] \in above[x] /\ parent[x] \in above[c]
            BY <2>3, <5>1, <5>3
          <5>5. parent[x] # p /\ p \notin above[parent[x]]
            BY <4>2, <5>1, <5>3
          <5>6. parent[x] \in above[p]
            BY <3>2, <5>4, <5>5 DEF Ordered
          <5>7. parent[x] \in Line(r) /\ z \in Line(parent[x])
            BY <1>2, <3>1, <5>1, <5>3, <5>6 DEF Adopted
          <5> QED
            BY <1>2, <5>3, <5>7 DEF Adopted, Nested
        <4> QED
          BY <4>1, <4>2
      <3> QED
        BY <1>2, <3>1, <3>2, EndAbove
    <2> QED
      BY <2>4, <2>5
  <1>8. \E S \in SUBSET Pids : Outside(S)'
    <2>1. PICK S \in SUBSET Pids : Outside(S)
      BY DEF TruthInv
    <2>2. alive' \ ours' \subseteq S
      BY <1>1, <2>1 DEF Outside, Unreached
    <2>3. \A x \in (S \cap alive') \ reused : above'[x] \subseteq S \cup reused
      BY <1>1, <1>3, <2>1 DEF Outside, Unreached
    <2>4. Outside(S)'
      BY <1>1, <2>1, <2>2, <2>3 DEF Outside, Unreached, Free, Misled
    <2> QED
      BY <2>4
  <1>9. WalkSound'
    <2>1. Free' = Free /\ Misled' = Misled
      BY <1>1 DEF Free, Misled
    <2> SUFFICES ASSUME ~Free, ~Misled, walk.of \in alive' \ reused
                 PROVE  /\ Sought' \subseteq Line(walk.at)'
                        /\ walk.at \in Pids =>
                           \A s \in above'[walk.at] \ Line(walk.of)' :
                             \A z \in Sought' \cap above'[s] :
                               \E m \in reapers' \cap above'[s] : z \in Line(m)'
      BY <1>1, <2>1 DEF WalkSound
    <2>2. PICK f \in Pids : f = walk.of /\ f # p /\ f \in alive \ reused
      BY <1>1, WalkTypes
    <2>3. PICK at \in Pids \cup {InitPid} : at = walk.at
      BY WalkTypes
    <2>4. Sought \subseteq Line(at)
      BY <2>2, <2>3 DEF WalkSound
    <2>5. ASSUME at \in Pids, NEW s \in above[at], s \notin Line(f),
                 NEW z \in Sought, z \in above[s]
          PROVE  \E m \in reapers \cap above[s] : z \in Line(m)
      BY <2>2, <2>3, <2>5 DEF WalkSound
    <2>6. /\ Line(f)' = {f} \cup above'[f] /\ Line(f) = {f} \cup above[f]
          /\ Sought' = Line(f)' \cap roots /\ Sought = Line(f) \cap roots
      BY <1>1, <1>3, <2>2 DEF Sought
    <2>7. Sought' \subseteq Sought /\ p \notin Sought'
      BY <1>3, <2>2, <2>6
    <2>8. \A z \in Sought' : p \in above[f] /\ z \in Line(p) => z \in Line(r)
      <3> SUFFICES ASSUME NEW z \in Sought', p \in above[f], z \in Line(p)
                   PROVE  z \in Line(r)
        OBVIOUS
      <3>1. z # f
        BY <2>2 DEF Nested, Stacked
      <3>2. z \in above'[f]
        BY <2>6, <3>1
      <3> QED
        BY <1>2, <2>2, <3>2 DEF Adopted
    <2>9. ASSUME NEW z \in Sought' PROVE z \in Line(at)'
      <3>1. z \in Sought /\ z # p /\ z \in Line(at) /\ at \in Pids
        BY <2>4, <2>7
      <3>2. ASSUME z \in Line(p), p \in above[at] PROVE z \in Line(r)
        <4>1. CASE p \in above[f]
          BY <2>8, <3>2, <4>1
        <4>2. CASE p \notin above[f]
          <5>1. z \in above[p] /\ p \notin Line(f)
            BY <2>2, <3>1, <3>2, <4>2
          <5>2. PICK m \in reapers \cap above[p] : z \in Line(m)
            BY <2>5, <3>1, <3>2, <5>1
          <5>3. m \in Line(r) /\ m \in Pids
            BY <1>2, <5>2 DEF Adopted, TypeOK
          <5> QED
            BY <1>2, <5>2, <5>3 DEF Adopted, Nested
        <4> QED
          BY <4>1, <4>2
      <3>3. z \in {at} \cup above'[at]
        BY <1>2, <3>1, <3>2, EndAbove
      <3> QED
        BY <1>3, <3>1, <3>3
    <2>10. ASSUME at \in Pids, NEW s \in above'[at], s \notin Line(f)',
                  NEW z \in Sought', z \in above'[s]
           PROVE  \E m \in reapers' \cap above'[s] : z \in Line(m)'
      <3>1. /\ s \in above[at] /\ s \in Pids /\ s # p
            /\ z \in Sought /\ z \in above[s] /\ z # p /\ z \in Pids
        BY <1>3, <2>7, <2>10
      <3>2. ASSUME z \in Line(r), r \in above'[s]
            PROVE  \E m \in reapers' \cap above'[s] : z \in Line(m)'
        <4>1. r \in Pids /\ r \in reapers /\ r # p /\ r \in Line(r)
          BY <1>2, <3>2 DEF Adopted
        <4>2. above'[r] = above[r]
          BY <1>2, <4>1 DEF Adopted
        <4>3. Line(r)' = Line(r) /\ r \in reapers'
          BY <1>1, <1>3, <4>1, <4>2
        <4> QED
          BY <3>2, <4>3
      <3>3. CASE s \in Line(f)
        <4>1. p \in above[f] /\ s \in Line(p) /\ s \notin Line(r)
          BY <1>2, <2>2, <2>6, <2>10, <3>1, <3>3 DEF Adopted
        <4>2. s \in above[p]
          BY <3>1, <4>1
        <4>3. z \in Line(p)
          BY <3>1, <4>2 DEF Nested
        <4>4. z \in Line(r)
          BY <2>8, <4>1, <4>3
        <4>5. r \in above[p] /\ r # s /\ s \notin above[r] /\ r \in Pids
          BY <1>2, <4>1, <4>4 DEF Adopted
        <4>6. r \in above[s]
          BY <4>2, <4>5 DEF Ordered
        <4>7. p \notin above[s]
          BY <4>2 DEF Nested, Stacked
        <4> QED
          BY <1>3, <3>1, <3>2, <4>4, <4>6, <4>7
      <3>4. CASE s \notin Line(f)
        <4>1. PICK m \in reapers \cap above[s] : z \in Line(m)
          BY <2>5, <2>10, <3>1, <3>4
        <4>2. m \in Pids
          BY <3>1, <4>1 DEF TypeOK
        <4>3. CASE p \notin above[s]
          <5>1. m # p /\ p \notin above[m]
            BY <3>1, <4>1, <4>3 DEF Nested
          <5>2. above'[s] = above[s] /\ Line(m)' = Line(m)
            BY <1>3, <3>1, <4>2, <4>3, <5>1
          <5> QED
            BY <1>1, <4>1, <5>1, <5>2
        <4>4. CASE p \in above[s]
          <5>1. above'[s] = (above[s] \ Line(p)) \cup Line(r)
            BY <1>2, <3>1, <4>4 DEF Adopted
          <5>2. z \in Line(p) => z \in Line(r)
            BY <2>10, <5>1
          <5>3. CASE m \in Line(p)
            <6>1. z \in Line(r)
              BY <4>1, <4>2, <5>2, <5>3 DEF Nested
            <6>2. r \in above'[s]
              BY <1>2, <5>1, <6>1 DEF Adopted
            <6> QED
              BY <3>2, <6>1, <6>2
          <5>4. CASE m \notin Line(p)
            <6>1. m \in above'[s] /\ m # p /\ m \in reapers'
              BY <1>1, <4>1, <5>1, <5>4
            <6>2. z \in {m} \cup above'[m]
              BY <1>2, <3>1, <4>1, <4>2, <5>2, EndAbove
            <6> QED
              BY <1>3, <4>2, <6>1, <6>2
          <5> QED
            BY <5>3, <5>4
        <4> QED
          BY <4>3, <4>4
      <3> QED
        BY <3>3, <3>4
    <2> QED
      BY <1>1, <2>2, <2>3, <2>6, <2>9, <2>10
  <1> QED
    BY <1>4, <1>5, <1>6, <1>7, <1>8, <1>9 DEF Ways

\* A process that executes an agent makes its own of all below it, and the
\* snapshot does not know.
LEMMA ExecTruth ==
  ASSUME TruthInv, NEW p \in Pids, Exec(p)
  PROVE  Ways' /\ (\E S \in SUBSET Pids : Outside(S)') /\ WalkSound'
  <1> USE TruthFacts
  <1>1. /\ UNCHANGED <<alive, parent, above, reapers, used, reused>>
        /\ UNCHANGED <<roots, cache, walk>> /\ ours \subseteq ours'
    BY DEF Exec, trackVars
  <1>2. \A x \in Pids \cup {InitPid} : Line(x)' = Line(x)
    BY <1>1 DEF Line
  <1>3. CacheAbove' /\ CacheTrue' /\ CachedUsed'
    BY <1>1 DEF CacheAbove, CacheTrue, CachedUsed, Line
  <1>4. OursBelow'
    <2>1. CASE ours' = ours
      BY <1>1, <2>1 DEF OursBelow
    <2>2. CASE ours' = ours \cup {q \in alive : p \in Line(q)}
      <3> SUFFICES ASSUME NEW x \in alive, NEW y \in above[x], y \in ours'
                   PROVE  x \in ours'
        BY <1>1 DEF OursBelow
      <3>1. x \in Pids /\ y \in Pids
        BY DEF TypeOK
      <3>2. CASE y \in ours
        BY <1>1, <3>2 DEF OursBelow
      <3>3. CASE p \in Line(y)
        BY <2>2, <3>1, <3>3 DEF Nested
      <3> QED
        BY <2>2, <3>2, <3>3
    <2> QED
      BY <2>1, <2>2 DEF Exec
  <1>5. \E S \in SUBSET Pids : Outside(S)'
    <2>1. PICK S \in SUBSET Pids : Outside(S)
      BY DEF TruthInv
    <2>2. Outside(S)'
      BY <1>1, <2>1 DEF Outside, Unreached, Free, Misled
    <2> QED
      BY <2>2
  <1>6. WalkSound'
    BY <1>1 DEF WalkSound, Sought, Free, Misled, Line
  <1> QED
    BY <1>3, <1>4, <1>5, <1>6 DEF Ways

\* A subreaper more takes nothing away.
LEMMA SubreapTruth ==
  ASSUME TruthInv, NEW p \in Pids, Subreap(p)
  PROVE  Ways' /\ (\E S \in SUBSET Pids : Outside(S)') /\ WalkSound'
  <1> USE TruthFacts
  <1>1. /\ UNCHANGED <<alive, parent, above, ours, used, reused>>
        /\ UNCHANGED <<roots, cache, walk>> /\ reapers \subseteq reapers'
    BY DEF Subreap, trackVars
  <1>2. Ways'
    <2>1. OursBelow' /\ CachedUsed' /\ CacheTrue'
      BY <1>1 DEF OursBelow, CachedUsed, CacheTrue
    <2>2. CacheAbove'
      BY <1>1 DEF CacheAbove, Line
    <2> QED
      BY <2>1, <2>2 DEF Ways
  <1>3. \E S \in SUBSET Pids : Outside(S)'
    <2>1. PICK S \in SUBSET Pids : Outside(S)
      BY DEF TruthInv
    <2>2. Outside(S)'
      BY <1>1, <2>1 DEF Outside, Unreached, Free, Misled
    <2> QED
      BY <2>2
  <1>4. WalkSound'
    <2>1. /\ Free' = Free /\ Misled' = Misled /\ Sought' = Sought
          /\ Line(walk.at)' = Line(walk.at) /\ Line(walk.of)' = Line(walk.of)
      BY <1>1 DEF Free, Misled, Sought, Line
    <2>2. \A m : Line(m)' = Line(m)
      BY <1>1 DEF Line
    <2> QED
      BY <1>1, <2>1, <2>2 DEF WalkSound
  <1> QED
    BY <1>2, <1>3, <1>4 DEF Ways

-----------------------------------------------------------------------------
(* The steps of the tracker.                                               *)

\* A refresh takes the agents of the moment for roots: what is not ours, and all
\* it has above it, is then outside.
LEMMA RefreshTruth ==
  ASSUME TruthInv, Refresh, UNCHANGED procVars
  PROVE  Ways' /\ \E S \in SUBSET Pids : S = used \ ours /\ Unreached(S)'
  <1> USE TruthFacts
  <1>1. /\ roots' = agents
        /\ \A x \in Pids : cache'[x] = IF x \in alive THEN cache[x] ELSE Nobody
    BY DEF Refresh
  <1>2. UNCHANGED <<alive, parent, above, reapers, agents, ours, used, reused>>
    BY DEF procVars
  <1>3. \A x \in Pids :
          cache'[x] # Nobody => x \in alive /\ cache'[x] = cache[x]
    BY <1>1
  <1>4. \A x \in used : x \in Pids
    BY DEF TypeOK
  <1>5. OursBelow' /\ CachedUsed'
    BY <1>2, <1>3 DEF OursBelow, CachedUsed
  <1>6. CacheTrue'
    <2> SUFFICES ASSUME NEW x \in used \ reused, cache'[x] \in alive \ reused
                 PROVE  parent[x] = cache'[x]
      BY <1>2 DEF CacheTrue
    <2>1. cache'[x] = cache[x]
      BY <1>3, <1>4 DEF TypeOK
    <2> QED
      BY <2>1 DEF CacheTrue
  <1>7. CacheAbove'
    <2> SUFFICES ASSUME NEW x \in used \ reused,
                        cache'[x] \in Pids \cup {InitPid}
                 PROVE  /\ cache'[x] = InitPid => above[x] = {}
                        /\ cache'[x] \in Pids \ reused =>
                             /\ above[x] \subseteq Line(cache'[x])
                             /\ parent[x] \in {cache'[x], InitPid} \cup reapers
      BY <1>2 DEF CacheAbove, Line
    <2>1. cache'[x] = cache[x]
      BY <1>3, <1>4
    <2> QED
      BY <2>1 DEF CacheAbove
  <1>8. PICK S \in SUBSET Pids : S = used \ ours
    BY <1>4
  <1>9. /\ S \subseteq used' /\ alive' \ ours' \subseteq S
        /\ S \cap roots' \subseteq reused'
    BY <1>1, <1>2, <1>8 DEF TypeOK
  <1>10. ASSUME NEW x \in (S \cap alive') \ reused'
         PROVE  above'[x] \subseteq S \cup reused'
    <2>1. x \in Pids /\ above[x] \cap ours = {}
      BY <1>2, <1>8, <1>10 DEF OursBelow
    <2>2. above[x] \subseteq used
      BY <2>1 DEF TypeOK
    <2> QED
      BY <1>2, <1>8, <2>1, <2>2
  <1>11. ASSUME NEW x \in S \ reused'
         PROVE  cache'[x] \in S \cup reused' \cup {InitPid, Nobody}
    <2> SUFFICES ASSUME cache'[x] # Nobody, cache'[x] # InitPid,
                        cache'[x] \notin reused
                 PROVE  cache'[x] \in S
      BY <1>2
    <2>1. x \in alive \ (ours \cup reused) /\ x \in used /\ cache'[x] = cache[x]
      BY <1>2, <1>3, <1>8, <1>11
    <2>2. cache[x] \in used /\ cache[x] \in Pids
      BY <1>4, <2>1 DEF CachedUsed
    <2>3. ASSUME cache[x] \in ours PROVE FALSE
      <3>1. parent[x] = cache[x]
        BY <2>1, <2>3 DEF CacheTrue, TypeOK
      <3>2. above[x] = Line(cache[x])
        BY <1>4, <2>1, <3>1 DEF Stacked
      <3> QED
        BY <2>1, <2>2, <2>3, <3>2 DEF OursBelow
    <2> QED
      BY <1>8, <2>1, <2>2, <2>3
  <1>12. Unreached(S)'
    BY <1>9, <1>10, <1>11 DEF Unreached
  <1> QED
    BY <1>5, <1>6, <1>7, <1>8, <1>12 DEF Ways

\* A look-up begins with the process itself.
LEMMA LookUpTruth ==
  ASSUME TruthInv, NEW p \in Pids, LookUp(p)
  PROVE  Ways' /\ (\E S \in SUBSET Pids : Outside(S)') /\ WalkSound'
  <1> USE TruthFacts
  <1>1. /\ p \in alive /\ p \in used /\ UNCHANGED procVars
        /\ walk' = [of |-> p, mine |-> p \in ours, at |-> p, turn |-> 0,
                    misled |-> FALSE]
    BY DEF LookUp, TypeOK
  <1>2. /\ walk'.of = p /\ walk'.at = p
        /\ walk'.mine = (p \in ours) /\ ~Free'
    BY <1>1 DEF Free
  <1>3. UNCHANGED <<alive, parent, above, reapers, ours, used, reused>>
    BY <1>1 DEF procVars
  <1>4. /\ Ways'
        /\ \E S \in SUBSET Pids : alive \ ours \subseteq S /\ Unreached(S)'
    <2>1. CASE Refresh
      BY <1>1, <2>1, RefreshTruth DEF TypeOK
    <2>2. CASE UNCHANGED <<roots, cache>>
      <3>1. Ways'
        BY <1>3, <2>2
        DEF Ways, OursBelow, CachedUsed, CacheAbove, CacheTrue, Line
      <3>2. PICK S \in SUBSET Pids : Outside(S)
        BY DEF TruthInv
      <3>3. alive \ ours \subseteq S /\ Unreached(S)'
        BY <1>3, <2>2, <3>2 DEF Outside, Unreached
      <3> QED
        BY <3>1, <3>3
    <2> QED
      BY <2>1, <2>2 DEF LookUp
  <1>5. PICK S \in SUBSET Pids : alive \ ours \subseteq S /\ Unreached(S)'
    BY <1>4
  <1>6. Outside(S)'
    BY <1>1, <1>2, <1>5 DEF Outside
  <1>7. WalkSound'
    <2>1. Sought' \subseteq Line(walk.at)'
      BY <1>2 DEF Sought
    <2>2. above'[p] \subseteq Line(p)'
      BY DEF Line
    <2> QED
      BY <1>1, <1>2, <1>3, <2>1, <2>2 DEF WalkSound
  <1> QED
    BY <1>4, <1>6, <1>7

\* One turn goes past what is no agent of the snapshot, to what had it as a
\* child.
LEMMA ClimbTruth ==
  ASSUME TruthInv, Climb
  PROVE  Ways' /\ (\E S \in SUBSET Pids : Outside(S)') /\ WalkSound'
  <1> USE TruthFacts
  <1>1. UNCHANGED <<alive, parent, above, reapers, ours, used, reused, roots>>
    BY DEF Climb, procVars
  <1>2. ~Free
    BY DEF Climb
  <1>3. PICK S \in SUBSET Pids : Outside(S)
    BY DEF TruthInv
  <1>4. CASE Affirms \/ Denies
    <2>1. Free' /\ cache' = cache
      BY <1>4 DEF Climb, Free, NoWalk
    <2>2. Ways'
      BY <1>1, <2>1 DEF Ways, OursBelow, CachedUsed, CacheAbove, CacheTrue, Line
    <2>3. Outside(S)'
      BY <1>1, <1>3, <2>1 DEF Outside, Unreached
    <2> QED
      BY <2>1, <2>2, <2>3 DEF WalkSound
  <1>5. CASE ~(Affirms \/ Denies)
    <2>1. PICK at \in Pids \cup {InitPid} : at = walk.at
      BY <1>2, WalkTypes
    <2>2. walk.turn < MaxHops
      BY <1>2, <1>5, WalkTypes, TrackerAssumption DEF Denies
    <2>3. at \notin roots
      BY <1>2, <1>5, <2>1, <2>2 DEF Affirms
    <2>4. at \in Pids /\ ppid(at) # Nobody
      BY <1>2, <1>5, <2>1, <2>3 DEF Denies
    <2>5. PICK up \in Pids \cup {InitPid} : up = ppid(at)
      BY <2>4 DEF ppid, TypeOK
    <2>6. at \in used /\ up \in used \cup {InitPid}
      <3>1. at \in used
        BY <1>2, <2>1, <2>4 DEF WalkSound
      <3> QED
        BY <2>4, <2>5, <3>1 DEF ppid, CachedUsed, Stacked, TypeOK
    <2>7. /\ cache' = [cache EXCEPT ![at] = up]
          /\ walk' = [walk EXCEPT !.at = up, !.turn = @ + 1, !.misled = Misled]
      BY <1>5, <2>1, <2>5 DEF Climb
    <2>8. /\ cache'[at] = up
          /\ \A x \in Pids : x # at => cache'[x] = cache[x]
      BY <2>4, <2>7 DEF TypeOK
    <2>9. /\ walk'.of = walk.of /\ walk'.mine = walk.mine /\ walk'.at = up
          /\ walk'.misled = Misled
      BY <1>2, <2>7, WalkTypes DEF Walks
    <2>10. \/ cache[at] = up
           \/ cache[at] = Nobody /\ at \in alive /\ up = parent[at]
      BY <2>4, <2>5 DEF ppid
    <2>11. ASSUME at \notin reused
           PROVE  /\ up = InitPid => above[at] = {}
                  /\ up \in Pids \ reused =>
                       /\ above[at] \subseteq Line(up)
                       /\ parent[at] \in {up, InitPid} \cup reapers
      <3>1. CASE cache[at] = up
        BY <2>6, <2>11, <3>1 DEF CacheAbove
      <3>2. CASE up = parent[at]
        BY <2>4, <3>2 DEF Stacked
      <3> QED
        BY <2>10, <3>1, <3>2
    <2>12. Ways'
      <3>1. OursBelow'
        BY <1>1 DEF OursBelow
      <3>2. CachedUsed'
        BY <1>1, <2>6, <2>8 DEF CachedUsed
      <3>3. CacheAbove'
        <4> SUFFICES ASSUME NEW x \in used \ reused
                     PROVE  /\ cache'[x] = InitPid => above[x] = {}
                            /\ cache'[x] \in Pids \ reused =>
                              /\ above[x] \subseteq Line(cache'[x])
                              /\ parent[x] \in {cache'[x], InitPid} \cup reapers
          BY <1>1 DEF CacheAbove, Line
        <4>1. x \in Pids
          BY DEF TypeOK
        <4>2. CASE x = at
          BY <2>8, <2>11, <4>2
        <4>3. CASE x # at
          BY <2>8, <4>1, <4>3 DEF CacheAbove
        <4> QED
          BY <4>2, <4>3
      <3>4. CacheTrue'
        BY <1>1, <2>8, <2>10 DEF CacheTrue, TypeOK
      <3> QED
        BY <3>1, <3>2, <3>3, <3>4 DEF Ways
    <2>13. ASSUME ~Free', ~Misled'
           PROVE  ~Misled /\ at \notin reused /\ up \notin reused
      BY <1>1, <2>1, <2>9, <2>13 DEF Misled
    <2>14. ASSUME at \in S \ reused
           PROVE  up \in S \cup reused \cup {InitPid}
      <3>1. CASE cache[at] = up
        BY <1>3, <2>5, <2>14, <3>1 DEF Outside, Unreached
      <3>2. CASE at \in alive /\ up = parent[at]
        <4>1. up \in above[at] \cup {InitPid}
          BY <2>4, <2>5, <3>2 DEF Stacked
        <4> QED
          BY <1>3, <2>14, <3>2, <4>1 DEF Outside, Unreached
      <3> QED
        BY <2>10, <3>1, <3>2
    <2>15. Outside(S)'
      <3>1. Unreached(S)'
        BY <1>1, <1>3, <2>6, <2>8, <2>14 DEF Outside, Unreached
      <3>2. ASSUME ~Free', ~Misled', ~walk'.mine
            PROVE  walk'.at \in S \cup {InitPid}
        <4>1. at \in S
          BY <1>2, <1>3, <2>1, <2>4, <2>9, <2>13, <3>2 DEF Outside
        <4> QED
          BY <2>9, <2>13, <2>14, <3>2, <4>1
      <3> QED
        BY <3>1, <3>2 DEF Outside
    <2>16. WalkSound'
      <3>1. walk'.of \in used' /\ walk'.at \in used' \cup {InitPid}
        BY <1>1, <1>2, <2>6, <2>9 DEF WalkSound
      <3> SUFFICES ASSUME ~Free', ~Misled', walk.of \in alive \ reused
                   PROVE  /\ Sought \subseteq Line(up)
                          /\ up \in Pids =>
                              \A s \in above[up] \ Line(walk.of) :
                                \A z \in Sought \cap above[s] :
                                  \E m \in reapers \cap above[s] : z \in Line(m)
        BY <1>1, <2>9, <3>1 DEF WalkSound, Sought, Line
      <3>2. Sought \subseteq Line(at) /\ at \notin Sought
        BY <1>2, <2>1, <2>3, <2>13 DEF WalkSound, Sought
      <3>3. Sought \subseteq above[at]
        BY <2>4, <3>2
      <3>4. Sought \subseteq Line(up)
        BY <2>11, <2>13, <3>3
      <3>5. ASSUME up \in Pids, NEW s \in above[up], s \notin Line(walk.of),
                   NEW z \in Sought, z \in above[s]
            PROVE  \E m \in reapers \cap above[s] : z \in Line(m)
        <4>1. CASE s \in above[at]
          BY <1>2, <2>1, <2>4, <2>13, <3>5, <4>1 DEF WalkSound
        <4>2. CASE s \notin above[at]
          <5>1. above[at] = Line(parent[at]) /\ z \in above[at]
            BY <2>4, <3>3, <3>5 DEF Stacked
          <5>2. parent[at] # up /\ parent[at] # InitPid
            BY <3>5, <4>2, <5>1
          <5>3. parent[at] \in reapers /\ parent[at] \in Pids
            BY <2>11, <2>13, <3>5, <5>2 DEF TypeOK
          <5>4. parent[at] \in above[at] /\ parent[at] \in above[up]
            BY <2>11, <2>13, <3>5, <5>1, <5>2, <5>3
          <5>5. parent[at] # s /\ s \notin above[parent[at]]
            BY <4>2, <5>1, <5>3, <5>4
          <5>6. parent[at] \in above[s]
            BY <3>5, <5>4, <5>5 DEF Ordered
          <5> QED
            BY <5>1, <5>3, <5>6
        <4> QED
          BY <4>1, <4>2
      <3> QED
        BY <3>4, <3>5
    <2> QED
      BY <2>12, <2>15, <2>16
  <1> QED
    BY <1>4, <1>5

-----------------------------------------------------------------------------
(* What a look-up answers.                                                 *)

\* Every step keeps the invariant.
LEMMA NextTruth ==
  ASSUME TruthInv, [Next]_vars
  PROVE  TruthInv'
  <1> USE TruthFacts
  <1> DEFINE True == Ways' /\ (\E S \in SUBSET Pids : Outside(S)') /\ WalkSound'
  <1> SUFFICES True
    BY NextTypeInv DEF TruthInv
  <1>0. ASSUME UNCHANGED <<procVars, trackVars>>
        PROVE  True
    <2>1. UNCHANGED <<alive, parent, above, reapers, ours, used, reused>>
      BY <1>0 DEF procVars
    <2>2. UNCHANGED <<roots, cache, walk>>
      BY <1>0 DEF trackVars
    <2>3. PICK S \in SUBSET Pids : Outside(S)
      BY DEF TruthInv
    <2>4. Outside(S)'
      BY <2>1, <2>2, <2>3 DEF Outside, Unreached, Free, Misled
    <2>5. Ways'
      BY <2>1, <2>2 DEF Ways, OursBelow, CachedUsed, CacheAbove, CacheTrue, Line
    <2>6. WalkSound'
      BY <2>1, <2>2 DEF WalkSound, Sought, Free, Misled, Line
    <2> QED
      BY <2>4, <2>5, <2>6
  <1> HIDE DEF True
  <1>1. ASSUME NEW p \in Pids, NEW q \in Pids, Fork(p, q) PROVE True
    <2>1. p \in alive \cup {InitPid} /\ Born(q, p) /\ UNCHANGED trackVars
      BY <1>1 DEF Fork
    <2>2. ours' = IF p \in ours THEN ours \cup {q} ELSE ours
      BY <1>1 DEF Fork
    <2> QED
      BY <2>1, <2>2, BornTruth DEF True
  <1>2. ASSUME NEW q \in Pids, Start(q) PROVE True
    <2>1. Born(q, InitPid) /\ UNCHANGED trackVars /\ ours' = ours
      BY <1>2 DEF Start
    <2>2. ours' = IF InitPid \in ours THEN ours \cup {q} ELSE ours
      BY <2>1 DEF TypeOK
    <2> QED
      BY <2>1, <2>2, BornTruth DEF True
  <1>3. ASSUME NEW p \in Pids, Exec(p) PROVE True
    BY <1>3, ExecTruth DEF True
  <1>4. ASSUME NEW p \in Pids, Subreap(p) PROVE True
    BY <1>4, SubreapTruth DEF True
  <1>5. ASSUME NEW p \in Pids, Exit(p) PROVE True
    BY <1>5, EndTruth DEF Exit, True
  <1>6. ASSUME NEW p \in Pids, LookUp(p) PROVE True
    BY <1>6, LookUpTruth DEF True
  <1>7. ASSUME NEW p \in Pids, Track(p) PROVE True
    BY <1>0, <1>7 DEF Track
  <1>8. ASSUME NEW p \in Pids, Terminate(p) PROVE True
    BY <1>0, <1>8, EndTruth DEF Terminate, True
  <1>9. CASE Climb
    BY <1>9, ClimbTruth DEF True
  <1>10. CASE FirewallTick
    BY <1>0, <1>10 DEF FirewallTick
  <1>11. CASE RedirectTick
    <2>1. Refresh /\ UNCHANGED procVars /\ Free'
      BY <1>11 DEF RedirectTick, Free
    <2>2. PICK S \in SUBSET Pids : Unreached(S)'
      BY <2>1, RefreshTruth
    <2>3. Ways'
      BY <2>1, RefreshTruth
    <2>4. Outside(S)' /\ WalkSound'
      BY <2>1, <2>2 DEF Outside, WalkSound
    <2> QED
      BY <2>3, <2>4 DEF True
  <1>12. CASE FindAgents
    <2>1. PICK S \in SUBSET Pids : Outside(S)
      BY DEF TruthInv
    <2>2. UNCHANGED <<alive, parent, above, reapers, ours, used, reused>>
      BY <1>12 DEF FindAgents
    <2>3. UNCHANGED <<roots, cache, walk>>
      BY <1>12 DEF FindAgents, trackVars
    <2>4. Outside(S)'
      BY <2>1, <2>2, <2>3 DEF Outside, Unreached, Free, Misled
    <2>5. Ways'
      BY <2>2, <2>3 DEF Ways, OursBelow, CachedUsed, CacheAbove, CacheTrue, Line
    <2>6. WalkSound'
      BY <2>2, <2>3 DEF WalkSound, Sought, Free, Misled, Line
    <2> QED
      BY <2>4, <2>5, <2>6 DEF True
  <1>13. CASE UNCHANGED vars
    BY <1>0, <1>13 DEF vars
  <1> QED
    BY <1>1, <1>2, <1>3, <1>4, <1>5, <1>6, <1>7, <1>8, <1>9, <1>10, <1>11,
       <1>12, <1>13 DEF Next

\* A look-up that meets no reused pid says yes only of a process that comes from
\* an agent; and it says no of one that has an agent of the snapshot above it
\* only when it has made all its turns or stands at a process that has ended:
\* for chains of any length, any subreapers, any limit to the turns, and
\* whatever ends, forks and is adopted while it climbs.
THEOREM LookUp_Truthful == Spec => []LookUpTruthful
  <1>1. ASSUME TruthInv PROVE LookUpTruthful
    <2> USE TruthFacts
    <2>1. ASSUME Affirms, ~Misled, ~walk.mine PROVE FALSE
      <3>1. PICK S \in SUBSET Pids : Outside(S)
        BY <1>1 DEF TruthInv
      <3>2. ~Free /\ walk.at \in roots /\ walk.at \notin reused
        BY <2>1 DEF Affirms, Misled
      <3>3. walk.at \in S \cup {InitPid}
        BY <2>1, <3>1, <3>2 DEF Outside
      <3>4. walk.at # InitPid
        BY <1>1, <3>2 DEF TypeOK
      <3> QED
        BY <3>1, <3>2, <3>3, <3>4 DEF Outside, Unreached
    <2>2. ASSUME Denies, ~Misled, walk.of \in alive \ reused,
                 walk.turn # MaxHops, walk.at \notin Pids \ alive
          PROVE  Sought = {}
      <3>1. ~Free /\ walk.at \notin roots /\ walk.at \in Pids \cup {InitPid}
        BY <1>1, <2>2, WalkTypes DEF Denies
      <3>2. walk.at = InitPid
        <4> SUFFICES ASSUME walk.at \in Pids, walk.at \in alive PROVE FALSE
          BY <2>2, <3>1
        <4>1. walk.at # InitPid
          BY <1>1
        <4>2. ppid(walk.at) = Nobody
          BY <2>2, <3>1, <4>1 DEF Denies
        <4> QED
          BY <1>1, <4>2 DEF ppid, TypeOK
      <3>3. Sought \subseteq Line(walk.at)
        BY <1>1, <2>2, <3>1 DEF WalkSound
      <3> QED
        BY <1>1, <3>2, <3>3
    <2>3. walk.mine \in BOOLEAN \/ Free
      BY <1>1, WalkTypes
    <2> QED
      BY <2>1, <2>2 DEF LookUpTruthful, Sought
  <1> QED
    BY InitTruth, NextTruth, <1>1, PTL DEF Spec
=============================================================================
