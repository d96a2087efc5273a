------------------------- MODULE SeccompNotify_proofs -------------------------
(***************************************************************************)
(* Proofs about the content substitution, for any number of agent trees,   *)
(* of their tasks and opens, and of failures, interruptions, relays and    *)
(* ends of the daemon.                                                     *)
(***************************************************************************)
EXTENDS SeccompNotify, SequenceTheorems, FiniteSetTheorems, TLAPS

-----------------------------------------------------------------------------
(* The inductive invariant.                                                *)

WaitStates == {"no", "asking", "taken", "continued", "dead"}

\* What TypeOK says of each variable alone, by the parts an action changes.
TaskTypes ==
  /\ wait \in [Tasks -> WaitStates]
  /\ want \in [Tasks -> Wants]
  /\ queue \in [Trees -> Seq(Tasks)]
ServiceTypes ==
  /\ launch \in [Trees -> Launches] /\ filter \in [Trees -> BOOLEAN]
  /\ at \in [Trees -> Holders]
  /\ backlog \in Seq(Trees) /\ accepted \in Trees \cup {Nobody}
  /\ step \in [Trees -> SuperSteps]
  /\ cur \in [Trees -> Tasks \cup {Nobody}]
MainTypes ==
  /\ heirs \subseteq Trees /\ (heirs # {} => child)
  /\ vault \in Trees \cup {Main, Nobody} /\ child \in BOOLEAN /\ up \in BOOLEAN
BoundTypes ==
  /\ opens \in 0..MaxOpens /\ refusals \in 0..MaxRefusals
  /\ losses \in 0..MaxLosses /\ unresolved \in 0..MaxUnresolved
  /\ rewrites \in 0..MaxRewrites
  /\ spawnFails \in 0..MaxSpawnFails /\ fails \in 0..MaxFails
  /\ interrupts \in 0..MaxInterrupts /\ relays \in 0..MaxRelays
  /\ crashes \in 0..MaxCrashes
  /\ Troubles <= MaxTroubles
Types == TaskTypes /\ ServiceTypes /\ MainTypes /\ BoundTypes

\* A tree's queue holds its tasks that ask and are not yet served, each once.
Once(q)  == \A i, j \in 1..Len(q) : q[i] = q[j] => i = j
Queued(t) ==
  /\ Once(queue[t])
  /\ RangeOf(queue[t]) = {k \in TasksOf({t}) : wait[k] = "asking"}

\* The supervisor has the listener, and works for its own tree.
Serving(t) ==
  /\ cur[t] = Nobody <=> step[t] \in {"none", "poll"}
  /\ step[t] # "none" <=> at[t] = "super"
  /\ cur[t] # Nobody => TreeOf(cur[t]) = t

\* A tree that is not running yet has not opened anything, and its listener has
\* gone no further than its launcher.
Launching(t) ==
  /\ launch[t] # "run" => \A k \in TasksOf({t}) : ~Waiting(k)
  /\ launch[t] \in {"start", "connected"} => at[t] = "none"
  /\ launch[t] = "filtered" => at[t] = "launcher"
  /\ at[t] = "socket" => launch[t] = "run"

\* The task whose sensitive path is being masked still asks for it, unless its
\* notification is void.
Handling(t) ==
  step[t] \in {"lock", "mask", "inject"} /\ wait[cur[t]] = "taken" =>
    Sensitive(want[cur[t]])

Tree(t) == Queued(t) /\ Serving(t) /\ Launching(t) /\ Handling(t)

\* Raw answers are counted, with those the kernel is about to give: they stay
\* within the paths that could not be read and those that were rewritten.
Records == [task : Tasks, want : Wants, got : Answers, trapped : BOOLEAN]
Showing == {k \in Tasks : wait[k] = "continued" /\ Sensitive(want[k])}
Shown ==
  /\ results \subseteq Records
  /\ IsFiniteSet(RawReads) /\ IsFiniteSet(Showing)
  /\ Cardinality(RawReads) + Cardinality(Showing) <= unresolved + rewrites
  /\ \A r \in results : r.want = "plain" => r.got \in {"real", "ENOSYS"}

\* Without a failure no listener is lost, one that is closed has no task left
\* that could ask, and a launcher's connection is there to send over.
Undisturbed(t) ==
  /\ at[t] # "lost"
  /\ at[t] \in {"heir", "closed"} => \A k \in TasksOf({t}) : wait[k] = "dead"
  /\ launch[t] \in {"connected", "filtered"} => Connected(t)

NobodyRefused == \A r \in results : r.got # "ENOSYS"

Calm ==
  crashes + fails + losses = 0 => NobodyRefused /\ \A t \in Trees : Undisturbed(t)

IInv == Types /\ (\A t \in Trees : Tree(t)) /\ Shown /\ Calm

-----------------------------------------------------------------------------
(* Queues.                                                                 *)

\* An appended element is an element, and no other is new; it is there once if
\* it was not there before.
LEMMA AppendOnce ==
  ASSUME NEW S, NEW q \in Seq(S), NEW x \in S
  PROVE  /\ Append(q, x) \in Seq(S)
         /\ RangeOf(Append(q, x)) = RangeOf(q) \cup {x}
         /\ Once(q) /\ x \notin RangeOf(q) => Once(Append(q, x))
  <1>1. /\ Len(Append(q, x)) = Len(q) + 1 /\ Len(q) \in Nat
        /\ \A i \in 1..Len(q) : Append(q, x)[i] = q[i]
        /\ Append(q, x)[Len(q) + 1] = x
        /\ Append(q, x) \in Seq(S)
    OBVIOUS
  <1>2. RangeOf(Append(q, x)) = RangeOf(q) \cup {x}
    BY <1>1 DEF RangeOf
  <1>3. ASSUME Once(q), x \notin RangeOf(q) PROVE Once(Append(q, x))
    BY <1>1, <1>3 DEF Once, RangeOf
  <1> QED
    BY <1>1, <1>2, <1>3

\* A sequence consists of its head and its tail; an element that is there once
\* is in one of them.
LEMMA TailOnce ==
  ASSUME NEW S, NEW q \in Seq(S), q # <<>>
  PROVE  /\ Tail(q) \in Seq(S) /\ Head(q) \in S
         /\ RangeOf(q) = RangeOf(Tail(q)) \cup {Head(q)}
         /\ Once(q) => Once(Tail(q)) /\ Head(q) \notin RangeOf(Tail(q))
  <1>1. /\ Len(q) \in Nat \ {0} /\ Head(q) = q[1]
        /\ Len(Tail(q)) = Len(q) - 1 /\ Tail(q) \in Seq(S) /\ Head(q) \in S
        /\ \A i \in 1..Len(Tail(q)) : Tail(q)[i] = q[i + 1]
    BY EmptySeq, HeadTailProperties
  <1>2. RangeOf(Tail(q)) \cup {Head(q)} \subseteq RangeOf(q)
    BY <1>1 DEF RangeOf
  <1>3. ASSUME NEW i \in 1..Len(q) PROVE q[i] \in RangeOf(Tail(q)) \cup {Head(q)}
    <2>1. CASE i = 1
      BY <1>1, <2>1
    <2>2. CASE i # 1
      <3>1. i - 1 \in 1..Len(Tail(q)) /\ Tail(q)[i - 1] = q[i]
        BY <1>1, <2>2
      <3> QED
        BY <3>1 DEF RangeOf
    <2> QED
      BY <2>1, <2>2
  <1>4. ASSUME Once(q) PROVE Once(Tail(q)) /\ Head(q) \notin RangeOf(Tail(q))
    <2>1. \A i \in 1..Len(Tail(q)) : i + 1 \in 1..Len(q) /\ i + 1 # 1
      BY <1>1
    <2>2. Once(Tail(q))
      <3>1. SUFFICES ASSUME NEW i \in 1..Len(Tail(q)), NEW j \in 1..Len(Tail(q)),
                            Tail(q)[i] = Tail(q)[j]
                     PROVE  i = j
        BY DEF Once
      <3>2. q[i + 1] = q[j + 1]
        BY <1>1, <3>1
      <3>3. i + 1 = j + 1
        BY <1>4, <2>1, <3>2 DEF Once
      <3> QED
        BY <1>1, <3>3
    <2>3. Head(q) \notin RangeOf(Tail(q))
      BY <1>1, <1>4, <2>1 DEF Once, RangeOf
    <2> QED
      BY <2>2, <2>3
  <1> QED
    BY <1>1, <1>2, <1>3, <1>4 DEF RangeOf

\* Without takes a task out of a queue and leaves the others.
LEMMA WithoutOnce ==
  ASSUME NEW S, NEW q \in Seq(S), NEW k, Once(q)
  PROVE  /\ Without(q, k) \in Seq(S)
         /\ RangeOf(Without(q, k)) = RangeOf(q) \ {k}
         /\ Once(Without(q, k))
  <1>1. CASE k \notin RangeOf(q)
    BY <1>1 DEF Without
  <1>2. CASE k \in RangeOf(q)
    <2> DEFINE n == Len(q)
               i == CHOOSE j \in 1..Len(q) : q[j] = k
               a == SubSeq(q, 1, i - 1)
               b == SubSeq(q, i + 1, n)
               w == a \o b
    <2>1. Without(q, k) = w
      BY <1>2 DEF Without
    <2>2. n \in Nat /\ \A j \in 1..n : q[j] \in S
      BY LenProperties
    <2>3. i \in 1..n /\ q[i] = k
      BY <1>2 DEF RangeOf
    <2> HIDE DEF i, n
    <2>4. /\ a \in Seq(S) /\ Len(a) = i - 1
          /\ \A j \in 1..(i - 1) : a[j] = q[j]
      <3>1. 1 \in Int /\ i - 1 \in Int /\ \A j \in 1..(i - 1) : q[j] \in S
        BY <2>2, <2>3
      <3>2. /\ a \in Seq(S)
            /\ Len(a) = IF 1 <= i - 1 THEN i - 1 - 1 + 1 ELSE 0
            /\ \A j \in 1..(i - 1 - 1 + 1) : a[j] = q[1 + j - 1]
        BY <3>1, SubSeqProperties
      <3> QED
        BY <3>2, <2>2, <2>3
    <2>5. /\ b \in Seq(S) /\ Len(b) = n - i
          /\ \A j \in 1..(n - i) : b[j] = q[i + j]
      <3>1. i + 1 \in Int /\ n \in Int /\ \A j \in (i + 1)..n : q[j] \in S
        BY <2>2, <2>3
      <3>2. /\ b \in Seq(S)
            /\ Len(b) = IF i + 1 <= n THEN n - (i + 1) + 1 ELSE 0
            /\ \A j \in 1..(n - (i + 1) + 1) : b[j] = q[i + 1 + j - 1]
        BY <3>1, SubSeqProperties
      <3> QED
        BY <3>2, <2>2, <2>3
    <2> HIDE DEF a, b
    <2>6. /\ w \in Seq(S) /\ Len(w) = n - 1
          /\ \A j \in 1..(n - 1) : w[j] = IF j <= i - 1 THEN q[j] ELSE q[j + 1]
      <3>1. /\ w \in Seq(S) /\ Len(w) = Len(a) + Len(b)
            /\ \A j \in 1..(Len(a) + Len(b)) :
                 w[j] = IF j <= Len(a) THEN a[j] ELSE b[j - Len(a)]
        BY <2>4, <2>5, ConcatProperties
      <3>2. Len(a) + Len(b) = n - 1
        BY <2>2, <2>3, <2>4, <2>5
      <3>3. ASSUME NEW j \in 1..(n - 1)
            PROVE  w[j] = IF j <= i - 1 THEN q[j] ELSE q[j + 1]
        <4>1. CASE j <= i - 1
          <5>1. w[j] = a[j] /\ j \in 1..(i - 1)
            BY <3>1, <3>2, <4>1, <2>2, <2>3, <2>4
          <5> QED
            BY <4>1, <5>1, <2>4
        <4>2. CASE ~(j <= i - 1)
          <5>1. w[j] = b[j - (i - 1)]
            BY <3>1, <3>2, <4>2, <2>4
          <5>2. j - (i - 1) \in 1..(n - i) /\ i + (j - (i - 1)) = j + 1
            BY <4>2, <2>2, <2>3
          <5> QED
            BY <4>2, <5>1, <5>2, <2>5
        <4> QED
          BY <4>1, <4>2
      <3> QED
        BY <3>1, <3>2, <3>3
    <2> HIDE DEF w
    <2>7. ASSUME NEW j \in 1..n, j # i PROVE q[j] \in RangeOf(w)
      <3>1. CASE j < i
        <4>1. j \in 1..(n - 1) /\ w[j] = q[j]
          BY <2>2, <2>3, <2>6, <3>1
        <4> QED
          BY <4>1, <2>6 DEF RangeOf
      <3>2. CASE j > i
        <4>1. j - 1 \in 1..(n - 1) /\ ~(j - 1 <= i - 1) /\ j - 1 + 1 = j
          BY <2>2, <2>3, <3>2
        <4>2. w[j - 1] = q[j]
          BY <2>6, <4>1
        <4> QED
          BY <4>1, <4>2, <2>6 DEF RangeOf
      <3> QED
        BY <3>1, <3>2, <2>7, <2>2, <2>3
    <2>8. ASSUME NEW j \in 1..(n - 1) PROVE w[j] \in RangeOf(q) \ {k}
      <3>1. PICK m \in 1..n : m # i /\ w[j] = q[m]
        <4>1. CASE j <= i - 1
          BY <4>1, <2>2, <2>3, <2>6
        <4>2. CASE ~(j <= i - 1)
          <5>1. j + 1 \in 1..n /\ j + 1 # i
            BY <4>2, <2>2, <2>3
          <5> QED
            BY <4>2, <5>1, <2>6
        <4> QED
          BY <4>1, <4>2
      <3>2. q[m] # k
        BY <3>1, <2>3 DEF Once, n
      <3> QED
        BY <3>1, <3>2 DEF RangeOf, n
    <2>9. RangeOf(w) = RangeOf(q) \ {k}
      <3>1. RangeOf(w) \subseteq RangeOf(q) \ {k}
        BY <2>6, <2>8 DEF RangeOf
      <3>2. RangeOf(q) \ {k} \subseteq RangeOf(w)
        <4>1. ASSUME NEW x \in RangeOf(q) \ {k} PROVE x \in RangeOf(w)
          <5>1. PICK j \in 1..n : x = q[j]
            BY DEF RangeOf, n
          <5> QED
            BY <5>1, <2>3, <2>7
        <4> QED
          BY <4>1
      <3> QED
        BY <3>1, <3>2
    <2>10. Once(w)
      <3>1. SUFFICES ASSUME NEW x \in 1..(n - 1), NEW y \in 1..(n - 1), w[x] = w[y]
                     PROVE  x = y
        BY <2>6 DEF Once
      <3> DEFINE p(j) == IF j <= i - 1 THEN j ELSE j + 1
      <3>2. p(x) \in 1..n /\ p(y) \in 1..n
        BY <2>2, <2>3
      <3>3. q[p(x)] = q[p(y)]
        BY <2>6, <3>1
      <3>4. p(x) = p(y)
        <4> HIDE DEF p
        <4> QED
          BY <3>2, <3>3 DEF Once, n
      <3> QED
        BY <3>4, <2>2, <2>3
    <2> QED
      BY <2>1, <2>6, <2>9, <2>10
  <1> QED
    BY <1>1, <1>2

-----------------------------------------------------------------------------
(* What the actions do to the tasks and to the answers.                    *)

\* One task changes its state, and its queue accordingly.
LEMMA OneTask ==
  ASSUME TaskTypes, \A t \in Trees : Queued(t),
         NEW k \in Tasks, NEW v \in WaitStates,
         NEW q \in Seq(Tasks), Once(q),
         RangeOf(q) = IF v = "asking" THEN RangeOf(queue[TreeOf(k)]) \cup {k}
                                      ELSE RangeOf(queue[TreeOf(k)]) \ {k},
         wait' = [wait EXCEPT ![k] = v],
         queue' = [queue EXCEPT ![TreeOf(k)] = q],
         want' \in [Tasks -> Wants]
  PROVE  TaskTypes' /\ \A t \in Trees : Queued(t)'
  <1>1. TreeOf(k) \in Trees
    BY SeccompNotifyAssumption
  <1>2. TaskTypes'
    BY <1>1 DEF TaskTypes, WaitStates
  <1>3. ASSUME NEW t \in Trees PROVE Queued(t)'
    <2>1. /\ queue'[t] = IF t = TreeOf(k) THEN q ELSE queue[t]
          /\ \A m \in Tasks : wait'[m] = IF m = k THEN v ELSE wait[m]
      BY DEF TaskTypes
    <2>2. Once(queue[t]) /\ RangeOf(queue[t]) = {m \in TasksOf({t}) : wait[m] = "asking"}
      BY DEF Queued
    <2>3. Once(queue'[t])
      BY <2>1, <2>2
    <2>4. RangeOf(queue'[t]) = {m \in TasksOf({t}) : wait'[m] = "asking"}
      <3>1. CASE t = TreeOf(k)
        BY <2>1, <2>2, <3>1 DEF TasksOf
      <3>2. CASE t # TreeOf(k)
        BY <2>1, <2>2, <3>2 DEF TasksOf
      <3> QED
        BY <3>1, <3>2
    <2> QED
      BY <2>3, <2>4 DEF Queued
  <1> QED
    BY <1>2, <1>3

\* Tasks stop waiting without being asked for again, and no queue changes.
LEMMA StopWaiting ==
  ASSUME TaskTypes, \A t \in Trees : Queued(t),
         wait' \in [Tasks -> WaitStates],
         \A k \in Tasks : wait'[k] = "asking" <=> wait[k] = "asking",
         UNCHANGED <<want, queue>>
  PROVE  TaskTypes' /\ \A t \in Trees : Queued(t)'
  <1>1. TaskTypes'
    BY DEF TaskTypes
  <1>2. ASSUME NEW t \in Trees PROVE Queued(t)'
    BY DEF Queued, TasksOf
  <1> QED
    BY <1>1, <1>2

\* Tasks are answered, or told to go on.
OnlyAnswered ==
  \A k \in Tasks :
    wait'[k] = wait[k] \/ (wait[k] # "dead" /\ wait'[k] \in {"no", "continued"})

\* The listeners of these trees are closed: their tasks that wait are refused.
LEMMA ClosedFacts ==
  ASSUME TaskTypes, ServiceTypes, \A t \in Trees : Queued(t),
         NEW T \in SUBSET Trees, Closed(T)
  PROVE  /\ TaskTypes' /\ \A t \in Trees : Queued(t)'
         /\ results \subseteq results'
         /\ \A r \in results' \ results : r \in Records /\ r.got = "ENOSYS"
         /\ (\A k \in TasksOf(T) : ~Waiting(k)) => results' = results
         /\ OnlyAnswered /\ Showing' \subseteq Showing
         /\ want' = want
  <1> DEFINE K == {k \in TasksOf(T) : Waiting(k)}
  <1>1. /\ wait' = [k \in Tasks |-> IF k \in K THEN "no" ELSE wait[k]]
        /\ results' = results \cup {Result(k, "ENOSYS") : k \in K}
        /\ queue' = [t \in Trees |-> IF t \in T THEN <<>> ELSE queue[t]]
        /\ want' = want
    BY DEF Closed
  <1>2. TaskTypes'
    BY <1>1 DEF TaskTypes, WaitStates
  <1>3. ASSUME NEW t \in Trees PROVE Queued(t)'
    <2>1. Once(queue[t]) /\ RangeOf(queue[t]) = {m \in TasksOf({t}) : wait[m] = "asking"}
      BY DEF Queued
    <2>2. CASE t \in T
      <3>1. queue'[t] = <<>> /\ Len(queue'[t]) = 0
        BY <1>1, <2>2
      <3>2. Once(queue'[t]) /\ RangeOf(queue'[t]) = {}
        BY <3>1 DEF Once, RangeOf
      <3>3. \A m \in TasksOf({t}) : wait'[m] # "asking"
        BY <1>1, <2>2 DEF TasksOf, Waiting, TaskTypes
      <3> QED
        BY <3>2, <3>3 DEF Queued
    <2>3. CASE t \notin T
      <3>1. queue'[t] = queue[t] /\ \A m \in TasksOf({t}) : wait'[m] = wait[m]
        BY <1>1, <2>3 DEF TasksOf
      <3> QED
        BY <2>1, <3>1 DEF Queued, TasksOf
    <2> QED
      BY <2>2, <2>3
  <1>4. ASSUME NEW k \in K
        PROVE  Result(k, "ENOSYS") \in Records /\ Result(k, "ENOSYS").got = "ENOSYS"
    <2>1. k \in Tasks /\ want[k] \in Wants /\ filter[TreeOf(k)] \in BOOLEAN
      BY SeccompNotifyAssumption DEF TasksOf, TaskTypes, ServiceTypes
    <2> QED
      BY <2>1 DEF Result, Records, Answers
  <1>5. OnlyAnswered /\ Showing' \subseteq Showing
    BY <1>1 DEF OnlyAnswered, Showing, Waiting, TaskTypes
  <1>6. (\A k \in TasksOf(T) : ~Waiting(k)) => results' = results
    BY <1>1
  <1> QED
    BY <1>1, <1>2, <1>3, <1>4, <1>5, <1>6

\* Answers that show nothing of a sensitive file, and open a plain one or refuse.
Harmless(r) ==
  /\ ~(r.trapped /\ Sensitive(r.want) /\ r.got = "real")
  /\ r.want = "plain" => r.got \in {"real", "ENOSYS"}

\* A set that is part of a finite one is finite and has no more elements.
LEMMA Smaller ==
  ASSUME NEW S, NEW T, IsFiniteSet(S), T \subseteq S
  PROVE  /\ IsFiniteSet(T) /\ Cardinality(T) <= Cardinality(S)
         /\ Cardinality(T) \in Nat /\ Cardinality(S) \in Nat
  BY FS_Subset, FS_CardinalityType

\* With one more element at most, it has one more at most.
LEMMA OneMore ==
  ASSUME NEW S, NEW T, NEW x, IsFiniteSet(S), T \subseteq S \cup {x}
  PROVE  /\ IsFiniteSet(T) /\ Cardinality(T) <= Cardinality(S) + 1
         /\ Cardinality(T) \in Nat /\ Cardinality(S) \in Nat
  <1>1. /\ IsFiniteSet(S \cup {x}) /\ Cardinality(S) \in Nat
        /\ Cardinality(S \cup {x}) \in {Cardinality(S), Cardinality(S) + 1}
    BY FS_AddElement, FS_CardinalityType
  <1>2. /\ IsFiniteSet(T) /\ Cardinality(T) <= Cardinality(S \cup {x})
        /\ Cardinality(T) \in Nat
    BY <1>1, Smaller
  <1> QED
    BY <1>1, <1>2

\* With one element less, it has one less.
LEMMA OneLess ==
  ASSUME NEW S, NEW T, NEW x \in S, IsFiniteSet(S), T \subseteq S \ {x}
  PROVE  /\ IsFiniteSet(T) /\ Cardinality(T) <= Cardinality(S) - 1
         /\ Cardinality(T) \in Nat /\ Cardinality(S) \in Nat
  <1>1. /\ IsFiniteSet(S \ {x}) /\ Cardinality(S) \in Nat
        /\ Cardinality(S \ {x}) = Cardinality(S) - 1
    BY FS_RemoveElement, FS_CardinalityType
  <1>2. /\ IsFiniteSet(T) /\ Cardinality(T) <= Cardinality(S \ {x})
        /\ Cardinality(T) \in Nat
    BY <1>1, Smaller
  <1> QED
    BY <1>1, <1>2

\* They keep what was shown within what could not be resolved or was rewritten.
LEMMA HarmlessKeep ==
  ASSUME Shown, BoundTypes, Showing' \subseteq Showing,
         UNCHANGED <<unresolved, rewrites>>, results \subseteq results',
         \A r \in results' \ results : r \in Records /\ Harmless(r)
  PROVE  Shown'
  <1>1. RawReads' = RawReads
    BY DEF RawReads, Harmless
  <1>2. results' \subseteq Records
    BY DEF Shown
  <1>3. \A r \in results' : r.want = "plain" => r.got \in {"real", "ENOSYS"}
    BY DEF Shown, Harmless
  <1>4. /\ IsFiniteSet(Showing)' /\ Cardinality(Showing)' <= Cardinality(Showing)
        /\ Cardinality(Showing)' \in Nat /\ Cardinality(Showing) \in Nat
    <2> DEFINE T == Showing'
    <2>1. IsFiniteSet(Showing) /\ T \subseteq Showing
      BY DEF Shown
    <2> HIDE DEF T
    <2>2. /\ IsFiniteSet(T) /\ Cardinality(T) <= Cardinality(Showing)
          /\ Cardinality(T) \in Nat /\ Cardinality(Showing) \in Nat
      BY <2>1, Smaller
    <2> QED
      BY <2>2 DEF T
  <1>5. /\ IsFiniteSet(RawReads)' /\ Cardinality(RawReads)' = Cardinality(RawReads)
        /\ Cardinality(RawReads) \in Nat
    BY <1>1, FS_CardinalityType DEF Shown
  <1>6. unresolved \in Nat /\ rewrites \in Nat
    BY SeccompNotifyAssumption DEF BoundTypes
  <1>7. Cardinality(RawReads)' + Cardinality(Showing)' <= unresolved' + rewrites'
    BY <1>4, <1>5, <1>6 DEF Shown
  <1> QED
    BY <1>2, <1>3, <1>4, <1>5, <1>7 DEF Shown

\* A path that cannot be read lets at most one open go on.
LEMMA UnresolvedShowsOne ==
  ASSUME Shown, BoundTypes, NEW k, Showing' \subseteq Showing \cup {k},
         unresolved' = unresolved + 1, UNCHANGED <<rewrites, results>>
  PROVE  Shown'
  <1>1. unresolved \in Nat /\ rewrites \in Nat
    BY SeccompNotifyAssumption DEF BoundTypes
  <1>2. RawReads' = RawReads
    BY DEF RawReads
  <1>3. Cardinality(RawReads) \in Nat /\ Cardinality(RawReads') = Cardinality(RawReads)
    BY <1>2, FS_CardinalityType DEF Shown
  <1> DEFINE T == Showing'
  <1>4. IsFiniteSet(Showing) /\ T \subseteq Showing \cup {k}
    BY DEF Shown
  <1> HIDE DEF T
  <1>5. /\ IsFiniteSet(T) /\ Cardinality(T) <= Cardinality(Showing) + 1
        /\ Cardinality(T) \in Nat /\ Cardinality(Showing) \in Nat
    BY <1>4, OneMore
  <1>6. Cardinality(RawReads) + Cardinality(T) <= unresolved + 1 + rewrites
    BY <1>1, <1>3, <1>5 DEF Shown
  <1> QED
    BY <1>1, <1>2, <1>3, <1>5, <1>6 DEF Shown, T

\* What the kernel opens after CONTINUE is what was classified, or was rewritten.
LEMMA ContinuedShowsOne ==
  ASSUME Shown, BoundTypes, NEW k \in Tasks, wait[k] = "continued",
         Showing' \subseteq Showing \ {k},
         NEW x \in Records, x.got = "real", results' = results \cup {x},
         unresolved' = unresolved,
         \/ rewrites' = rewrites /\ x.want = want[k]
         \/ rewrites' = rewrites + 1
  PROVE  Shown'
  <1>1. unresolved \in Nat /\ rewrites \in Nat
    BY SeccompNotifyAssumption DEF BoundTypes
  <1>2. /\ results' \subseteq Records
        /\ \A r \in results' : r.want = "plain" => r.got \in {"real", "ENOSYS"}
    BY DEF Shown
  <1> DEFINE T == Showing'
             R == RawReads'
  <1>3. /\ R \subseteq RawReads \cup {x} /\ (~Sensitive(x.want) => R = RawReads)
        /\ IsFiniteSet(RawReads)
    BY DEF RawReads, Shown
  <1>4. IsFiniteSet(Showing) /\ T \subseteq Showing \ {k} /\ T \subseteq Showing
    BY DEF Shown
  <1>5. Cardinality(RawReads) + Cardinality(Showing) <= unresolved + rewrites
    BY DEF Shown
  <1> HIDE DEF T, R
  <1>6. /\ IsFiniteSet(R) /\ Cardinality(R) <= Cardinality(RawReads) + 1
        /\ Cardinality(R) \in Nat /\ Cardinality(RawReads) \in Nat
    BY <1>3, OneMore
  <1>7. /\ IsFiniteSet(T) /\ Cardinality(T) <= Cardinality(Showing)
        /\ Cardinality(T) \in Nat /\ Cardinality(Showing) \in Nat
    BY <1>4, Smaller
  <1>8. Cardinality(R) + Cardinality(T) <= unresolved' + rewrites'
    <2>1. CASE rewrites' = rewrites + 1
      BY <1>1, <1>5, <1>6, <1>7, <2>1
    <2>2. CASE rewrites' = rewrites /\ x.want = want[k] /\ Sensitive(want[k])
      <3>1. k \in Showing
        BY <2>2 DEF Showing
      <3>2. Cardinality(T) <= Cardinality(Showing) - 1
        BY <3>1, <1>4, OneLess
      <3> QED
        BY <1>1, <1>5, <1>6, <1>7, <2>2, <3>2
    <2>3. CASE rewrites' = rewrites /\ x.want = want[k] /\ ~Sensitive(want[k])
      BY <1>1, <1>3, <1>5, <1>6, <1>7, <2>3
    <2> QED
      BY <2>1, <2>2, <2>3
  <1> QED
    BY <1>2, <1>6, <1>7, <1>8 DEF Shown, T, R

\* The task being served is answered, or told to go on, only if it still waits,
\* and the supervisor is done with it.
LEMMA DoneFacts ==
  ASSUME Types, \A t \in Trees : Queued(t) /\ Serving(t),
         NEW t \in Trees, step[t] \notin {"none", "poll"},
         NEW v \in {"no", "continued"},
         wait' = [wait EXCEPT ![cur[t]] = IF @ = "taken" THEN v ELSE @],
         UNCHANGED <<queue, want, at>>, Done(t)
  PROVE  /\ TaskTypes' /\ \A u \in Trees : Queued(u)'
         /\ \A u \in Trees : Serving(u)'
         /\ cur[t] \in Tasks /\ OnlyAnswered
         /\ Showing' \subseteq Showing \cup {cur[t]}
         /\ v = "no" \/ ~Sensitive(want[cur[t]]) => Showing' \subseteq Showing
         /\ step' = [step EXCEPT ![t] = "poll"] /\ cur' = [cur EXCEPT ![t] = Nobody]
  <1>1. step' = [step EXCEPT ![t] = "poll"] /\ cur' = [cur EXCEPT ![t] = Nobody]
    BY DEF Done
  <1>2. cur[t] \in Tasks
    BY DEF Types, ServiceTypes, Serving
  <1>3. /\ wait' \in [Tasks -> WaitStates]
        /\ \A k \in Tasks : wait'[k] = IF k = cur[t] /\ wait[k] = "taken"
                                         THEN v ELSE wait[k]
    BY <1>2 DEF Types, TaskTypes, WaitStates
  <1>4. TaskTypes' /\ \A u \in Trees : Queued(u)'
    BY <1>3, StopWaiting DEF Types
  <1>5. ASSUME NEW u \in Trees PROVE Serving(u)'
    BY <1>1 DEF Serving, Types, ServiceTypes
  <1>6. /\ OnlyAnswered /\ Showing' \subseteq Showing \cup {cur[t]}
        /\ v = "no" \/ ~Sensitive(want[cur[t]]) => Showing' \subseteq Showing
    BY <1>3 DEF OnlyAnswered, Showing
  <1> QED
    BY <1>1, <1>2, <1>4, <1>5, <1>6

-----------------------------------------------------------------------------
(* The launcher, the accept thread and the mutex: no task is served.         *)

\* A launcher connects, or finds no daemon.
LEMMA ConnectKeepsInv ==
  ASSUME IInv, NEW t \in Trees, Connect(t)
  PROVE  IInv'
  <1> USE DEF IInv, Tree, Connect,
              launchVars, taskVars, heldVars, acceptVars, superVars,
              vaultVars, boundVars, passedVars, failVars, moreVars
  <1>1. Types'
    <2>1. TaskTypes'
      BY DEF Types, TaskTypes
    <2>2. ServiceTypes'
      <3>1. launch' \in [Trees -> Launches]
        BY DEF Types, ServiceTypes, Launches
      <3>2. backlog' \in Seq(Trees)
        BY AppendOnce, SMTT(30) DEF Types, ServiceTypes
      <3> QED
        BY <3>1, <3>2 DEF Types, ServiceTypes
    <2>3. MainTypes'
      BY DEF Types, MainTypes
    <2>4. BoundTypes'
      BY SeccompNotifyAssumption DEF Types, BoundTypes, Troubles, More
    <2> QED
      BY <2>1, <2>2, <2>3, <2>4 DEF Types
  <1>2. \A u \in Trees : Queued(u)'
    BY DEF Queued, TasksOf
  <1>3. \A u \in Trees : Serving(u)'
    BY DEF Serving, Launching, Types, ServiceTypes
  <1>4. \A u \in Trees : Launching(u)'
    BY DEF Launching, Waiting, Types, ServiceTypes
  <1>5. \A u \in Trees : Handling(u)'
    BY DEF Handling, Serving, Types, ServiceTypes
  <1>6. Shown'
    BY DEF Shown, RawReads, Showing
  <1>7. Calm'
    <2>1. RangeOf(Append(backlog, t)) = RangeOf(backlog) \cup {t}
      BY AppendOnce DEF Types, ServiceTypes
    <2>2. \A u \in Trees : Connected(u) => Connected(u)'
      BY <2>1 DEF Connected
    <2>3. launch'[t] = "connected" => Connected(t)'
      BY <2>1 DEF Connected, Types, ServiceTypes
    <2> QED
      BY <2>2, <2>3 DEF Calm, NobodyRefused, Undisturbed, TasksOf, Types, ServiceTypes
  <1> QED
    BY <1>1, <1>2, <1>3, <1>4, <1>5, <1>6, <1>7

\* A launcher installs the filter, or goes on without.
LEMMA InstallKeepsInv ==
  ASSUME IInv, NEW t \in Trees, Install(t)
  PROVE  IInv'
  <1> USE DEF IInv, Tree, Install,
              launchVars, taskVars, heldVars, acceptVars, superVars,
              vaultVars, boundVars, passedVars, failVars, moreVars
  <1>1. Types'
    <2>1. TaskTypes'
      BY DEF Types, TaskTypes
    <2>2. ServiceTypes'
      BY DEF Types, ServiceTypes, Launches, Holders, SuperSteps
    <2>3. MainTypes'
      BY DEF Types, MainTypes
    <2>4. BoundTypes'
      BY SeccompNotifyAssumption DEF Types, BoundTypes, Troubles, More
    <2> QED
      BY <2>1, <2>2, <2>3, <2>4 DEF Types
  <1>2. \A u \in Trees : Queued(u)'
    BY DEF Queued, TasksOf
  <1>3. \A u \in Trees : Serving(u)'
    <2>1. at[t] = "none" /\ at'[t] \in {"launcher", at[t]}
      BY DEF Launching, Types, ServiceTypes
    <2>2. \A u \in Trees \ {t} : at'[u] = at[u]
      BY DEF Types, ServiceTypes
    <2>3. UNCHANGED <<cur, step>> /\ \A u \in Trees : Serving(u)
      OBVIOUS
    <2> HIDE DEF IInv, Install
    <2> QED
      BY <2>1, <2>2, <2>3 DEF Serving
  <1>4. \A u \in Trees : Launching(u)'
    BY DEF Launching, Waiting, Types, ServiceTypes
  <1>5. \A u \in Trees : Handling(u)'
    BY DEF Handling, Serving, Types, ServiceTypes
  <1>6. Shown'
    BY DEF Shown, RawReads, Showing
  <1>7. Calm'
    BY DEF Calm, NobodyRefused, Undisturbed, Connected, TasksOf,
           Launching, Types, ServiceTypes
  <1> QED
    BY <1>1, <1>2, <1>3, <1>4, <1>5, <1>6, <1>7

\* A launcher sends the listener and becomes the tool.
LEMMA HandoffKeepsInv ==
  ASSUME IInv, NEW t \in Trees, Handoff(t)
  PROVE  IInv'
  <1> USE DEF IInv, Tree, Handoff,
              launchVars, taskVars, heldVars, acceptVars, superVars,
              vaultVars, boundVars, passedVars, failVars, moreVars
  <1>1. Types'
    <2>1. TaskTypes'
      BY DEF Types, TaskTypes
    <2>2. ServiceTypes'
      BY DEF Types, ServiceTypes, Launches, Holders, SuperSteps
    <2>3. MainTypes'
      BY DEF Types, MainTypes
    <2>4. BoundTypes'
      BY SeccompNotifyAssumption DEF Types, BoundTypes, Troubles, More
    <2> QED
      BY <2>1, <2>2, <2>3, <2>4 DEF Types
  <1>2. \A u \in Trees : Queued(u)'
    BY DEF Queued, TasksOf
  <1>3. \A u \in Trees : Serving(u)'
    BY DEF Serving, Launching, Types, ServiceTypes
  <1>4. \A u \in Trees : Launching(u)'
    BY DEF Launching, Waiting, Types, ServiceTypes
  <1>5. \A u \in Trees : Handling(u)'
    BY DEF Handling, Serving, Types, ServiceTypes
  <1>6. Shown'
    BY DEF Shown, RawReads, Showing
  <1>7. Calm'
    <2>1. CASE losses' = losses + 1
      <3>1. (crashes + fails + losses)' # 0
        BY <2>1, SeccompNotifyAssumption DEF Types, BoundTypes
      <3> QED
        BY <3>1 DEF Calm
    <2>2. CASE losses' = losses /\ at' = [at EXCEPT ![t] =
                                           IF Connected(t) THEN "socket" ELSE "lost"]
      BY <2>2 DEF Calm, NobodyRefused, Undisturbed, Connected, TasksOf,
                  Launching, Types, ServiceTypes
    <2> QED
      BY <2>1, <2>2
  <1> QED
    BY <1>1, <1>2, <1>3, <1>4, <1>5, <1>6, <1>7

\* A launcher is interrupted before it has become the tool.
LEMMA GiveUpKeepsInv ==
  ASSUME IInv, NEW t \in Trees, GiveUp(t)
  PROVE  IInv'
  <1> USE DEF IInv, Tree, GiveUp,
              launchVars, taskVars, heldVars, acceptVars, superVars,
              vaultVars, boundVars, passedVars, failVars, moreVars
  <1>1. Types'
    <2>1. TaskTypes'
      BY DEF Types, TaskTypes, WaitStates
    <2>2. ServiceTypes'
      BY DEF Types, ServiceTypes, Launches, Holders, SuperSteps
    <2>3. MainTypes'
      BY DEF Types, MainTypes
    <2>4. BoundTypes'
      BY SeccompNotifyAssumption DEF Types, BoundTypes, Troubles, More
    <2> QED
      BY <2>1, <2>2, <2>3, <2>4 DEF Types
  <1>2. \A u \in Trees : Queued(u)'
    <2>1. \A k \in Tasks : wait'[k] = "asking" <=> wait[k] = "asking"
      BY DEF Launching, Waiting, TasksOf, Types, TaskTypes
    <2> QED
      BY <1>1, <2>1, StopWaiting DEF Types, TaskTypes
  <1>3. \A u \in Trees : Serving(u)'
    BY DEF Serving, Launching, Types, ServiceTypes
  <1>4. \A u \in Trees : Launching(u)'
    BY DEF Launching, Waiting, TasksOf, Types, TaskTypes, ServiceTypes
  <1>5. \A u \in Trees : Handling(u)'
    BY DEF Handling, Serving, Types, ServiceTypes
  <1>6. Shown'
    <2>1. Showing' \subseteq Showing
      BY DEF Showing, Types, TaskTypes
    <2> QED
      BY <2>1, HarmlessKeep DEF Types
  <1>7. Calm'
    BY DEF Calm, NobodyRefused, Undisturbed, Connected, TasksOf,
           Launching, Types, ServiceTypes
  <1> QED
    BY <1>1, <1>2, <1>3, <1>4, <1>5, <1>6, <1>7

\* The accept thread takes the next connection.
LEMMA AcceptKeepsInv ==
  ASSUME IInv, Accept
  PROVE  IInv'
  <1> USE DEF IInv, Tree, Accept,
              launchVars, taskVars, heldVars, acceptVars, superVars,
              vaultVars, boundVars, passedVars, failVars, moreVars
  <1>1. Types'
    <2>1. TaskTypes'
      BY DEF Types, TaskTypes
    <2>2. ServiceTypes'
      BY DEF Types, ServiceTypes, Launches, Holders, SuperSteps
    <2>3. MainTypes'
      BY DEF Types, MainTypes
    <2>4. BoundTypes'
      BY SeccompNotifyAssumption DEF Types, BoundTypes, Troubles, More
    <2> QED
      BY <2>1, <2>2, <2>3, <2>4 DEF Types
  <1>2. \A u \in Trees : Queued(u)'
    BY DEF Queued, TasksOf
  <1>3. \A u \in Trees : Serving(u)'
    BY DEF Serving, Launching, Types, ServiceTypes
  <1>4. \A u \in Trees : Launching(u)'
    BY DEF Launching, Waiting, Types, ServiceTypes
  <1>5. \A u \in Trees : Handling(u)'
    BY DEF Handling, Serving, Types, ServiceTypes
  <1>6. Shown'
    BY DEF Shown, RawReads, Showing
  <1>7. Calm'
    <2>1. /\ RangeOf(backlog) = RangeOf(Tail(backlog)) \cup {Head(backlog)}
          /\ Head(backlog) \in Trees
      BY TailOnce DEF Types, ServiceTypes
    <2>2. \A u \in Trees : Connected(u) => Connected(u)'
      BY <2>1, SeccompNotifyAssumption DEF Connected
    <2> QED
      BY <2>2 DEF Calm, NobodyRefused, Undisturbed, TasksOf
  <1> QED
    BY <1>1, <1>2, <1>3, <1>4, <1>5, <1>6, <1>7

\* The accept thread receives a listener.
LEMMA ReceiveKeepsInv ==
  ASSUME IInv, Receive
  PROVE  IInv'
  <1> USE DEF IInv, Tree, Receive,
              launchVars, taskVars, heldVars, acceptVars, superVars,
              vaultVars, boundVars, passedVars, failVars, moreVars
  <1>1. Types'
    <2>1. TaskTypes'
      BY DEF Types, TaskTypes
    <2>2. ServiceTypes'
      BY DEF Types, ServiceTypes, Launches, Holders, SuperSteps
    <2>3. MainTypes'
      BY DEF Types, MainTypes
    <2>4. BoundTypes'
      BY SeccompNotifyAssumption DEF Types, BoundTypes, Troubles, More
    <2> QED
      BY <2>1, <2>2, <2>3, <2>4 DEF Types
  <1>2. \A u \in Trees : Queued(u)'
    BY DEF Queued, TasksOf
  <1>3. \A u \in Trees : Serving(u)'
    <2>1. PICK t \in Trees : t = accepted /\ at[t] = "socket"
      BY DEF Types, ServiceTypes
    <2>2. \A u \in Trees \ {t} : at'[u] = at[u] /\ step'[u] = step[u]
      BY <2>1 DEF Types, ServiceTypes
    <2>3. \/ at'[t] = "super" /\ step'[t] = "poll"
          \/ at'[t] = "leaked" /\ step'[t] = step[t]
      BY <2>1 DEF Types, ServiceTypes
    <2>4. cur' = cur /\ \A u \in Trees : Serving(u)
      OBVIOUS
    <2> HIDE DEF IInv, Receive
    <2>5. ASSUME NEW u \in Trees, u # t PROVE Serving(u)'
      BY <2>2, <2>4, <2>5 DEF Serving
    <2>6. Serving(t)'
      BY <2>1, <2>3, <2>4 DEF Serving
    <2> QED
      BY <2>5, <2>6
  <1>4. \A u \in Trees : Launching(u)'
    BY DEF Launching, Waiting, Types, ServiceTypes
  <1>5. \A u \in Trees : Handling(u)'
    BY DEF Handling, Serving, Types, ServiceTypes
  <1>6. Shown'
    BY DEF Shown, RawReads, Showing
  <1>7. Calm'
    BY DEF Calm, NobodyRefused, Undisturbed, Connected, TasksOf,
           Launching, Types, ServiceTypes
  <1> QED
    BY <1>1, <1>2, <1>3, <1>4, <1>5, <1>6, <1>7

\* The accept thread finds that nothing was sent.
LEMMA ReceiveNothingKeepsInv ==
  ASSUME IInv, ReceiveNothing
  PROVE  IInv'
  <1> USE DEF IInv, Tree, ReceiveNothing,
              launchVars, taskVars, heldVars, acceptVars, superVars,
              vaultVars, boundVars, passedVars, failVars, moreVars
  <1>1. Types'
    <2>1. TaskTypes'
      BY DEF Types, TaskTypes
    <2>2. ServiceTypes'
      BY DEF Types, ServiceTypes, Launches, Holders, SuperSteps
    <2>3. MainTypes'
      BY DEF Types, MainTypes
    <2>4. BoundTypes'
      BY SeccompNotifyAssumption DEF Types, BoundTypes, Troubles, More
    <2> QED
      BY <2>1, <2>2, <2>3, <2>4 DEF Types
  <1>2. \A u \in Trees : Queued(u)'
    BY DEF Queued, TasksOf
  <1>3. \A u \in Trees : Serving(u)'
    BY DEF Serving, Launching, Types, ServiceTypes
  <1>4. \A u \in Trees : Launching(u)'
    BY DEF Launching, Waiting, Types, ServiceTypes
  <1>5. \A u \in Trees : Handling(u)'
    BY DEF Handling, Serving, Types, ServiceTypes
  <1>6. Shown'
    BY DEF Shown, RawReads, Showing
  <1>7. Calm'
    BY DEF Calm, NobodyRefused, Undisturbed, Connected, TasksOf,
           Launching, Types, ServiceTypes
  <1> QED
    BY <1>1, <1>2, <1>3, <1>4, <1>5, <1>6, <1>7

\* A supervisor takes the mutex of the secret store.
LEMMA LockKeepsInv ==
  ASSUME IInv, NEW t \in Trees, Lock(t)
  PROVE  IInv'
  <1> USE DEF IInv, Tree, Lock,
              launchVars, taskVars, heldVars, acceptVars, superVars,
              vaultVars, boundVars, passedVars, failVars, moreVars
  <1>1. Types'
    <2>1. TaskTypes'
      BY DEF Types, TaskTypes
    <2>2. ServiceTypes'
      BY DEF Types, ServiceTypes, Launches, Holders, SuperSteps
    <2>3. MainTypes'
      BY DEF Types, MainTypes
    <2>4. BoundTypes'
      BY SeccompNotifyAssumption DEF Types, BoundTypes, Troubles, More
    <2> QED
      BY <2>1, <2>2, <2>3, <2>4 DEF Types
  <1>2. \A u \in Trees : Queued(u)'
    BY DEF Queued, TasksOf
  <1>3. \A u \in Trees : Serving(u)'
    BY DEF Serving, Launching, Types, ServiceTypes
  <1>4. \A u \in Trees : Launching(u)'
    BY DEF Launching, Waiting, Types, ServiceTypes
  <1>5. \A u \in Trees : Handling(u)'
    BY DEF Handling, Serving, Types, ServiceTypes
  <1>6. Shown'
    BY DEF Shown, RawReads, Showing
  <1>7. Calm'
    BY DEF Calm, NobodyRefused, Undisturbed, Connected, TasksOf,
           Launching, Types, ServiceTypes
  <1> QED
    BY <1>1, <1>2, <1>3, <1>4, <1>5, <1>6, <1>7

\* The main loop starts a relayed request.
LEMMA RelayStartKeepsInv ==
  ASSUME IInv, RelayStart
  PROVE  IInv'
  <1> USE DEF IInv, Tree, RelayStart, InDaemon,
              launchVars, taskVars, heldVars, acceptVars, superVars,
              vaultVars, boundVars, passedVars, failVars, moreVars
  <1>1. Types'
    <2>1. TaskTypes'
      BY DEF Types, TaskTypes
    <2>2. ServiceTypes'
      BY DEF Types, ServiceTypes, Launches, Holders, SuperSteps
    <2>3. MainTypes'
      BY DEF Types, MainTypes
    <2>4. BoundTypes'
      BY SeccompNotifyAssumption DEF Types, BoundTypes, Troubles, More
    <2> QED
      BY <2>1, <2>2, <2>3, <2>4 DEF Types
  <1>2. \A u \in Trees : Queued(u)'
    BY DEF Queued, TasksOf
  <1>3. \A u \in Trees : Serving(u)'
    BY DEF Serving, Launching, Types, ServiceTypes
  <1>4. \A u \in Trees : Launching(u)'
    BY DEF Launching, Waiting, Types, ServiceTypes
  <1>5. \A u \in Trees : Handling(u)'
    BY DEF Handling, Serving, Types, ServiceTypes
  <1>6. Shown'
    BY DEF Shown, RawReads, Showing
  <1>7. Calm'
    BY DEF Calm, NobodyRefused, Undisturbed, Connected, TasksOf,
           Launching, Types, ServiceTypes
  <1> QED
    BY <1>1, <1>2, <1>3, <1>4, <1>5, <1>6, <1>7

\* The daemon is started again.
LEMMA StartKeepsInv ==
  ASSUME IInv, Start
  PROVE  IInv'
  <1> USE DEF IInv, Tree, Start,
              launchVars, taskVars, heldVars, acceptVars, superVars,
              vaultVars, boundVars, passedVars, failVars, moreVars
  <1>1. Types'
    <2>1. TaskTypes'
      BY DEF Types, TaskTypes
    <2>2. ServiceTypes'
      BY DEF Types, ServiceTypes, Launches, Holders, SuperSteps
    <2>3. MainTypes'
      BY DEF Types, MainTypes
    <2>4. BoundTypes'
      BY SeccompNotifyAssumption DEF Types, BoundTypes, Troubles, More
    <2> QED
      BY <2>1, <2>2, <2>3, <2>4 DEF Types
  <1>2. \A u \in Trees : Queued(u)'
    BY DEF Queued, TasksOf
  <1>3. \A u \in Trees : Serving(u)'
    BY DEF Serving, Launching, Types, ServiceTypes
  <1>4. \A u \in Trees : Launching(u)'
    BY DEF Launching, Waiting, Types, ServiceTypes
  <1>5. \A u \in Trees : Handling(u)'
    BY DEF Handling, Serving, Types, ServiceTypes
  <1>6. Shown'
    BY DEF Shown, RawReads, Showing
  <1>7. Calm'
    BY DEF Calm, NobodyRefused, Undisturbed, Connected, TasksOf,
           Launching, Types, ServiceTypes
  <1> QED
    BY <1>1, <1>2, <1>3, <1>4, <1>5, <1>6, <1>7

-----------------------------------------------------------------------------
(* The tasks.                                                               *)

\* A task opens a file.
LEMMA OpenKeepsInv ==
  ASSUME IInv, NEW k \in Tasks, NEW w \in Files, Open(k, w)
  PROVE  IInv'
  <1> USE DEF IInv, Tree, Open,
              launchVars, taskVars, heldVars, acceptVars, superVars,
              vaultVars, boundVars, passedVars, failVars, moreVars
  <1> DEFINE h == TreeOf(k)
             q == Append(queue[h], k)
             r == [task |-> k, want |-> w, trapped |-> filter[h],
                   got |-> IF filter[h] THEN "ENOSYS" ELSE "real"]
             asks == filter[h] /\ at[h] \notin {"closed", "lost"}
  <1>a. h \in Trees /\ w \in Wants
    BY SeccompNotifyAssumption
  <1>b. ASSUME asks
        PROVE  TaskTypes' /\ (\A u \in Trees : Queued(u)') /\ results' = results
    <2>1. k \notin RangeOf(queue[h])
      BY <1>a DEF Queued
    <2>2. q \in Seq(Tasks) /\ Once(q) /\ RangeOf(q) = RangeOf(queue[h]) \cup {k}
      <3>1. queue[h] \in Seq(Tasks) /\ Once(queue[h])
        BY <1>a DEF Queued, Types, TaskTypes
      <3> QED
        BY <2>1, <3>1, AppendOnce
    <2>3. /\ wait' = [wait EXCEPT ![k] = "asking"]
          /\ queue' = [queue EXCEPT ![h] = q] /\ results' = results
      BY <1>b DEF Types, TaskTypes
    <2>4. want' \in [Tasks -> Wants]
      BY <1>a DEF Types, TaskTypes
    <2> HIDE DEF q
    <2>5. TaskTypes' /\ \A u \in Trees : Queued(u)'
      BY <2>2, <2>3, <2>4, OneTask DEF Types, WaitStates
    <2> QED
      BY <2>3, <2>5
  <1>c. ASSUME ~asks
        PROVE  /\ TaskTypes' /\ \A u \in Trees : Queued(u)'
               /\ results' = results \cup {r}
    <2>1. wait' = wait /\ queue' = queue /\ results' = results \cup {r}
      BY <1>c DEF Result
    <2>2. TaskTypes'
      BY <1>a, <2>1 DEF Types, TaskTypes
    <2>3. \A u \in Trees : Queued(u)'
      BY <2>1 DEF Queued, TasksOf
    <2> QED
      BY <2>1, <2>2, <2>3
  <1>d. /\ \A m \in Tasks : m # k => wait'[m] = wait[m] /\ want'[m] = want[m]
        /\ wait'[k] \notin {"taken", "continued"} /\ UNCHANGED <<step, cur>>
    BY DEF Types, TaskTypes
  <1>e. /\ opens < MaxOpens /\ opens' = opens + 1
        /\ UNCHANGED <<refusals, losses, unresolved, rewrites, spawnFails, fails,
                       interrupts, relays, crashes>>
    OBVIOUS
  <1>1. Types'
    <2>1. TaskTypes'
      BY <1>b, <1>c
    <2>2. ServiceTypes'
      BY DEF Types, ServiceTypes, Launches, Holders, SuperSteps
    <2>3. MainTypes'
      BY DEF Types, MainTypes
    <2>4. BoundTypes'
      <3>1. BoundTypes /\ MaxOpens \in Nat
        BY SeccompNotifyAssumption DEF Types
      <3> HIDE DEF IInv, Open
      <3>2. opens' \in 0..MaxOpens
        BY <1>e, <3>1 DEF BoundTypes
      <3>3. Troubles' = Troubles
        BY <1>e DEF Troubles
      <3> QED
        BY <1>e, <3>1, <3>2, <3>3 DEF BoundTypes
    <2> QED
      BY <2>1, <2>2, <2>3, <2>4 DEF Types
  <1>2. \A u \in Trees : Queued(u)'
    BY <1>b, <1>c
  <1>3. \A u \in Trees : Serving(u)'
    BY DEF Serving, Launching, Types, ServiceTypes
  <1>4. \A u \in Trees : Launching(u)'
    BY DEF Launching, Waiting, TasksOf, Types, TaskTypes
  <1>5. \A u \in Trees : Handling(u)'
    <2>1. SUFFICES ASSUME NEW u \in Trees, step[u] \in {"lock", "mask", "inject"},
                          wait'[cur[u]] = "taken"
                   PROVE  Sensitive(want'[cur[u]])
      BY <1>d DEF Handling
    <2>2. cur[u] \in Tasks /\ Handling(u)
      BY <2>1 DEF Serving, Types, ServiceTypes
    <2>3. wait[cur[u]] = "taken" /\ want'[cur[u]] = want[cur[u]]
      BY <1>d, <2>1, <2>2
    <2> QED
      BY <2>1, <2>2, <2>3 DEF Handling
  <1>6. Shown'
    <2>1. r \in Records /\ Harmless(r)
      BY <1>a DEF Records, Answers, Harmless, Types, ServiceTypes
    <2>2. results' = results \/ results' = results \cup {r}
      BY <1>b, <1>c DEF Result
    <2>3. Showing' \subseteq Showing
      BY <1>d DEF Showing
    <2> QED
      BY <2>1, <2>2, <2>3, HarmlessKeep DEF Types
  <1>7. Calm'
    <2>1. SUFFICES ASSUME (crashes + fails + losses = 0)'
                   PROVE  NobodyRefused' /\ \A u \in Trees : Undisturbed(u)'
      BY DEF Calm
    <2>2. NobodyRefused /\ \A u \in Trees : Undisturbed(u)
      BY <2>1 DEF Calm
    <2>3. NobodyRefused'
      <3>1. CASE asks
        BY <1>b, <2>2, <3>1 DEF NobodyRefused
      <3>2. CASE ~asks
        <4>1. ~filter[h]
          BY <1>a, <2>2, <3>2 DEF Undisturbed, TasksOf
        <4> QED
          BY <1>c, <2>2, <3>2, <4>1 DEF NobodyRefused, Result
      <3> QED
        BY <3>1, <3>2
    <2>4. \A u \in Trees : Undisturbed(u)'
      BY <2>2 DEF Undisturbed, Connected, TasksOf, Types, TaskTypes
    <2> QED
      BY <2>3, <2>4
  <1> QED
    BY <1>1, <1>2, <1>3, <1>4, <1>5, <1>6, <1>7

\* A signal interrupts a task that waits.
LEMMA InterruptKeepsInv ==
  ASSUME IInv, NEW k \in Tasks, Interrupt(k)
  PROVE  IInv'
  <1> USE DEF IInv, Tree, Interrupt,
              launchVars, taskVars, heldVars, acceptVars, superVars,
              vaultVars, boundVars, passedVars, failVars, moreVars
  <1> DEFINE h == TreeOf(k)
             q == Without(queue[h], k)
  <1>a. TaskTypes' /\ \A u \in Trees : Queued(u)'
    <2>1. h \in Trees /\ queue[h] \in Seq(Tasks) /\ Once(queue[h])
      BY SeccompNotifyAssumption DEF Queued, Types, TaskTypes
    <2>2. q \in Seq(Tasks) /\ Once(q) /\ RangeOf(q) = RangeOf(queue[h]) \ {k}
      BY <2>1, WithoutOnce
    <2>3. /\ Append(q, k) \in Seq(Tasks) /\ Once(Append(q, k))
          /\ RangeOf(Append(q, k)) = RangeOf(queue[h]) \cup {k}
      <3> HIDE DEF q
      <3>1. k \notin RangeOf(q)
        BY <2>2
      <3> QED
        BY <2>2, <3>1, AppendOnce
    <2>4. want' \in [Tasks -> Wants]
      BY DEF Types, TaskTypes
    <2>5. CASE /\ wait' = [wait EXCEPT ![k] = "asking"]
               /\ queue' = [queue EXCEPT ![h] = Append(q, k)]
      <3> DEFINE p == Append(q, k)
      <3> HIDE DEF p
      <3>1. /\ p \in Seq(Tasks) /\ Once(p) /\ RangeOf(p) = RangeOf(queue[h]) \cup {k}
            /\ queue' = [queue EXCEPT ![h] = p]
        BY <2>3, <2>5 DEF p
      <3> QED
        BY <3>1, <2>4, <2>5, OneTask DEF Types, WaitStates
    <2>6. CASE /\ wait' = [wait EXCEPT ![k] = "no"]
               /\ queue' = [queue EXCEPT ![h] = q]
      <3> HIDE DEF q
      <3> QED
        BY <2>2, <2>4, <2>6, OneTask DEF Types, WaitStates
    <2> QED
      BY <2>5, <2>6
  <1>1. Types'
    <2>1. TaskTypes'
      BY <1>a
    <2>2. ServiceTypes'
      BY DEF Types, ServiceTypes, Launches, Holders, SuperSteps
    <2>3. MainTypes'
      BY DEF Types, MainTypes
    <2>4. BoundTypes'
      <3>1. BoundTypes /\ MaxInterrupts \in Nat /\ MaxTroubles \in Nat
        BY SeccompNotifyAssumption DEF Types
      <3>2. /\ Troubles < MaxTroubles /\ interrupts < MaxInterrupts
            /\ interrupts' = interrupts + 1
            /\ UNCHANGED <<opens, refusals, losses, unresolved, rewrites, spawnFails,
                           fails, relays, crashes>>
        BY DEF More
      <3> HIDE DEF IInv, Interrupt
      <3>3. interrupts' \in 0..MaxInterrupts
        BY <3>1, <3>2 DEF BoundTypes
      <3>4. Troubles' = Troubles + 1 /\ Troubles \in Nat
        BY <3>1, <3>2, SeccompNotifyAssumption DEF BoundTypes, Troubles
      <3> QED
        BY <3>1, <3>2, <3>3, <3>4 DEF BoundTypes
    <2> QED
      BY <2>1, <2>2, <2>3, <2>4 DEF Types
  <1>2. \A u \in Trees : Queued(u)'
    BY <1>a
  <1>3. \A u \in Trees : Serving(u)'
    BY DEF Serving, Launching, Types, ServiceTypes
  <1>4. \A u \in Trees : Launching(u)'
    BY DEF Launching, Waiting, TasksOf, Types, TaskTypes
  <1>5. \A u \in Trees : Handling(u)'
    <2>1. \A m \in Tasks : wait'[m] = "taken" => wait[m] = "taken"
      BY DEF Types, TaskTypes
    <2>2. UNCHANGED <<step, cur, want>> /\ \A u \in Trees : Handling(u)
      OBVIOUS
    <2>3. \A u \in Trees : step[u] \in {"lock", "mask", "inject"} => cur[u] \in Tasks
      BY DEF Serving, Types, ServiceTypes
    <2> HIDE DEF IInv, Interrupt
    <2> QED
      BY <2>1, <2>2, <2>3 DEF Handling
  <1>6. Shown'
    <2>1. Showing' \subseteq Showing
      BY DEF Showing, Types, TaskTypes
    <2> QED
      BY <2>1, HarmlessKeep DEF Types
  <1>7. Calm'
    BY DEF Calm, NobodyRefused, Undisturbed, Connected, TasksOf, Waiting,
           Types, TaskTypes
  <1> QED
    BY <1>1, <1>2, <1>3, <1>4, <1>5, <1>6, <1>7

\* A task ends.
LEMMA DieKeepsInv ==
  ASSUME IInv, NEW k \in Tasks, Die(k)
  PROVE  IInv'
  <1> USE DEF IInv, Tree, Die,
              launchVars, taskVars, heldVars, acceptVars, superVars,
              vaultVars, boundVars, passedVars, failVars, moreVars
  <1> DEFINE h == TreeOf(k)
             q == Without(queue[h], k)
  <1>a. TaskTypes' /\ \A u \in Trees : Queued(u)'
    <2>1. h \in Trees /\ queue[h] \in Seq(Tasks) /\ Once(queue[h])
      BY SeccompNotifyAssumption DEF Queued, Types, TaskTypes
    <2>2. q \in Seq(Tasks) /\ Once(q) /\ RangeOf(q) = RangeOf(queue[h]) \ {k}
      BY <2>1, WithoutOnce
    <2>3. /\ want' \in [Tasks -> Wants] /\ wait' = [wait EXCEPT ![k] = "dead"]
          /\ queue' = [queue EXCEPT ![h] = q]
      BY DEF Types, TaskTypes
    <2> HIDE DEF q
    <2> QED
      BY <2>2, <2>3, OneTask DEF Types, WaitStates
  <1>1. Types'
    <2>1. TaskTypes'
      BY <1>a
    <2>2. ServiceTypes'
      BY DEF Types, ServiceTypes, Launches, Holders, SuperSteps
    <2>3. MainTypes'
      BY DEF Types, MainTypes
    <2>4. BoundTypes'
      BY SeccompNotifyAssumption DEF Types, BoundTypes, Troubles, More
    <2> QED
      BY <2>1, <2>2, <2>3, <2>4 DEF Types
  <1>2. \A u \in Trees : Queued(u)'
    BY <1>a
  <1>3. \A u \in Trees : Serving(u)'
    BY DEF Serving, Launching, Types, ServiceTypes
  <1>4. \A u \in Trees : Launching(u)'
    BY DEF Launching, Waiting, TasksOf, Types, TaskTypes
  <1>5. \A u \in Trees : Handling(u)'
    BY DEF Handling, Serving, Types, TaskTypes, ServiceTypes
  <1>6. Shown'
    <2>1. Showing' \subseteq Showing
      BY DEF Showing, Types, TaskTypes
    <2> QED
      BY <2>1, HarmlessKeep DEF Types
  <1>7. Calm'
    BY DEF Calm, NobodyRefused, Undisturbed, Connected, TasksOf, Waiting,
           Types, TaskTypes
  <1> QED
    BY <1>1, <1>2, <1>3, <1>4, <1>5, <1>6, <1>7

\* A supervisor receives a notification.
LEMMA RecvKeepsInv ==
  ASSUME IInv, NEW t \in Trees, Recv(t)
  PROVE  IInv'
  <1> USE DEF IInv, Tree, Recv,
              launchVars, taskVars, heldVars, acceptVars, superVars,
              vaultVars, boundVars, passedVars, failVars, moreVars
  <1> DEFINE k == Head(queue[t])
             q == Tail(queue[t])
  <1>a. k \in Tasks /\ TreeOf(k) = t /\ wait[k] = "asking"
    <2>1. k \in RangeOf(queue[t])
      BY TailOnce DEF Types, TaskTypes
    <2> QED
      BY <2>1 DEF Queued, TasksOf
  <1>b. TaskTypes' /\ \A u \in Trees : Queued(u)'
    <2>1. q \in Seq(Tasks) /\ Once(q) /\ RangeOf(q) = RangeOf(queue[t]) \ {k}
      <3>1. queue[t] \in Seq(Tasks) /\ Once(queue[t]) /\ queue[t] # <<>>
        BY DEF Queued, Types, TaskTypes
      <3> QED
        BY <3>1, TailOnce
    <2>2. /\ want' \in [Tasks -> Wants] /\ wait' = [wait EXCEPT ![k] = "taken"]
          /\ queue' = [queue EXCEPT ![t] = q]
      BY DEF Types, TaskTypes
    <2> HIDE DEF q, k
    <2> QED
      BY <1>a, <2>1, <2>2, OneTask DEF Types, WaitStates
  <1>c. cur' = [cur EXCEPT ![t] = k] /\ wait' = [wait EXCEPT ![k] = "taken"]
    OBVIOUS
  <1> HIDE DEF k, q
  <1>1. Types'
    <2>1. TaskTypes'
      BY <1>b
    <2>2. ServiceTypes'
      BY <1>a, <1>c DEF Types, ServiceTypes, SuperSteps
    <2>3. MainTypes'
      BY DEF Types, MainTypes
    <2>4. BoundTypes'
      BY SeccompNotifyAssumption DEF Types, BoundTypes, Troubles, More
    <2> QED
      BY <2>1, <2>2, <2>3, <2>4 DEF Types
  <1>2. \A u \in Trees : Queued(u)'
    BY <1>b
  <1>3. \A u \in Trees : Serving(u)'
    BY <1>a, <1>c, SeccompNotifyAssumption DEF Serving, Types, ServiceTypes
  <1>4. \A u \in Trees : Launching(u)'
    BY <1>a, <1>c DEF Launching, Waiting, TasksOf, Types, TaskTypes
  <1>5. \A u \in Trees : Handling(u)'
    BY <1>a, <1>c, SeccompNotifyAssumption, SMTT(30)
    DEF Handling, Serving, Types, TaskTypes, ServiceTypes
  <1>6. Shown'
    <2>1. Showing' \subseteq Showing
      BY <1>c DEF Showing, Types, TaskTypes
    <2> QED
      BY <2>1, HarmlessKeep DEF Types
  <1>7. Calm'
    BY <1>a, <1>c DEF Calm, NobodyRefused, Undisturbed, Connected, TasksOf, Waiting,
           Types, TaskTypes
  <1> QED
    BY <1>1, <1>2, <1>3, <1>4, <1>5, <1>6, <1>7

-----------------------------------------------------------------------------
(* The supervisors.                                                         *)

\* What the invariant says of a launcher and of a masking is kept when tasks
\* only stop waiting and supervisors only go on.
LEMMA FewerWait ==
  ASSUME Types, \A u \in Trees : Launching(u) /\ Handling(u) /\ Serving(u),
         OnlyAnswered,
         UNCHANGED <<launch, want>>,
         \A u \in Trees : \/ at'[u] = at[u]
                          \/ at[u] \in {"super", "leaked", "socket", "heir"}
                             /\ at'[u] # "socket",
         \A u \in Trees : step'[u] \in {"lock", "mask", "inject"} =>
           /\ cur'[u] = cur[u] /\ step[u] \notin {"none", "poll"}
           /\ step[u] = "resolve" => Sensitive(want[cur[u]])
  PROVE  (\A u \in Trees : Launching(u)') /\ \A u \in Trees : Handling(u)'
  <1>1. ASSUME NEW u \in Trees PROVE Launching(u)'
    <2>1. \A k \in TasksOf({u}) : Waiting(k)' => Waiting(k)
      BY DEF TasksOf, Waiting, OnlyAnswered
    <2> QED
      BY <2>1 DEF Launching
  <1>2. ASSUME NEW u \in Trees PROVE Handling(u)'
    <2>1. SUFFICES ASSUME step'[u] \in {"lock", "mask", "inject"},
                          wait'[cur'[u]] = "taken"
                   PROVE  Sensitive(want'[cur'[u]])
      BY DEF Handling
    <2>2. cur'[u] = cur[u] /\ cur[u] \in Tasks
      BY <2>1 DEF Serving, Types, ServiceTypes
    <2>3. wait[cur[u]] = "taken"
      BY <2>1, <2>2 DEF OnlyAnswered
    <2>4. step[u] \in {"lock", "mask", "inject", "resolve"}
      BY <2>1 DEF Types, ServiceTypes, SuperSteps
    <2> QED
      BY <2>1, <2>2, <2>3, <2>4 DEF Handling
  <1> QED
    BY <1>1, <1>2

\* Nothing is disturbed when tasks that wait are answered.
LEMMA StillUndisturbed ==
  ASSUME \A u \in Trees : Undisturbed(u),
         OnlyAnswered,
         UNCHANGED <<launch, at, backlog, accepted>>
  PROVE  \A u \in Trees : Undisturbed(u)'
  <1>1. ASSUME NEW u \in Trees PROVE Undisturbed(u)'
    <2>1. \A k \in TasksOf({u}) : wait[k] = "dead" => wait'[k] = "dead"
      BY DEF TasksOf, OnlyAnswered
    <2>2. Connected(u)' <=> Connected(u)
      BY DEF Connected
    <2> QED
      BY <2>1, <2>2 DEF Undisturbed
  <1> QED
    BY <1>1

\* A supervisor that ends leaves its listener to the relay's child, or refuses
\* the tasks of its tree that wait.
LEMMA FinishFacts ==
  ASSUME IInv, NEW t \in Trees, step[t] = "poll", Finish(t), UNCHANGED <<cur, launch>>
  PROVE  /\ TaskTypes' /\ \A u \in Trees : Tree(u)'
         /\ at' \in [Trees -> Holders] /\ step' \in [Trees -> SuperSteps]
         /\ results \subseteq results'
         /\ \A r \in results' \ results : r \in Records /\ Harmless(r)
         /\ Hup(t) => results' = results /\ wait' = wait
         /\ Showing' \subseteq Showing /\ want' = want
         /\ at' = [at EXCEPT ![t] = at'[t]] /\ at'[t] \in {"heir", "closed"}
  <1> USE DEF IInv, Tree
  <1>1. /\ step' = [step EXCEPT ![t] = "none"]
        /\ at' = [at EXCEPT ![t] = IF t \in heirs THEN "heir" ELSE "closed"]
        /\ at[t] = "super"
    BY DEF Finish, Serving
  <1>2. at' \in [Trees -> Holders] /\ step' \in [Trees -> SuperSteps]
    BY <1>1 DEF Types, ServiceTypes, Holders, SuperSteps
  <1>3. /\ TaskTypes' /\ \A u \in Trees : Queued(u)'
        /\ results \subseteq results'
        /\ \A r \in results' \ results : r \in Records /\ Harmless(r)
        /\ Hup(t) => results' = results /\ wait' = wait
        /\ OnlyAnswered /\ Showing' \subseteq Showing /\ want' = want
    <2>1. CASE t \in heirs
      <3>1. UNCHANGED <<wait, want, queue, results>>
        BY <2>1 DEF Finish, taskVars
      <3>2. TaskTypes'
        BY <3>1 DEF Types, TaskTypes
      <3>3. \A u \in Trees : Queued(u)'
        BY <3>1 DEF Queued, TasksOf
      <3> QED
        BY <3>1, <3>2, <3>3 DEF OnlyAnswered, Showing
    <2>2. CASE t \notin heirs
      <3> DEFINE T == {t}
      <3>1. T \in SUBSET Trees /\ Closed(T)
        BY <2>2 DEF Finish
      <3> HIDE DEF T
      <3>2. /\ TaskTypes' /\ \A u \in Trees : Queued(u)'
            /\ results \subseteq results'
            /\ \A r \in results' \ results : r \in Records /\ r.got = "ENOSYS"
            /\ (\A k \in TasksOf(T) : ~Waiting(k)) => results' = results
            /\ OnlyAnswered /\ Showing' \subseteq Showing
            /\ want' = want
        BY <3>1, ClosedFacts DEF Types
      <3>3. \A r \in results' \ results : Harmless(r)
        BY <3>2 DEF Harmless
      <3>4. ASSUME Hup(t) PROVE results' = results /\ wait' = wait
        <4>1. \A k \in TasksOf(T) : ~Waiting(k)
          BY <3>4 DEF Hup, Waiting, T
        <4>2. wait' = [k \in Tasks |-> IF k \in {m \in TasksOf(T) : Waiting(m)}
                                         THEN "no" ELSE wait[k]]
          BY <3>1 DEF Closed
        <4>3. wait' = wait
          BY <4>1, <4>2 DEF Types, TaskTypes
        <4> QED
          BY <3>2, <4>1, <4>3
      <3> QED
        BY <3>2, <3>3, <3>4
    <2> QED
      BY <2>1, <2>2
  <1>4. \A u \in Trees : Serving(u)'
    BY <1>1 DEF Serving, Types, ServiceTypes
  <1>5. (\A u \in Trees : Launching(u)') /\ \A u \in Trees : Handling(u)'
    <2>1. \A u \in Trees : \/ at'[u] = at[u]
                           \/ at[u] \in {"super", "leaked", "socket", "heir"}
                              /\ at'[u] # "socket"
      BY <1>1 DEF Types, ServiceTypes
    <2>2. \A u \in Trees : step'[u] \in {"lock", "mask", "inject"} =>
            /\ cur'[u] = cur[u] /\ step[u] \notin {"none", "poll"}
            /\ step[u] = "resolve" => Sensitive(want[cur[u]])
      BY <1>1 DEF Types, ServiceTypes
    <2> QED
      BY <1>3, <2>1, <2>2, FewerWait
  <1>6. at' = [at EXCEPT ![t] = at'[t]] /\ at'[t] \in {"heir", "closed"}
    BY <1>1 DEF Types, ServiceTypes
  <1> QED
    BY <1>2, <1>3, <1>4, <1>5, <1>6

\* A supervisor whose tree has ended ends too.
LEMMA PollHupKeepsInv ==
  ASSUME IInv, NEW t \in Trees, PollHup(t)
  PROVE  IInv'
  <1> USE DEF IInv
  <1>1. /\ Hup(t) /\ results' = results /\ wait' = wait /\ want' = want
        /\ TaskTypes' /\ \A u \in Trees : Tree(u)'
        /\ at' \in [Trees -> Holders] /\ step' \in [Trees -> SuperSteps]
        /\ at' = [at EXCEPT ![t] = at'[t]] /\ at'[t] \in {"heir", "closed"}
    BY FinishFacts DEF PollHup, launchVars
  <1>2. UNCHANGED <<launch, filter, heirs, up, backlog, accepted, cur, vault, child,
                    opens, refusals, losses, unresolved, rewrites, spawnFails, fails,
                    interrupts, relays, crashes>>
    BY DEF PollHup, launchVars, acceptVars, vaultVars, boundVars, passedVars, failVars,
           moreVars
  <1>3. Types'
    BY <1>1, <1>2 DEF Types, ServiceTypes, MainTypes, BoundTypes, Troubles
  <1>4. Shown'
    BY <1>1, <1>2 DEF Shown, RawReads, Showing
  <1>5. Calm'
    BY <1>1, <1>2 DEF Calm, NobodyRefused, Undisturbed, Connected, Hup
  <1> QED
    BY <1>1, <1>3, <1>4, <1>5

\* A supervisor ends because of an error of its listener.
LEMMA RecvFailsKeepsInv ==
  ASSUME IInv, NEW t \in Trees, RecvFails(t)
  PROVE  IInv'
  <1> USE DEF IInv
  <1>1. /\ TaskTypes' /\ \A u \in Trees : Tree(u)'
        /\ at' \in [Trees -> Holders] /\ step' \in [Trees -> SuperSteps]
        /\ results \subseteq results'
        /\ \A r \in results' \ results : r \in Records /\ Harmless(r)
        /\ Showing' \subseteq Showing /\ want' = want
    BY FinishFacts DEF RecvFails, launchVars
  <1>2. /\ UNCHANGED <<launch, filter, heirs, up, backlog, accepted, cur, vault, child,
                       opens, refusals, losses, unresolved, rewrites, spawnFails,
                       interrupts, relays, crashes>>
        /\ fails < MaxFails /\ Troubles < MaxTroubles /\ fails' = fails + 1
    BY DEF RecvFails, launchVars, acceptVars, vaultVars, passedVars, moreVars, More
  <1>3. BoundTypes'
    BY <1>2, SeccompNotifyAssumption DEF Types, BoundTypes, Troubles
  <1>4. Types'
    BY <1>1, <1>2, <1>3 DEF Types, ServiceTypes, MainTypes
  <1>5. Shown'
    BY <1>1, <1>2, HarmlessKeep DEF Types
  <1>6. Calm'
    BY <1>2, SeccompNotifyAssumption DEF Calm, Types, BoundTypes
  <1> QED
    BY <1>1, <1>4, <1>5, <1>6

\* A supervisor that is done with a notification keeps the invariant when what it
\* shows is accounted for and refuses nobody.
LEMMA DoneKeepsInv ==
  ASSUME IInv, NEW t \in Trees, step[t] \notin {"none", "poll"},
         NEW v \in {"no", "continued"},
         wait' = [wait EXCEPT ![cur[t]] = IF @ = "taken" THEN v ELSE @],
         UNCHANGED <<launch, filter, want, queue, at, heirs, up, backlog, accepted,
                     child, spawnFails, fails, crashes, losses>>,
         Done(t), vault' \in {vault, Nobody},
         BoundTypes', Shown', NobodyRefused => NobodyRefused'
  PROVE  IInv'
  <1> USE DEF IInv, Tree
  <1>1. /\ TaskTypes' /\ \A u \in Trees : Queued(u)'
        /\ \A u \in Trees : Serving(u)'
        /\ OnlyAnswered
        /\ step' = [step EXCEPT ![t] = "poll"] /\ cur' = [cur EXCEPT ![t] = Nobody]
    BY DoneFacts
  <1>2. (\A u \in Trees : Launching(u)') /\ \A u \in Trees : Handling(u)'
    <2>1. \A u \in Trees : step'[u] \in {"lock", "mask", "inject"} =>
            /\ cur'[u] = cur[u] /\ step[u] \notin {"none", "poll"}
            /\ step[u] = "resolve" => Sensitive(want[cur[u]])
      BY <1>1 DEF Types, ServiceTypes
    <2> QED
      BY <1>1, <2>1, FewerWait
  <1>3. Types'
    <2>1. ServiceTypes'
      BY <1>1 DEF Types, ServiceTypes, SuperSteps
    <2>2. MainTypes'
      BY DEF Types, MainTypes
    <2> QED
      BY <1>1, <2>1, <2>2 DEF Types
  <1>4. Calm'
    <2>1. (\A u \in Trees : Undisturbed(u)) => \A u \in Trees : Undisturbed(u)'
      BY <1>1, StillUndisturbed
    <2> QED
      BY <2>1 DEF Calm
  <1> QED
    BY <1>1, <1>2, <1>3, <1>4

\* An answer keeps the invariant when it is harmless.
LEMMA ReplyKeepsInv ==
  ASSUME IInv, NEW t \in Trees, step[t] \notin {"none", "poll"},
         NEW got \in Answers \ {"ENOSYS"}, Reply(t, got),
         UNCHANGED <<launch, filter, want, at, heirs, up, backlog, accepted, child,
                     boundVars>>,
         vault' \in {vault, Nobody},
         wait[cur[t]] = "taken" => Harmless(Result(cur[t], got))
  PROVE  IInv'
  <1> USE DEF boundVars, passedVars, failVars, moreVars
  <1> DEFINE r == Result(cur[t], got)
  <1>1. /\ wait' = [wait EXCEPT ![cur[t]] = IF @ = "taken" THEN "no" ELSE @]
        /\ results' = results \/ (results' = results \cup {r} /\ wait[cur[t]] = "taken")
        /\ UNCHANGED queue /\ Done(t)
    BY DEF Reply
  <1>2. cur[t] \in Tasks /\ Showing' \subseteq Showing
    BY <1>1, DoneFacts DEF IInv, Tree
  <1>3. r \in Records /\ r.got = got
    BY <1>2, SeccompNotifyAssumption
       DEF Result, Records, IInv, Types, TaskTypes, ServiceTypes
  <1> HIDE DEF r
  <1>4. wait[cur[t]] = "taken" => Harmless(r)
    BY DEF r
  <1>5. Shown'
    BY <1>1, <1>2, <1>3, <1>4, HarmlessKeep DEF IInv, Types
  <1>6. NobodyRefused => NobodyRefused'
    BY <1>1, <1>3 DEF NobodyRefused
  <1>7. BoundTypes'
    BY DEF IInv, Types, BoundTypes, Troubles
  <1> QED
    BY <1>1, <1>5, <1>6, <1>7, DoneKeepsInv

\* CONTINUE keeps it when the path is plain, or counts as one that was not read.
LEMMA ContinueKeepsInv ==
  ASSUME IInv, NEW t \in Trees, step[t] \notin {"none", "poll"}, Continue(t),
         UNCHANGED <<launch, filter, want, at, heirs, up, backlog, accepted, child,
                     vault, opens, refusals, losses, rewrites, failVars, moreVars>>,
         \/ unresolved' = unresolved /\ ~Sensitive(want[cur[t]])
         \/ unresolved < MaxUnresolved /\ More /\ unresolved' = unresolved + 1
  PROVE  IInv'
  <1> USE DEF failVars, moreVars
  <1>1. /\ wait' = [wait EXCEPT ![cur[t]] = IF @ = "taken" THEN "continued" ELSE @]
        /\ UNCHANGED <<results, queue>> /\ Done(t)
    BY DEF Continue
  <1>2. /\ Showing' \subseteq Showing \cup {cur[t]}
        /\ ~Sensitive(want[cur[t]]) => Showing' \subseteq Showing
    BY <1>1, DoneFacts DEF IInv, Tree
  <1>3. Shown'
    <2>1. CASE unresolved' = unresolved /\ ~Sensitive(want[cur[t]])
      BY <1>1, <1>2, <2>1, HarmlessKeep DEF IInv, Types
    <2>2. CASE unresolved' = unresolved + 1
      BY <1>1, <1>2, <2>2, UnresolvedShowsOne DEF IInv, Types
    <2> QED
      BY <2>1, <2>2
  <1>4. NobodyRefused => NobodyRefused'
    BY <1>1 DEF NobodyRefused
  <1>5. BoundTypes'
    BY SeccompNotifyAssumption DEF IInv, Types, BoundTypes, Troubles, More
  <1> QED
    BY <1>1, <1>3, <1>4, <1>5, DoneKeepsInv

\* A supervisor that goes on to the mutex or to the injection changes nothing
\* but its step.
LEMMA GoOnKeepsInv ==
  ASSUME IInv, NEW t \in Trees, NEW s \in {"lock", "inject"},
         step[t] \notin {"none", "poll"},
         step[t] = "resolve" => Sensitive(want[cur[t]]),
         step' = [step EXCEPT ![t] = s], vault' \in {vault, Nobody},
         UNCHANGED <<launch, filter, wait, want, queue, results, at, heirs, up,
                     backlog, accepted, cur, child, boundVars>>
  PROVE  IInv'
  <1> USE DEF IInv, Tree, boundVars, passedVars, failVars, moreVars
  <1>1. Types'
    BY DEF Types, TaskTypes, ServiceTypes, MainTypes, BoundTypes, Troubles, SuperSteps
  <1>2. \A u \in Trees : Queued(u)'
    BY DEF Queued, TasksOf
  <1>3. \A u \in Trees : Serving(u)'
    BY DEF Serving, Types, ServiceTypes
  <1>4. (\A u \in Trees : Launching(u)') /\ \A u \in Trees : Handling(u)'
    <2>1. \A u \in Trees : step'[u] \in {"lock", "mask", "inject"} =>
            /\ cur'[u] = cur[u] /\ step[u] \notin {"none", "poll"}
            /\ step[u] = "resolve" => Sensitive(want[cur[u]])
      BY DEF Types, ServiceTypes
    <2> QED
      BY <2>1, FewerWait DEF OnlyAnswered
  <1>5. Shown'
    BY DEF Shown, RawReads, Showing
  <1>6. Calm'
    BY DEF Calm, NobodyRefused, Undisturbed, Connected
  <1> QED
    BY <1>1, <1>2, <1>3, <1>4, <1>5, <1>6

\* A supervisor resolves the path and asks the rules.
LEMMA ResolveKeepsInv ==
  ASSUME IInv, NEW t \in Trees, Resolve(t)
  PROVE  IInv'
  <1> USE DEF launchVars, heldVars, acceptVars, vaultVars
  <1>1. /\ step[t] = "resolve"
        /\ UNCHANGED <<launch, filter, want, at, heirs, up, backlog, accepted, vault,
                       child, opens, refusals, losses, rewrites, failVars, moreVars>>
    BY DEF Resolve
  <1>2. CASE unresolved < MaxUnresolved /\ More /\ unresolved' = unresolved + 1
             /\ Continue(t)
    BY <1>1, <1>2, ContinueKeepsInv
  <1>3. CASE ~Sensitive(want[cur[t]]) /\ Continue(t) /\ unresolved' = unresolved
    BY <1>1, <1>3, ContinueKeepsInv
  <1>4. CASE want[cur[t]] = "odd" /\ Reply(t, "ENOENT") /\ unresolved' = unresolved
    <2>1. Harmless(Result(cur[t], "ENOENT"))
      BY <1>4 DEF Harmless, Result
    <2> QED
      BY <1>1, <1>4, <2>1, ReplyKeepsInv DEF Answers, boundVars, passedVars
  <1>5. CASE /\ Sensitive(want[cur[t]]) /\ step' = [step EXCEPT ![t] = "lock"]
             /\ UNCHANGED <<wait, queue, results, cur, unresolved>>
    BY <1>1, <1>5, GoOnKeepsInv DEF boundVars, passedVars
  <1> QED
    BY <1>2, <1>3, <1>4, <1>5 DEF Resolve

\* A supervisor masks the file and drops the mutex.
LEMMA MaskKeepsInv ==
  ASSUME IInv, NEW t \in Trees, Mask(t)
  PROVE  IInv'
  <1> USE DEF launchVars, heldVars, acceptVars
  <1>1. /\ step[t] = "mask" /\ vault' = Nobody
        /\ UNCHANGED <<launch, filter, want, at, heirs, up, backlog, accepted, child,
                       boundVars>>
    BY DEF Mask
  <1>2. CASE want[cur[t]] = "secret"
    BY <1>1, <1>2, GoOnKeepsInv DEF Mask
  <1>3. CASE want[cur[t]] # "secret"
    <2>1. wait[cur[t]] = "taken" => Harmless(Result(cur[t], "ENOENT"))
      BY <1>1 DEF Harmless, Result, Sensitive, IInv, Tree, Handling
    <2> QED
      BY <1>1, <1>3, <2>1, ReplyKeepsInv DEF Mask, Answers
  <1> QED
    BY <1>2, <1>3

\* A supervisor injects the masked copy, or refuses.
LEMMA InjectKeepsInv ==
  ASSUME IInv, NEW t \in Trees, Inject(t)
  PROVE  IInv'
  <1> USE DEF launchVars, heldVars, acceptVars, vaultVars
  <1>1. /\ step[t] = "inject"
        /\ UNCHANGED <<launch, filter, want, at, heirs, up, backlog, accepted, vault,
                       child, boundVars>>
    BY DEF Inject
  <1>2. ASSUME NEW got \in {"masked", "ENOENT"}
        PROVE  wait[cur[t]] = "taken" => Harmless(Result(cur[t], got))
    BY <1>1 DEF Harmless, Result, Sensitive, IInv, Tree, Handling
  <1>3. CASE Reply(t, "masked")
    BY <1>1, <1>2, <1>3, ReplyKeepsInv DEF Answers
  <1>4. CASE Reply(t, "ENOENT")
    BY <1>1, <1>2, <1>4, ReplyKeepsInv DEF Answers
  <1> QED
    BY <1>3, <1>4 DEF Inject

-----------------------------------------------------------------------------
(* The kernel after CONTINUE, and a listener lost on its way.               *)

\* The kernel opens the path of a task that was told to go on.
LEMMA ContinuedKeepsInv ==
  ASSUME IInv, NEW k \in Tasks, Continued(k)
  PROVE  IInv'
  <1> USE DEF IInv, Tree
  <1>1. /\ wait[k] = "continued" /\ wait' = [wait EXCEPT ![k] = "no"]
        /\ UNCHANGED <<launch, filter, want, queue, at, heirs, up, backlog, accepted,
                       step, cur, vault, child, opens, refusals, losses, unresolved,
                       spawnFails, fails, interrupts, relays, crashes>>
    BY DEF Continued, launchVars, heldVars, acceptVars, superVars, vaultVars, failVars,
           moreVars
  <1>2. /\ wait' \in [Tasks -> WaitStates]
        /\ \A m \in Tasks : wait'[m] = IF m = k THEN "no" ELSE wait[m]
    BY <1>1 DEF Types, TaskTypes, WaitStates
  <1>3. PICK x \in Records :
          /\ x.got = "real" /\ results' = results \cup {x}
          /\ \/ rewrites' = rewrites /\ x.want = want[k]
             \/ rewrites < MaxRewrites /\ More /\ rewrites' = rewrites + 1
    <2> DEFINE r == Result(k, "real")
    <2>1. r \in Records /\ r.got = "real" /\ r.want = want[k]
      BY SeccompNotifyAssumption
         DEF Result, Records, Answers, Types, TaskTypes, ServiceTypes
    <2>2. \A w \in Files : /\ [r EXCEPT !.want = w] \in Records
                          /\ [r EXCEPT !.want = w].got = "real"
      BY SeccompNotifyAssumption
         DEF Result, Records, Answers, Types, TaskTypes, ServiceTypes
    <2> HIDE DEF r
    <2>3. \/ results' = results \cup {r} /\ rewrites' = rewrites
          \/ /\ rewrites < MaxRewrites /\ More /\ rewrites' = rewrites + 1
             /\ \E w \in Files : results' = results \cup {[r EXCEPT !.want = w]}
      BY DEF Continued, r
    <2> QED
      BY <2>1, <2>2, <2>3
  <1>4. TaskTypes' /\ \A u \in Trees : Queued(u)'
    BY <1>1, <1>2, StopWaiting DEF Types
  <1>5. OnlyAnswered /\ Showing' \subseteq Showing \ {k}
    BY <1>1, <1>2 DEF OnlyAnswered, Showing
  <1>6. Types'
    <2>1. ServiceTypes' /\ MainTypes'
      BY <1>1 DEF Types, ServiceTypes, MainTypes
    <2>2. BoundTypes'
      BY <1>1, <1>3, SeccompNotifyAssumption DEF Types, BoundTypes, Troubles, More
    <2> QED
      BY <1>4, <2>1, <2>2 DEF Types
  <1>7. \A u \in Trees : Serving(u)'
    BY <1>1 DEF Serving
  <1>8. (\A u \in Trees : Launching(u)') /\ \A u \in Trees : Handling(u)'
    <2>1. \A u \in Trees : step'[u] \in {"lock", "mask", "inject"} =>
            /\ cur'[u] = cur[u] /\ step[u] \notin {"none", "poll"}
            /\ step[u] = "resolve" => Sensitive(want[cur[u]])
      BY <1>1
    <2> QED
      BY <1>1, <1>5, <2>1, FewerWait
  <1>9. Shown'
    BY <1>1, <1>3, <1>5, ContinuedShowsOne DEF Types
  <1>10. Calm'
    <2>1. (\A u \in Trees : Undisturbed(u)) => \A u \in Trees : Undisturbed(u)'
      BY <1>1, <1>5, StillUndisturbed
    <2>2. NobodyRefused => NobodyRefused'
      BY <1>3 DEF NobodyRefused
    <2> QED
      BY <1>1, <2>1, <2>2 DEF Calm
  <1> QED
    BY <1>4, <1>6, <1>7, <1>8, <1>9, <1>10

\* The accept thread drops a connection, and the listener that was in it.
LEMMA ReceiveFailsKeepsInv ==
  ASSUME IInv, ReceiveFails
  PROVE  IInv'
  <1> USE DEF IInv, Tree
  <1> DEFINE T == {accepted}
  <1>1. /\ accepted # Nobody /\ losses < MaxLosses /\ More /\ losses' = losses + 1
        /\ accepted' = Nobody
        /\ UNCHANGED <<launch, filter, heirs, up, backlog, step, cur, vault, child,
                       opens, refusals, unresolved, rewrites, spawnFails, fails,
                       interrupts, relays, crashes>>
    BY DEF ReceiveFails, launchVars, superVars, vaultVars, passedVars, failVars, moreVars
  <1>2. accepted \in Trees
    BY <1>1 DEF Types, ServiceTypes
  <1>3. /\ TaskTypes' /\ \A u \in Trees : Queued(u)'
        /\ results \subseteq results'
        /\ \A r \in results' \ results : r \in Records /\ r.got = "ENOSYS"
        /\ OnlyAnswered /\ Showing' \subseteq Showing /\ want' = want
        /\ \A u \in Trees : at'[u] = at[u] \/ (at[u] = "socket" /\ at'[u] = "lost")
        /\ at' \in [Trees -> Holders]
    <2>1. CASE at[accepted] = "socket"
      <3>1. /\ at' = [at EXCEPT ![accepted] = "lost"]
            /\ T \in SUBSET Trees /\ Closed(T)
        BY <1>2, <2>1 DEF ReceiveFails
      <3> HIDE DEF T
      <3>2. /\ TaskTypes' /\ \A u \in Trees : Queued(u)'
            /\ results \subseteq results'
            /\ \A r \in results' \ results : r \in Records /\ r.got = "ENOSYS"
            /\ OnlyAnswered /\ Showing' \subseteq Showing /\ want' = want
        BY <3>1, ClosedFacts DEF Types
      <3> QED
        BY <2>1, <3>1, <3>2 DEF Types, ServiceTypes, Holders
    <2>2. CASE at[accepted] # "socket"
      <3>1. UNCHANGED <<at, wait, want, queue, results>>
        BY <2>2 DEF ReceiveFails, taskVars
      <3>2. TaskTypes' /\ (\A u \in Trees : Queued(u)') /\ at' \in [Trees -> Holders]
        BY <3>1 DEF Types, TaskTypes, ServiceTypes, Queued, TasksOf
      <3> QED
        BY <3>1, <3>2 DEF OnlyAnswered, Showing
    <2> QED
      BY <2>1, <2>2
  <1> HIDE DEF T
  <1>4. Types'
    <2>1. ServiceTypes' /\ MainTypes'
      BY <1>1, <1>3 DEF Types, ServiceTypes, MainTypes
    <2>2. BoundTypes'
      BY <1>1, SeccompNotifyAssumption DEF Types, BoundTypes, Troubles, More
    <2> QED
      BY <1>3, <2>1, <2>2 DEF Types
  <1>5. \A u \in Trees : Serving(u)'
    BY <1>1, <1>3 DEF Serving
  <1>6. (\A u \in Trees : Launching(u)') /\ \A u \in Trees : Handling(u)'
    <2>1. \A u \in Trees : step'[u] \in {"lock", "mask", "inject"} =>
            /\ cur'[u] = cur[u] /\ step[u] \notin {"none", "poll"}
            /\ step[u] = "resolve" => Sensitive(want[cur[u]])
      BY <1>1
    <2> QED
      BY <1>1, <1>3, <2>1, FewerWait
  <1>7. Shown'
    BY <1>1, <1>3, HarmlessKeep DEF Harmless, Types
  <1>8. Calm'
    BY <1>1, SeccompNotifyAssumption DEF Calm, Types, BoundTypes
  <1> QED
    BY <1>3, <1>4, <1>5, <1>6, <1>7, <1>8

-----------------------------------------------------------------------------
(* The end of a relayed request and of the daemon.                          *)

\* The relay's child ends and with it the listeners only it had open.
LEMMA RelayEndKeepsInv ==
  ASSUME IInv, RelayEnd
  PROVE  IInv'
  <1> USE DEF IInv, Tree
  <1> DEFINE T == {u \in Trees : at[u] = "heir"}
  <1>1. /\ child' = FALSE /\ heirs' = {} /\ vault' \in {vault, Nobody}
        /\ at' = [u \in Trees |-> IF at[u] = "heir" THEN "closed" ELSE at[u]]
        /\ UNCHANGED <<launch, filter, up, backlog, accepted, step, cur, opens,
                       refusals, losses, unresolved, rewrites, spawnFails, fails,
                       interrupts, relays, crashes>>
    BY DEF RelayEnd, launchVars, acceptVars, superVars, boundVars, passedVars, failVars,
           moreVars
  <1>2. T \in SUBSET Trees /\ Closed(T)
    BY DEF RelayEnd
  <1> HIDE DEF T
  <1>3. /\ TaskTypes' /\ \A u \in Trees : Queued(u)'
        /\ results \subseteq results'
        /\ \A r \in results' \ results : r \in Records /\ r.got = "ENOSYS"
        /\ (\A k \in TasksOf(T) : ~Waiting(k)) => results' = results
        /\ OnlyAnswered /\ Showing' \subseteq Showing /\ want' = want
    BY <1>2, ClosedFacts DEF Types
  <1>4. Types'
    <2>1. ServiceTypes'
      BY <1>1 DEF Types, ServiceTypes, Holders
    <2>2. MainTypes'
      BY <1>1 DEF Types, MainTypes
    <2>3. BoundTypes'
      BY <1>1 DEF Types, BoundTypes, Troubles
    <2> QED
      BY <1>3, <2>1, <2>2, <2>3 DEF Types
  <1>5. \A u \in Trees : Serving(u)'
    BY <1>1 DEF Serving, Types, ServiceTypes
  <1>6. (\A u \in Trees : Launching(u)') /\ \A u \in Trees : Handling(u)'
    <2>1. \A u \in Trees : \/ at'[u] = at[u]
                           \/ at[u] \in {"super", "leaked", "socket", "heir"}
                              /\ at'[u] # "socket"
      BY <1>1
    <2>2. \A u \in Trees : step'[u] \in {"lock", "mask", "inject"} =>
            /\ cur'[u] = cur[u] /\ step[u] \notin {"none", "poll"}
            /\ step[u] = "resolve" => Sensitive(want[cur[u]])
      BY <1>1
    <2> QED
      BY <1>1, <1>3, <2>1, <2>2, FewerWait
  <1>7. Shown'
    BY <1>1, <1>3, HarmlessKeep DEF Harmless, Types
  <1>8. Calm'
    <2>1. SUFFICES ASSUME NobodyRefused, \A u \in Trees : Undisturbed(u)
                   PROVE  NobodyRefused' /\ \A u \in Trees : Undisturbed(u)'
      BY <1>1 DEF Calm
    <2>2. \A k \in TasksOf(T) : ~Waiting(k)
      BY <2>1 DEF Undisturbed, TasksOf, T, Waiting
    <2>3. NobodyRefused'
      BY <1>3, <2>1, <2>2 DEF NobodyRefused
    <2>4. ASSUME NEW u \in Trees PROVE Undisturbed(u)'
      <3>1. \A k \in TasksOf({u}) : wait[k] = "dead" => wait'[k] = "dead"
        BY <1>3 DEF TasksOf, OnlyAnswered
      <3> QED
        BY <1>1, <2>1, <3>1 DEF Undisturbed, Connected
    <2> QED
      BY <2>3, <2>4
  <1> QED
    BY <1>3, <1>4, <1>5, <1>6, <1>7, <1>8

\* The daemon ends.
LEMMA CrashKeepsInv ==
  ASSUME IInv, Crash
  PROVE  IInv'
  <1> USE DEF IInv, Tree
  <1> DEFINE T == {u \in Trees : at'[u] \in {"lost", "closed"}}
  <1>1. /\ crashes < MaxCrashes /\ More /\ crashes' = crashes + 1
        /\ up' = FALSE /\ backlog' = <<>> /\ accepted' = Nobody
        /\ step' = [u \in Trees |-> "none"] /\ cur' = [u \in Trees |-> Nobody]
        /\ vault' = Nobody
        /\ at' = [u \in Trees |-> IF at[u] = "socket" THEN "lost"
                                  ELSE IF ~InDaemon(u) THEN at[u]
                                  ELSE IF u \in heirs THEN "heir" ELSE "closed"]
        /\ UNCHANGED <<launch, filter, heirs, child, opens, refusals, losses,
                       unresolved, rewrites, spawnFails, fails, interrupts, relays>>
    BY DEF Crash, launchVars, passedVars, failVars
  <1>2. T \in SUBSET Trees /\ Closed(T)
    BY DEF Crash
  <1> HIDE DEF T
  <1>3. /\ TaskTypes' /\ \A u \in Trees : Queued(u)'
        /\ results \subseteq results'
        /\ \A r \in results' \ results : r \in Records /\ r.got = "ENOSYS"
        /\ OnlyAnswered /\ Showing' \subseteq Showing /\ want' = want
    BY <1>2, ClosedFacts DEF Types
  <1>4. Types'
    <2>1. ServiceTypes'
      BY <1>1 DEF Types, ServiceTypes, Holders, SuperSteps
    <2>2. MainTypes'
      BY <1>1 DEF Types, MainTypes
    <2>3. BoundTypes'
      <3>1. BoundTypes /\ MaxCrashes \in Nat /\ MaxTroubles \in Nat
        BY SeccompNotifyAssumption DEF Types
      <3>2. /\ Troubles < MaxTroubles /\ crashes < MaxCrashes /\ crashes' = crashes + 1
            /\ UNCHANGED <<opens, refusals, losses, unresolved, rewrites, spawnFails,
                           fails, interrupts, relays>>
        BY <1>1 DEF More
      <3> HIDE DEF IInv
      <3>3. crashes' \in 0..MaxCrashes
        BY <3>1, <3>2 DEF BoundTypes
      <3>4. Troubles' = Troubles + 1 /\ Troubles \in Nat
        BY <3>1, <3>2, SeccompNotifyAssumption DEF BoundTypes, Troubles
      <3> QED
        BY <3>1, <3>2, <3>3, <3>4 DEF BoundTypes
    <2> QED
      BY <1>3, <2>1, <2>2, <2>3 DEF Types
  <1>5. \A u \in Trees : Serving(u)'
    BY <1>1 DEF Serving, InDaemon, Types, ServiceTypes
  <1>6. (\A u \in Trees : Launching(u)') /\ \A u \in Trees : Handling(u)'
    <2>1. \A u \in Trees : \/ at'[u] = at[u]
                           \/ at[u] \in {"super", "leaked", "socket", "heir"}
                              /\ at'[u] # "socket"
      BY <1>1 DEF InDaemon
    <2>2. \A u \in Trees : step'[u] = "none"
      BY <1>1
    <2> QED
      BY <1>1, <1>3, <2>1, <2>2, FewerWait
  <1>7. Shown'
    BY <1>1, <1>3, HarmlessKeep DEF Harmless, Types
  <1>8. Calm'
    BY <1>1, SeccompNotifyAssumption DEF Calm, Types, BoundTypes
  <1> QED
    BY <1>3, <1>4, <1>5, <1>6, <1>7, <1>8

-----------------------------------------------------------------------------
(* The theorems.                                                            *)

\* Initially nothing has happened.
LEMMA InitInv == Init => IInv
  <1> SUFFICES ASSUME Init PROVE IInv
    OBVIOUS
  <1> USE DEF Init
  <1>1. Types
    <2>1. TaskTypes /\ MainTypes
      BY EmptySeq DEF TaskTypes, WaitStates, MainTypes, Wants
    <2>2. ServiceTypes
      <3>1. backlog \in Seq(Trees)
        BY EmptySeq
      <3> QED
        BY <3>1 DEF ServiceTypes, Launches, Holders, SuperSteps
    <2>3. BoundTypes
      BY SeccompNotifyAssumption DEF BoundTypes, Troubles
    <2> QED
      BY <2>1, <2>2, <2>3 DEF Types
  <1>2. ASSUME NEW t \in Trees PROVE Tree(t)
    <2>1. queue[t] = <<>> /\ Len(queue[t]) = 0 /\ \A k \in TasksOf({t}) : wait[k] = "no"
      BY DEF TasksOf
    <2>2. Queued(t)
      <3>1. Once(queue[t]) /\ RangeOf(queue[t]) = {}
        BY <2>1 DEF Once, RangeOf
      <3>2. {k \in TasksOf({t}) : wait[k] = "asking"} = {}
        BY <2>1
      <3> QED
        BY <3>1, <3>2 DEF Queued
    <2>3. Serving(t) /\ Launching(t) /\ Handling(t)
      BY <2>1 DEF Serving, Launching, Handling, Waiting
    <2> QED
      BY <2>2, <2>3 DEF Tree
  <1>3. Shown
    <2>1. RawReads = {}
      BY DEF RawReads
    <2>2. Showing = {}
      BY DEF Showing
    <2> QED
      BY <2>1, <2>2, FS_EmptySet DEF Shown
  <1>4. Calm
    BY DEF Calm, NobodyRefused, Undisturbed
  <1> QED
    BY <1>1, <1>2, <1>3, <1>4 DEF IInv

\* Every step keeps the invariant.
LEMMA NextInv == IInv /\ [Next]_vars => IInv'
  <1> SUFFICES ASSUME IInv, [Next]_vars PROVE IInv'
    OBVIOUS
  <1>1. ASSUME NEW t \in Trees, Launcher(t) \/ GiveUp(t) PROVE IInv'
    BY <1>1, ConnectKeepsInv, InstallKeepsInv, HandoffKeepsInv, GiveUpKeepsInv
       DEF Launcher
  <1>2. ASSUME NEW t \in Trees, Supervise(t) \/ RecvFails(t) PROVE IInv'
    BY <1>2, PollHupKeepsInv, RecvKeepsInv, ResolveKeepsInv, LockKeepsInv,
       MaskKeepsInv, InjectKeepsInv, RecvFailsKeepsInv DEF Supervise
  <1>3. ASSUME NEW k \in Tasks, Task(k) PROVE IInv'
    BY <1>3, InterruptKeepsInv, DieKeepsInv, ContinuedKeepsInv, OpenKeepsInv DEF Task
  <1>4. CASE Accepting
    BY <1>4, AcceptKeepsInv, ReceiveKeepsInv, ReceiveNothingKeepsInv DEF Accepting
  <1>5. CASE ReceiveFails \/ RelayStart \/ RelayEnd \/ Crash \/ Start
    BY <1>5, ReceiveFailsKeepsInv, RelayStartKeepsInv, RelayEndKeepsInv, CrashKeepsInv, StartKeepsInv
  <1>6. CASE UNCHANGED vars
    <2> USE <1>6 DEF vars, launchVars, taskVars, heldVars, acceptVars, superVars,
                     vaultVars, boundVars, passedVars, failVars, moreVars, IInv
    <2>1. Types'
      BY DEF Types, TaskTypes, ServiceTypes, MainTypes, BoundTypes, Troubles
    <2>2. \A t \in Trees : Tree(t)'
      BY DEF Tree, Queued, Serving, Launching, Handling, Waiting, TasksOf
    <2>3. Shown'
      BY DEF Shown, RawReads, Showing
    <2>4. Calm'
      BY DEF Calm, NobodyRefused, Undisturbed, Connected
    <2> QED
      BY <2>1, <2>2, <2>3, <2>4
  <1> QED
    BY <1>1, <1>2, <1>3, <1>4, <1>5, <1>6 DEF Next

\* The invariant holds in every reachable state.
THEOREM SpecIInv == Spec => []IInv
  BY InitInv, NextInv, PTL DEF Spec

\* Every variable keeps its type, a supervisor has a task exactly while it
\* answers one, and a queue holds exactly the tasks that ask.
THEOREM SpecTypeOK == Spec => []TypeOK
  <1>1. IInv => TypeOK
    <2> SUFFICES ASSUME IInv PROVE TypeOK
      OBVIOUS
    <2>1. ASSUME NEW t \in Trees
          PROVE  /\ cur[t] = Nobody <=> step[t] \in {"none", "poll"}
                 /\ step[t] # "none" <=> at[t] = "super"
                 /\ \A k \in TasksOf({t}) : wait[k] = "asking" <=> k \in RangeOf(queue[t])
      BY DEF IInv, Tree, Serving, Queued
    <2>2. results \subseteq [task : Tasks, want : Wants, got : Answers,
                             trapped : BOOLEAN]
      BY DEF IInv, Shown, Records
    <2> QED
      BY <2>1, <2>2 DEF TypeOK, WaitStates, IInv, Types, TaskTypes, ServiceTypes, MainTypes,
                       BoundTypes
  <1> QED
    BY <1>1, SpecIInv, PTL

\* The raw bytes of a sensitive file reach a task under the filter at most as often
\* as a path could not be read from the task's memory (resolve_target_path) or
\* was rewritten before the kernel read it again, and no task that opens a plain
\* file is given another answer: neither interrupted opens, dying tasks, errors of
\* the injection nor ends of the daemon change that.
THEOREM SpecRawOnlyUnresolved == Spec => []RawOnlyUnresolved
  <1>1. ASSUME IInv PROVE RawOnlyUnresolved
    <2>1. /\ Cardinality(RawReads) \in Nat /\ Cardinality(Showing) \in Nat
          /\ unresolved \in Nat /\ rewrites \in Nat
      BY <1>1, FS_CardinalityType, SeccompNotifyAssumption
         DEF IInv, Shown, Types, BoundTypes
    <2>2. Cardinality(RawReads) + Cardinality(Showing) <= unresolved + rewrites
      BY <1>1 DEF IInv, Shown
    <2> QED
      BY <1>1, <2>1, <2>2 DEF IInv, Shown, RawOnlyUnresolved
  <1> QED
    BY <1>1, SpecIInv, PTL

\* As long as the daemon runs, no listener has failed and none was lost between
\* the launcher and the supervisor, no open is refused with ENOSYS: a supervisor
\* closes its listener only after its tree's last task, a relay's child that
\* keeps one open included.
THEOREM SpecRefusedOnlyByFailure == Spec => []RefusedOnlyByFailure
  <1>1. IInv => RefusedOnlyByFailure
    <2>1. IInv => crashes + fails + losses = 0 \/ crashes + fails + losses > 0
      BY SeccompNotifyAssumption DEF IInv, Types, BoundTypes
    <2> QED
      BY <2>1 DEF IInv, Calm, NobodyRefused, RefusedOnlyByFailure
  <1> QED
    BY <1>1, SpecIInv, PTL

-----------------------------------------------------------------------------
=============================================================================
