--------------------------- MODULE InspectBus_proofs ---------------------------
(***************************************************************************)
(* Proofs about the event stream, for any number of threads, clients and   *)
(* events and any capacity of the history and of the channel.              *)
(***************************************************************************)
EXTENDS InspectBus, SequenceTheorems, FiniteSetTheorems, WellFoundedInduction, TLAPS

-----------------------------------------------------------------------------
(* The inductive invariant.                                                *)

\* The history is the last events recorded, without a gap.
HistoryRecent ==
  \A i \in 1..Len(history) : history[i] = count - Len(history) + i

\* A recorded event is either sent or in the hands of the thread that reported
\* it, never both.
SentOrHeld ==
  /\ \A t \in Threads : todo[t] # 0 => by[todo[t]] = t /\ todo[t] \notin RangeOf(bus)
  /\ \A e \in 1..count : e \in RangeOf(bus) \/ todo[by[e]] = e

\* No event is sent twice.
SentOnce == \A i, j \in 1..Len(bus) : bus[i] = bus[j] => i = j

\* What a thread reported earlier was sent earlier.
SentInOrder ==
  \A i \in 1..Len(bus) : \A e \in 1..(bus[i] - 1) :
    by[e] = by[bus[i]] => \E k \in 1..(i - 1) : bus[k] = e

\* Nothing is written to a client before its replay.
Fresh(c) == state[c] \in {"away", "accepted"} => got[c] = <<>> /\ past[c] = <<>>

\* A client never waits for a position beyond the next one.
AtMostNext(c) == pos[c] <= Len(bus) + 1

\* What a served client has passed in the channel it has read, will be
\* replayed or misses.
Covered(c) ==
  state[c] = "served" =>
    \A i \in 1..(pos[c] - 1) : bus[i] \in RangeOf(got[c]) \cup RangeOf(past[c]) \cup missed[c]

\* The rest of the replay is a run of events without a gap, and all the events
\* before it were replayed or are missed.
ReplayInOrder(c) ==
  /\ \A i \in 1..Len(past[c]) : past[c][i] = past[c][1] + i - 1
  /\ \A i \in 1..Len(got[c]), j \in 1..Len(past[c]) : got[c][i] < past[c][j]
  /\ past[c] # <<>> =>
       \A e \in 1..(past[c][1] - 1) : e \in RangeOf(got[c]) \cup missed[c]

\* Before an event a client has read the same thread's earlier ones, unless it
\* misses them.
ReadInOrder(c) ==
  \A j \in 1..Len(got[c]) : \A e \in 1..(got[c][j] - 1) :
    by[e] = by[got[c][j]] =>
      e \in missed[c] \/ \E i \in 1..(j - 1) : got[c][i] = e

Distinct(c, a, b) == \A i, j \in a..b : got[c][i] = got[c][j] => i = j

\* The first n events came from the history, those after them from the
\* channel, and neither part repeats an event.
Split(c, n) ==
  /\ Distinct(c, 1, n) /\ Distinct(c, n + 1, Len(got[c]))
  /\ \A i \in (n + 1)..Len(got[c]) : \E k \in 1..(pos[c] - 1) : bus[k] = got[c][i]
  /\ past[c] # <<>> => n = Len(got[c])
TwoParts(c) == \E n \in 0..Len(got[c]) : Split(c, n)

Sound(c) == /\ Fresh(c) /\ AtMostNext(c) /\ Covered(c)
            /\ ReplayInOrder(c) /\ ReadInOrder(c) /\ TwoParts(c)

Sending == HistoryRecent /\ SentOrHeld /\ SentOnce /\ SentInOrder

IInv == TypeOK /\ Sending /\ \A c \in Clients : Sound(c)

-----------------------------------------------------------------------------
(* Sequences and their elements.                                           *)

\* An appended element is an element, and no other is new.
LEMMA RangeOfAppend ==
  ASSUME NEW S, NEW s \in Seq(S), NEW x \in S
  PROVE  RangeOf(Append(s, x)) = RangeOf(s) \cup {x}
  <1>1. Len(Append(s, x)) = Len(s) + 1 /\ Len(s) \in Nat
    OBVIOUS
  <1>2. \A i \in 1..Len(s) : Append(s, x)[i] = s[i]
    OBVIOUS
  <1>3. Append(s, x)[Len(s) + 1] = x
    OBVIOUS
  <1> QED
    BY <1>1, <1>2, <1>3 DEF RangeOf

\* A sequence consists of its head and its tail.
LEMMA RangeOfHeadTail ==
  ASSUME NEW S, NEW s \in Seq(S), s # <<>>
  PROVE  RangeOf(s) = RangeOf(Tail(s)) \cup {Head(s)}
  <1>1. /\ Len(s) \in Nat \ {0} /\ Head(s) = s[1]
        /\ Len(Tail(s)) = Len(s) - 1
        /\ \A i \in 1..Len(Tail(s)) : Tail(s)[i] = s[i + 1]
    BY EmptySeq, HeadTailProperties
  <1>2. RangeOf(Tail(s)) \cup {Head(s)} \subseteq RangeOf(s)
    BY <1>1 DEF RangeOf
  <1>3. ASSUME NEW i \in 1..Len(s) PROVE s[i] \in RangeOf(Tail(s)) \cup {Head(s)}
    <2>1. CASE i = 1
      BY <1>1, <2>1
    <2>2. CASE i # 1
      <3>1. i - 1 \in 1..Len(Tail(s)) /\ Tail(s)[i - 1] = s[i]
        BY <1>1, <2>2
      <3> QED
        BY <3>1 DEF RangeOf
    <2> QED
      BY <2>1, <2>2
  <1> QED
    BY <1>2, <1>3 DEF RangeOf

\* A set of numbers that is not empty has a least one.
LEMMA LeastNumber ==
  ASSUME NEW T, T \subseteq Nat, T # {}
  PROVE  \E i \in T : \A j \in T : i <= j
  <1> DEFINE R == OpToRel(<, Nat)
  <1>1. IsWellFoundedOn(R, Nat)
    BY NatLessThanWellFounded
  <1>2. PICK i \in T : \A j \in T : ~ (<<j, i>> \in R)
    BY <1>1, WFMin
  <1>3. \A j \in T : ~ (j < i)
    BY <1>2 DEF OpToRel
  <1> QED
    BY <1>3

\* An event is sent once at most, so no more are sent than were recorded.
LEMMA SentAtMostRecorded ==
  ASSUME TypeOK, SentOnce
  PROVE  Len(bus) <= count
  <1>1. bus \in [1..Len(bus) -> 1..count] /\ Len(bus) \in Nat /\ count \in Nat
    BY LenProperties DEF TypeOK
  <1>2. bus \in Injection(1..Len(bus), 1..count)
    BY <1>1 DEF SentOnce, Injection, IsInjective
  <1>3. \A n \in Nat : IsFiniteSet(1..n) /\ Cardinality(1..n) = n
    <2>1. ASSUME NEW n \in Nat PROVE IsFiniteSet(1..n) /\ Cardinality(1..n) = n
      <3>1. 1 \in Int /\ n \in Int
        OBVIOUS
      <3>2. IsFiniteSet(1..n) /\ Cardinality(1..n) = IF 1 > n THEN 0 ELSE n - 1 + 1
        BY <3>1, FS_Interval
      <3> QED
        BY <3>2
    <2> QED
      BY <2>1
  <1> QED
    BY <1>1, <1>2, <1>3, FS_Injection

-----------------------------------------------------------------------------
(* The reporting threads.                                                  *)

\* The state in which the daemon starts satisfies the invariant.
LEMMA InitIInv == Init => IInv
  <1> SUFFICES ASSUME Init PROVE IInv
    OBVIOUS
  <1> USE InspectBusAssumption DEF Init
  <1>1. count = 0 /\ 1..count = {} /\ Len(<<>>) = 0 /\ \A S : <<>> \in Seq(S)
    OBVIOUS
  <1>2. TypeOK
    BY <1>1 DEF TypeOK, States
  <1>3. Sending
    BY <1>1 DEF Sending, HistoryRecent, SentOrHeld, SentOnce, SentInOrder
  <1>4. ASSUME NEW c \in Clients PROVE Sound(c)
    <2>1. got[c] = <<>> /\ past[c] = <<>> /\ pos[c] = 1 /\ state[c] = "away"
      OBVIOUS
    <2>2. Fresh(c) /\ AtMostNext(c) /\ Covered(c) /\ ReplayInOrder(c) /\ ReadInOrder(c)
      BY <1>1, <2>1 DEF Fresh, AtMostNext, Covered, ReplayInOrder, ReadInOrder
    <2>3. 0 \in 0..Len(got[c]) /\ Split(c, 0)
      BY <1>1, <2>1 DEF Split, Distinct
    <2> QED
      BY <2>2, <2>3 DEF Sound, TwoParts
  <1> QED
    BY <1>2, <1>3, <1>4 DEF IInv

\* What a new event leaves behind: one more event, in no sequence yet.
LEMMA RecordFacts ==
  ASSUME TypeOK, NEW t \in Threads, Record(t)
  PROVE  /\ count \in Nat /\ count' = count + 1 /\ count' \in 0..MaxEvents
         /\ count' \in 1..count' /\ 1..count \subseteq 1..count'
         /\ by' \in [1..count' -> Threads] /\ by'[count'] = t
         /\ \A e \in 1..count : by'[e] = by[e]
  <1>1. count \in Nat /\ count' = count + 1 /\ count' \in 0..MaxEvents
    BY InspectBusAssumption DEF TypeOK, Record
  <1>2. by \in [1..count -> Threads] /\ by' = Append(by, t)
    BY DEF TypeOK, Record
  <1>3. /\ by' \in [1..(count + 1) -> Threads] /\ by'[count + 1] = t
        /\ \A e \in 1..count : by'[e] = by[e]
    <2>1. by \in Seq(Threads) /\ Len(by) = count
      BY <1>1, <1>2, SeqDef, LenProperties
    <2>2. /\ by' \in Seq(Threads) /\ Len(by') = count + 1
          /\ by'[count + 1] = t /\ \A e \in 1..count : by'[e] = by[e]
      BY <1>2, <2>1, AppendProperties
    <2> QED
      BY <2>2, LenProperties
  <1>4. count' \in 1..count' /\ 1..count \subseteq 1..count'
    BY <1>1
  <1> QED
    BY <1>1, <1>3, <1>4

\* The history drops its oldest event when it is full: what is left is still
\* the last events recorded.
LEMMA RecordHistory ==
  ASSUME TypeOK, HistoryRecent, NEW t \in Threads, Record(t)
  PROVE  history' \in Seq(1..count') /\ Len(history') <= HistoryCap /\ HistoryRecent'
  <1> DEFINE h == Append(history, count')
  <1>1. history \in Seq(1..count') /\ count' \in 1..count' /\ count' = count + 1
        /\ count \in Nat
    BY RecordFacts, SeqMonotonic DEF TypeOK
  <1>2. h \in Seq(1..count') /\ Len(h) = Len(history) + 1 /\ Len(history) \in Nat
        /\ \A i \in 1..Len(history) : h[i] = history[i]
        /\ h[Len(history) + 1] = count'
    BY <1>1, AppendProperties, LenProperties
  <1>3. \A i \in 1..Len(h) : h[i] = count' - Len(h) + i
    BY <1>1, <1>2 DEF HistoryRecent
  <1>4. history' = Capped(h) /\ Len(history) <= HistoryCap /\ HistoryCap \in Nat \ {0}
    BY InspectBusAssumption DEF Record, TypeOK
  <1> HIDE DEF h
  <1>5. CASE Len(h) > HistoryCap
    <2>1. h # <<>> /\ history' = Tail(h)
      BY <1>4, <1>5, <1>2 DEF Capped
    <2>2. Tail(h) \in Seq(1..count') /\ Len(Tail(h)) = Len(h) - 1
          /\ \A i \in 1..Len(Tail(h)) : Tail(h)[i] = h[i + 1]
      BY <1>2, <2>1, HeadTailProperties
    <2>3. history' \in Seq(1..count') /\ Len(history') <= HistoryCap
      BY <1>2, <1>4, <2>1, <2>2
    <2>4. ASSUME NEW i \in 1..Len(history')
          PROVE  history'[i] = count' - Len(history') + i
      <3>1. i + 1 \in 1..Len(h) /\ history'[i] = h[i + 1] /\ Len(history') = Len(h) - 1
        BY <1>2, <2>1, <2>2
      <3>2. h[i + 1] = count' - Len(h) + (i + 1)
        BY <1>3, <3>1
      <3> QED
        BY <1>1, <1>2, <3>1, <3>2
    <2> QED
      BY <2>3, <2>4 DEF HistoryRecent
  <1>6. CASE ~(Len(h) > HistoryCap)
    <2>1. history' = h /\ Len(h) <= HistoryCap
      BY <1>2, <1>4, <1>6 DEF Capped
    <2> QED
      BY <1>2, <1>3, <2>1 DEF HistoryRecent
  <1> QED
    BY <1>5, <1>6

\* A thread that records an event holds it, and nothing else changes hands.
LEMMA RecordSending ==
  ASSUME TypeOK, Sending, NEW t \in Threads, Record(t)
  PROVE  Sending'
  <1>1. /\ bus' = bus /\ bus \in Seq(1..count) /\ Len(bus) \in Nat
        /\ \A i \in 1..Len(bus) : bus[i] \in 1..count
    BY LenProperties, ElementOfSeq DEF Record, TypeOK
  <1>2. /\ todo[t] = 0 /\ todo \in [Threads -> 0..count]
        /\ todo' = [todo EXCEPT ![t] = count']
    BY DEF Record, TypeOK
  <1>3. RangeOf(bus)' = RangeOf(bus) /\ count' \notin RangeOf(bus)
    BY <1>1, RecordFacts DEF RangeOf
  <1>4. SentOrHeld'
    <2>1. ASSUME NEW u \in Threads, todo'[u] # 0
          PROVE  by'[todo'[u]] = u /\ todo'[u] \notin RangeOf(bus)
      <3>1. CASE u = t
        BY <1>2, <1>3, <3>1, RecordFacts
      <3>2. CASE u # t
        <4>1. todo'[u] = todo[u] /\ todo[u] \in 1..count
          BY <1>2, <2>1, <3>2, RecordFacts
        <4> QED
          BY <4>1, RecordFacts DEF Sending, SentOrHeld
      <3> QED
        BY <3>1, <3>2
    <2>2. ASSUME NEW e \in 1..count' PROVE e \in RangeOf(bus) \/ todo'[by'[e]] = e
      <3>1. CASE e = count'
        BY <1>2, <3>1, RecordFacts
      <3>2. CASE e # count'
        <4>1. e \in 1..count /\ by'[e] = by[e] /\ by[e] \in Threads
          BY <3>2, RecordFacts DEF TypeOK
        <4> QED
          BY <1>2, <4>1 DEF Sending, SentOrHeld
      <3> QED
        BY <3>1, <3>2
    <2> QED
      BY <1>3, <2>1, <2>2 DEF SentOrHeld
  <1>5. SentOnce'
    BY <1>1 DEF Sending, SentOnce
  <1>6. SentInOrder'
    <2>1. ASSUME NEW i \in 1..Len(bus), NEW e \in 1..(bus[i] - 1)
          PROVE  by'[e] = by[e] /\ by'[bus[i]] = by[bus[i]]
      BY <1>1, RecordFacts
    <2> QED
      BY <1>1, <2>1 DEF Sending, SentInOrder
  <1> QED
    BY <1>4, <1>5, <1>6, RecordHistory DEF Sending

\* Clients do not notice that an event is recorded.
LEMMA RecordSound ==
  ASSUME TypeOK, NEW t \in Threads, Record(t), NEW c \in Clients, Sound(c)
  PROVE  Sound(c)'
  <1>1. UNCHANGED <<state, pos, past, got, missed, bus>>
    BY DEF Record, clientVars
  <1>2. ReadInOrder(c)'
    <2>1. got[c] \in Seq(1..count) /\ \A j \in 1..Len(got[c]) : got[c][j] \in 1..count
      BY ElementOfSeq DEF TypeOK
    <2>2. ASSUME NEW j \in 1..Len(got[c]), NEW e \in 1..(got[c][j] - 1)
          PROVE  by'[e] = by[e] /\ by'[got[c][j]] = by[got[c][j]]
      <3>1. got[c][j] \in 1..count /\ count \in Nat
        BY <2>1, RecordFacts
      <3>2. e \in 1..count
        BY <3>1
      <3> QED
        BY <3>1, <3>2, RecordFacts
    <2> QED
      BY <1>1, <2>2 DEF Sound, ReadInOrder
  <1>3. Fresh(c)' /\ AtMostNext(c)' /\ Covered(c)' /\ ReplayInOrder(c)'
    BY <1>1 DEF Sound, Fresh, AtMostNext, Covered, ReplayInOrder, RangeOf
  <1>4. TwoParts(c)'
    BY <1>1 DEF Sound, TwoParts, Split, Distinct
  <1> QED
    BY <1>2, <1>3, <1>4 DEF Sound

\* The recorded event is well typed for everybody.
LEMMA RecordType ==
  ASSUME TypeOK, HistoryRecent, NEW t \in Threads, Record(t)
  PROVE  TypeOK'
  <1>1. todo' \in [Threads -> 0..count']
    BY RecordFacts DEF TypeOK, Record
  <1>2. \A s \in Seq(1..count) : s \in Seq(1..count')
    BY RecordFacts, SeqMonotonic
  <1>3. past' \in [Clients -> Seq(1..count')] /\ got' \in [Clients -> Seq(1..count')]
    BY <1>2 DEF TypeOK, Record, clientVars
  <1>4. missed' \in [Clients -> SUBSET (1..count')]
    BY RecordFacts DEF TypeOK, Record, clientVars
  <1>5. bus' \in Seq(1..count')
    BY <1>2 DEF TypeOK, Record
  <1> QED
    BY <1>1, <1>3, <1>4, <1>5, RecordFacts, RecordHistory DEF TypeOK, Record, clientVars

\* The event a thread sends is the last of the channel.
LEMMA SendFacts ==
  ASSUME TypeOK, NEW t \in Threads, Send(t)
  PROVE  /\ todo[t] \in 1..count
         /\ bus \in Seq(1..count) /\ bus' \in Seq(1..count)
         /\ Len(bus) \in Nat /\ Len(bus') = Len(bus) + 1
         /\ \A i \in 1..Len(bus) : bus'[i] = bus[i]
         /\ bus'[Len(bus) + 1] = todo[t]
         /\ RangeOf(bus') = RangeOf(bus) \cup {todo[t]}
  <1>1. todo[t] \in 1..count /\ bus \in Seq(1..count) /\ bus' = Append(bus, todo[t])
    BY DEF TypeOK, Send
  <1>2. /\ bus' \in Seq(1..count) /\ Len(bus') = Len(bus) + 1
        /\ \A i \in 1..Len(bus) : bus'[i] = bus[i]
        /\ bus'[Len(bus) + 1] = todo[t]
    BY <1>1, AppendProperties
  <1>3. Len(bus) \in Nat
    BY <1>1, LenProperties
  <1>4. \A i \in 1..(Len(bus) + 1) : i \in 1..Len(bus) \/ i = Len(bus) + 1
    BY <1>3
  <1>5. Len(bus) + 1 \in 1..(Len(bus) + 1) /\ 1..Len(bus) \subseteq 1..(Len(bus) + 1)
    BY <1>3
  <1>6. RangeOf(bus') = RangeOf(bus) \cup {todo[t]}
    BY <1>2, <1>4, <1>5 DEF RangeOf
  <1> QED
    BY <1>1, <1>2, <1>3, <1>6

\* A sent event changes hands: it leaves its thread and is in the channel
\* once, after all that thread reported before it.
LEMMA SendSending ==
  ASSUME TypeOK, Sending, NEW t \in Threads, Send(t)
  PROVE  Sending'
  <1> DEFINE x == todo[t]
  <1>1. /\ count' = count /\ by' = by /\ history' = history
        /\ todo' = [todo EXCEPT ![t] = 0] /\ todo \in [Threads -> 0..count]
        /\ by \in [1..count -> Threads]
    BY DEF TypeOK, Send
  <1>2. by[x] = t /\ x \notin RangeOf(bus) /\ x # 0 /\ x \in 1..count
    BY SendFacts DEF Sending, SentOrHeld, Send
  <1>3. RangeOf(bus)' = RangeOf(bus) \cup {x}
    BY SendFacts DEF RangeOf
  <1>4. HistoryRecent'
    BY <1>1 DEF Sending, HistoryRecent
  <1>5. SentOrHeld'
    <2>1. ASSUME NEW u \in Threads, todo'[u] # 0
          PROVE  by[todo'[u]] = u /\ todo'[u] \notin RangeOf(bus) \cup {x}
      <3>1. u # t /\ todo'[u] = todo[u]
        BY <1>1, <2>1
      <3>2. by[todo[u]] = u /\ todo[u] \notin RangeOf(bus)
        BY <2>1, <3>1 DEF Sending, SentOrHeld
      <3> QED
        BY <1>2, <3>1, <3>2
    <2>2. ASSUME NEW e \in 1..count PROVE e \in RangeOf(bus) \cup {x} \/ todo'[by[e]] = e
      <3>1. e \in RangeOf(bus) \/ todo[by[e]] = e
        BY DEF Sending, SentOrHeld
      <3>2. by[e] \in Threads
        BY <1>1
      <3> QED
        BY <1>1, <3>1, <3>2
    <2> QED
      BY <1>1, <1>3, <2>1, <2>2 DEF SentOrHeld
  <1>6. SentOnce'
    BY <1>2, SendFacts DEF Sending, SentOnce, RangeOf
  <1>7. SentInOrder'
    <2>1. ASSUME NEW i \in 1..Len(bus'), NEW e \in 1..(bus'[i] - 1), by[e] = by[bus'[i]]
          PROVE  \E k \in 1..(i - 1) : bus'[k] = e
      <3>1. CASE i \in 1..Len(bus)
        <4>1. PICK k \in 1..(i - 1) : bus[k] = e
          BY <2>1, <3>1, SendFacts DEF Sending, SentInOrder
        <4> QED
          BY <3>1, <4>1, SendFacts
      <3>2. CASE i \notin 1..Len(bus)
        <4>1. i = Len(bus) + 1 /\ bus'[i] = x
          BY <3>2, SendFacts
        <4>2. e \in 1..(x - 1) /\ by[e] = t
          BY <1>2, <2>1, <4>1
        <4>3. count \in Nat
          BY InspectBusAssumption DEF TypeOK
        <4>4. e \in 1..count /\ e # x
          BY <1>2, <4>2, <4>3
        <4>5. e \in RangeOf(bus)
          BY <4>2, <4>4 DEF Sending, SentOrHeld
        <4>6. PICK k \in 1..Len(bus) : bus[k] = e
          BY <4>5 DEF RangeOf
        <4> QED
          BY <4>1, <4>6, SendFacts
      <3> QED
        BY <3>1, <3>2
    <2> QED
      BY <1>1, <2>1 DEF SentInOrder
  <1> QED
    BY <1>4, <1>5, <1>6, <1>7 DEF Sending

\* A client has the sent event still before it.
LEMMA SendSound ==
  ASSUME TypeOK, NEW t \in Threads, Send(t), NEW c \in Clients, Sound(c)
  PROVE  Sound(c)'
  <1>1. UNCHANGED <<state, pos, past, got, missed, by>>
    BY DEF Send, clientVars
  <1>2. pos[c] <= Len(bus) + 1 /\ pos[c] \in Nat \ {0}
    BY InspectBusAssumption DEF Sound, AtMostNext, TypeOK
  <1>3. \A k \in 1..(pos[c] - 1) : bus'[k] = bus[k]
    BY <1>2, SendFacts
  <1>4. AtMostNext(c)'
    BY <1>1, <1>2, SendFacts DEF AtMostNext
  <1>5. Covered(c)'
    BY <1>1, <1>3 DEF Sound, Covered, RangeOf
  <1>6. Fresh(c)' /\ ReplayInOrder(c)' /\ ReadInOrder(c)'
    BY <1>1 DEF Sound, Fresh, ReplayInOrder, ReadInOrder, RangeOf
  <1>7. TwoParts(c)'
    <2>1. PICK n \in 0..Len(got[c]) : Split(c, n)
      BY DEF Sound, TwoParts
    <2>2. Split(c, n)'
      BY <1>1, <1>3, <2>1 DEF Split, Distinct
    <2> QED
      BY <1>1, <2>2 DEF TwoParts
  <1> QED
    BY <1>4, <1>5, <1>6, <1>7 DEF Sound

-----------------------------------------------------------------------------
(* The clients.                                                            *)

\* A step of one client leaves the others' connections alone.
LEMMA OthersSound ==
  ASSUME NEW d \in Clients, Sound(d), UNCHANGED <<by, bus>>,
         state'[d] = state[d], pos'[d] = pos[d], past'[d] = past[d],
         got'[d] = got[d], missed'[d] = missed[d]
  PROVE  Sound(d)'
  BY DEF Sound, Fresh, AtMostNext, Covered, ReplayInOrder, ReadInOrder, TwoParts,
         Split, Distinct, RangeOf

\* An accepted client has read nothing yet.
LEMMA AcceptStep ==
  ASSUME TypeOK, Sending, NEW c \in Clients, Sound(c), Accept(c)
  PROVE  TypeOK' /\ Sound(c)'
  <1>1. /\ state[c] = "away" /\ state'[c] = "accepted" /\ pos'[c] = Len(bus) + 1
        /\ UNCHANGED <<count, by, history, todo, bus, past, got, missed>>
    BY DEF Accept, TypeOK
  <1>2. got[c] = <<>> /\ past[c] = <<>>
    BY <1>1 DEF Sound, Fresh
  <1>3. Len(bus) \in Nat /\ Len(bus) + 1 \in 1..(MaxEvents + 1)
    <2>1. Len(bus) \in Nat /\ Len(bus) <= count
      BY SentAtMostRecorded, LenProperties DEF TypeOK, Sending
    <2>2. count \in 0..MaxEvents /\ MaxEvents \in Nat
      BY InspectBusAssumption DEF TypeOK
    <2> QED
      BY <2>1, <2>2
  <1>4. TypeOK'
    BY <1>3 DEF TypeOK, Accept, States
  <1>5. Fresh(c)' /\ AtMostNext(c)' /\ Covered(c)'
    BY <1>1, <1>2, <1>3 DEF Fresh, AtMostNext, Covered
  <1>6. ReplayInOrder(c)' /\ ReadInOrder(c)'
    BY <1>1, <1>2 DEF ReplayInOrder, ReadInOrder
  <1>7. Split(c, 0)' /\ 0 \in 0..Len(got[c])
    BY <1>1, <1>2 DEF Split, Distinct
  <1> QED
    BY <1>1, <1>4, <1>5, <1>6, <1>7 DEF Sound, TwoParts

\* The replay starts with the history, and what is not in it is missed.
LEMMA SnapshotStep ==
  ASSUME TypeOK, Sending, NEW c \in Clients, Sound(c), Snapshot(c)
  PROVE  TypeOK' /\ Sound(c)'
  <1>1. /\ state[c] = "accepted" /\ state'[c] = "served" /\ past'[c] = history
        /\ missed'[c] = (1..count) \ RangeOf(history)
        /\ UNCHANGED <<count, by, history, todo, bus, pos, got>>
    BY DEF Snapshot, TypeOK
  <1>2. got[c] = <<>> /\ Len(got[c]) = 0
    BY <1>1 DEF Sound, Fresh
  <1>3. count \in Nat /\ history \in Seq(1..count) /\ Len(history) \in Nat
        /\ bus \in Seq(1..count) /\ pos[c] \in Nat /\ pos[c] <= Len(bus) + 1
        /\ Len(bus) \in Nat
    BY LenProperties, InspectBusAssumption DEF TypeOK, Sound, AtMostNext
  <1>4. TypeOK'
    BY DEF TypeOK, Snapshot, States
  <1>5. Fresh(c)' /\ AtMostNext(c)'
    BY <1>1, <1>3 DEF Fresh, AtMostNext
  <1>6. Covered(c)'
    <2>1. ASSUME NEW i \in 1..(pos[c] - 1)
          PROVE  bus[i] \in RangeOf(history) \cup missed'[c]
      <3>1. i \in 1..Len(bus)
        BY <1>3
      <3>2. bus[i] \in 1..count
        BY <1>3, <3>1, ElementOfSeq
      <3> QED
        BY <1>1, <3>2
    <2> QED
      BY <1>1, <2>1 DEF Covered, RangeOf
  <1>7. ReplayInOrder(c)'
    <2>1. \A i \in 1..Len(history) : history[i] = history[1] + i - 1
      <3>1. \A i \in 1..Len(history) : history[i] = count - Len(history) + i
        BY DEF Sending, HistoryRecent
      <3>2. Len(history) # 0 => history[1] = count - Len(history) + 1
        BY <1>3, <3>1
      <3> QED
        BY <1>3, <3>1, <3>2
    <2>2. ASSUME history # <<>>, NEW e \in 1..(history[1] - 1) PROVE e \in missed'[c]
      <3>1. 1 \in 1..Len(history) /\ history[1] \in 1..count
        BY <1>3, <2>2, EmptySeq, ElementOfSeq
      <3>2. e \in 1..count /\ e < history[1]
        BY <1>3, <3>1
      <3>3. \A i \in 1..Len(history) : history[i] # e
        <4>1. ASSUME NEW i \in 1..Len(history) PROVE history[i] # e
          <5>1. history[i] = history[1] + i - 1 /\ i \in Nat \ {0}
            BY <1>3, <2>1
          <5>2. history[1] \in Nat /\ e \in Nat
            BY <1>3, <3>1
          <5> QED
            BY <3>2, <5>1, <5>2
        <4> QED
          BY <4>1
      <3> QED
        BY <1>1, <3>2, <3>3 DEF RangeOf
    <2> QED
      BY <1>1, <1>2, <2>1, <2>2 DEF ReplayInOrder
  <1>8. ReadInOrder(c)'
    BY <1>1, <1>2 DEF ReadInOrder
  <1>9. Split(c, 0)' /\ 0 \in 0..Len(got[c])
    BY <1>1, <1>2 DEF Split, Distinct
  <1> QED
    BY <1>1, <1>4, <1>5, <1>6, <1>7, <1>8, <1>9 DEF Sound, TwoParts

\* A replayed event is read once, after the same thread's earlier ones.
LEMMA ReplayStep ==
  ASSUME TypeOK, Sending, NEW c \in Clients, Sound(c), Replay(c)
  PROVE  TypeOK' /\ Sound(c)'
  <1> DEFINE g == got[c]
             p == past[c]
             f == Head(p)
  <1>1. /\ state[c] = "served" /\ state' = state /\ p # <<>>
        /\ got' = [got EXCEPT ![c] = Append(g, f)] /\ got'[c] = Append(g, f)
        /\ past' = [past EXCEPT ![c] = Tail(p)] /\ past'[c] = Tail(p)
        /\ UNCHANGED <<count, by, history, todo, bus, pos, missed>>
    BY DEF Replay, TypeOK
  <1>2. p \in Seq(1..count) /\ g \in Seq(1..count) /\ count \in Nat
    BY InspectBusAssumption DEF TypeOK
  <1>3. /\ f \in 1..count /\ f = p[1] /\ Tail(p) \in Seq(1..count)
        /\ Len(Tail(p)) = Len(p) - 1
        /\ \A i \in 1..Len(Tail(p)) : Tail(p)[i] = p[i + 1]
    <2>1. f = p[1]
      BY <1>1, <1>2
    <2> QED
      BY <1>1, <1>2, <2>1, HeadTailProperties
  <1>4. Len(p) \in Nat \ {0} /\ Len(g) \in Nat
    BY <1>1, <1>2, EmptySeq, LenProperties
  <1>5. /\ Append(g, f) \in Seq(1..count) /\ Len(Append(g, f)) = Len(g) + 1
        /\ \A i \in 1..Len(g) : Append(g, f)[i] = g[i]
        /\ Append(g, f)[Len(g) + 1] = f
    BY <1>2, <1>3, AppendProperties
  <1>6. RangeOf(Append(g, f)) = RangeOf(g) \cup {f} /\ RangeOf(p) = RangeOf(Tail(p)) \cup {f}
    BY <1>1, <1>2, <1>3, RangeOfAppend, RangeOfHeadTail
  <1>7. \A i \in 1..Len(p) : p[i] = f + i - 1
    BY <1>3 DEF Sound, ReplayInOrder
  <1>8. \A i \in 1..Len(g), j \in 1..Len(p) : g[i] < p[j]
    BY DEF Sound, ReplayInOrder
  <1>9. \A e \in 1..(f - 1) : e \in RangeOf(g) \cup missed[c]
    BY <1>1, <1>3 DEF Sound, ReplayInOrder
  <1>10. \A i \in 1..Len(g) : g[i] \in 1..count /\ g[i] < f
    <2>1. \A i \in 1..Len(g) : g[i] \in 1..count
      BY <1>2, ElementOfSeq
    <2>2. 1 \in 1..Len(p)
      BY <1>4
    <2> QED
      BY <1>3, <1>8, <2>1, <2>2
  <1> HIDE DEF g, p, f
  <1>11. /\ Len(got'[c]) = Len(g) + 1 /\ got'[c][Len(g) + 1] = f
         /\ \A i \in 1..Len(g) : got'[c][i] = g[i]
    BY <1>1, <1>5
  <1>12. TypeOK'
    BY <1>1, <1>3, <1>5 DEF TypeOK
  <1>13. Fresh(c)' /\ AtMostNext(c)' /\ Covered(c)'
    <2>1. Fresh(c)'
      BY <1>1 DEF Fresh
    <2>2. AtMostNext(c)'
      BY <1>1 DEF Sound, AtMostNext
    <2>3. RangeOf(g) \cup RangeOf(p) = RangeOf(got'[c]) \cup RangeOf(past'[c])
      BY <1>1, <1>6
    <2>4. Covered(c)'
      BY <1>1, <2>3 DEF Sound, Covered, RangeOf, g, p
    <2> QED
      BY <2>1, <2>2, <2>4
  <1>14. ReplayInOrder(c)'
    <2>1. ASSUME NEW i \in 1..Len(Tail(p)) PROVE Tail(p)[i] = f + i
      <3>1. i + 1 \in 1..Len(p) /\ Tail(p)[i] = p[i + 1]
        BY <1>3, <1>4
      <3>2. p[i + 1] = f + (i + 1) - 1
        BY <1>7, <3>1
      <3> QED
        BY <1>3, <3>1, <3>2
    <2>2. \A i \in 1..Len(Tail(p)) : Tail(p)[i] = Tail(p)[1] + i - 1
      <3>1. Len(Tail(p)) # 0 => Tail(p)[1] = f + 1
        BY <1>3, <1>4, <2>1
      <3>2. ASSUME NEW i \in 1..Len(Tail(p)) PROVE Tail(p)[i] = Tail(p)[1] + i - 1
        <4>1. i \in Nat \ {0} /\ Len(Tail(p)) # 0 /\ f \in Nat
          <5>1. Len(Tail(p)) \in Nat /\ f \in 1..count
            BY <1>3, <1>4
          <5>2. f \in Nat
            BY <1>2, <5>1
          <5>3. \A n \in Nat : \A k \in 1..n : k \in Nat \ {0} /\ n # 0
            OBVIOUS
          <5> QED
            BY <5>1, <5>2, <5>3, Zenon
        <4>2. Tail(p)[i] = f + i
          BY <2>1
        <4> QED
          BY <3>1, <4>1, <4>2
      <3> QED
        BY <3>2
    <2>3. \A i \in 1..Len(got'[c]) : got'[c][i] \in Int /\ got'[c][i] <= f
      <3>1. ASSUME NEW i \in 1..(Len(g) + 1)
            PROVE  got'[c][i] \in Int /\ got'[c][i] <= f
        <4>1. i \in 1..Len(g) \/ i = Len(g) + 1
          BY <1>4
        <4>2. f \in Nat
          BY <1>2, <1>3
        <4>3. \A e \in 1..count : e \in Int
          BY <1>2
        <4> QED
          BY <1>10, <1>11, <4>1, <4>2, <4>3
      <3> QED
        BY <1>11, <3>1
    <2>4. \A i \in 1..Len(got'[c]), j \in 1..Len(Tail(p)) : got'[c][i] < Tail(p)[j]
      <3>1. ASSUME NEW i \in 1..Len(got'[c]), NEW j \in 1..Len(Tail(p))
            PROVE  got'[c][i] < Tail(p)[j]
        <4>1. Tail(p)[j] = f + j /\ j \in Nat \ {0} /\ f \in Nat
          BY <1>2, <1>3, <1>4, <2>1
        <4> QED
          BY <2>3, <4>1
      <3> QED
        BY <3>1
    <2>5. ASSUME Tail(p) # <<>>, NEW e \in 1..(Tail(p)[1] - 1)
          PROVE  e \in RangeOf(got'[c]) \cup missed[c]
      <3>1. 1 \in 1..Len(Tail(p))
        BY <1>3, <2>5, EmptySeq
      <3>2. Tail(p)[1] = f + 1
        BY <2>1, <3>1
      <3>3. e \in 1..(f - 1) \/ e = f
        BY <1>2, <1>3, <2>5, <3>2
      <3> QED
        BY <1>1, <1>6, <1>9, <3>3
    <2> QED
      BY <1>1, <2>2, <2>4, <2>5 DEF ReplayInOrder, RangeOf
  <1>15. ReadInOrder(c)'
    <2>1. ASSUME NEW j \in 1..(Len(g) + 1), NEW e \in 1..(got'[c][j] - 1),
                 by[e] = by[got'[c][j]]
          PROVE  e \in missed[c] \/ \E i \in 1..(j - 1) : got'[c][i] = e
      <3>1. CASE j \in 1..Len(g)
        <4>1. got'[c][j] = g[j]
          BY <1>1, <1>5, <3>1
        <4>2. e \in missed[c] \/ \E i \in 1..(j - 1) : g[i] = e
          BY <2>1, <3>1, <4>1 DEF Sound, ReadInOrder, g
        <4> QED
          <5>1. \A i \in 1..(j - 1) : i \in 1..Len(g)
            BY <1>4, <3>1
          <5> QED
            BY <1>11, <4>2, <5>1
      <3>2. CASE j = Len(g) + 1
        <4>1. e \in RangeOf(g) \cup missed[c]
          BY <1>1, <1>5, <1>9, <3>2
        <4>2. e \in missed[c] \/ \E i \in 1..Len(g) : g[i] = e
          BY <4>1 DEF RangeOf
        <4>3. \A i \in 1..Len(g) : got'[c][i] = g[i] /\ i \in 1..(j - 1)
          BY <1>4, <1>11, <3>2
        <4> QED
          BY <4>2, <4>3
      <3> QED
        BY <1>4, <3>1, <3>2
    <2> QED
      BY <1>1, <1>11, <2>1 DEF ReadInOrder
  <1>16. TwoParts(c)'
    <2>1. Split(c, Len(g))
      BY <1>1 DEF Sound, TwoParts, Split, g, p
    <2>2. \A i, j \in 1..Len(g) : g[i] = g[j] => i = j
      BY <2>1 DEF Split, Distinct, g
    <2>3. \A i, j \in 1..(Len(g) + 1) : got'[c][i] = got'[c][j] => i = j
      <3>1. \A i \in 1..Len(g) : got'[c][i] = g[i] /\ g[i] # f
        <4>1. \A e \in 1..count : e < f => e # f
          BY <1>2, <1>3
        <4> QED
          BY <1>10, <1>11, <4>1
      <3>2. \A i \in 1..(Len(g) + 1) : i \in 1..Len(g) \/ i = Len(g) + 1
        BY <1>4
      <3> QED
        BY <1>11, <2>2, <3>1, <3>2
    <2> DEFINE n == Len(got'[c])
    <2>4. n = Len(g) + 1 /\ n \in Nat
      BY <1>4, <1>11
    <2>5. \A i \in (n + 1)..n : FALSE
      BY <2>4
    <2>6. /\ \A i, j \in 1..n : got'[c][i] = got'[c][j] => i = j
          /\ \A i, j \in (n + 1)..n : got'[c][i] = got'[c][j] => i = j
          /\ \A i \in (n + 1)..n : \E k \in 1..(pos'[c] - 1) : bus'[k] = got'[c][i]
      BY <2>3, <2>4, <2>5
    <2>7. n \in 0..Len(got'[c])
      BY <2>4
    <2>8. \E m \in 0..Len(got'[c]) :
            /\ \A i, j \in 1..m : got'[c][i] = got'[c][j] => i = j
            /\ \A i, j \in (m + 1)..Len(got'[c]) : got'[c][i] = got'[c][j] => i = j
            /\ \A i \in (m + 1)..Len(got'[c]) :
                 \E k \in 1..(pos'[c] - 1) : bus'[k] = got'[c][i]
            /\ past'[c] # <<>> => m = Len(got'[c])
      BY <2>6, <2>7
    <2> QED
      BY <2>8 DEF TwoParts, Split, Distinct
  <1> QED
    BY <1>12, <1>13, <1>14, <1>15, <1>16 DEF Sound

\* An event from the channel is read after the same thread's earlier ones: those
\* were sent before it, so the client has passed them.
LEMMA RecvStep ==
  ASSUME TypeOK, Sending, NEW c \in Clients, Sound(c), Recv(c)
  PROVE  TypeOK' /\ Sound(c)'
  <1> DEFINE g == got[c]
             x == bus[pos[c]]
  <1>1. /\ state[c] = "served" /\ state' = state /\ past[c] = <<>> /\ past' = past
        /\ got' = [got EXCEPT ![c] = Append(g, x)] /\ got'[c] = Append(g, x)
        /\ pos' = [pos EXCEPT ![c] = pos[c] + 1] /\ pos'[c] = pos[c] + 1
        /\ pos[c] <= Len(bus)
        /\ UNCHANGED <<count, by, history, todo, bus, missed>>
    BY DEF Recv, Behind, TypeOK
  <1>2. /\ bus \in Seq(1..count) /\ g \in Seq(1..count) /\ pos[c] \in 1..(MaxEvents + 1)
        /\ count \in 0..MaxEvents /\ MaxEvents \in Nat
    BY InspectBusAssumption DEF TypeOK
  <1>3. Len(bus) \in Nat /\ Len(g) \in Nat /\ pos[c] \in 1..Len(bus) /\ Len(bus) <= count
    BY <1>1, <1>2, LenProperties, SentAtMostRecorded DEF Sending
  <1>4. x \in 1..count
    BY <1>2, <1>3, ElementOfSeq
  <1>5. /\ Append(g, x) \in Seq(1..count) /\ Len(Append(g, x)) = Len(g) + 1
        /\ \A i \in 1..Len(g) : Append(g, x)[i] = g[i]
        /\ Append(g, x)[Len(g) + 1] = x
    BY <1>2, <1>4, AppendProperties
  <1>6. RangeOf(Append(g, x)) = RangeOf(g) \cup {x}
    BY <1>2, <1>4, RangeOfAppend
  <1>7. \A i \in 1..(pos[c] - 1) : bus[i] \in RangeOf(g) \cup missed[c]
    <2>1. RangeOf(past[c]) = {}
      BY <1>1 DEF RangeOf
    <2> QED
      BY <1>1, <2>1 DEF Sound, Covered
  <1> HIDE DEF g, x
  <1>8. /\ Len(got'[c]) = Len(g) + 1 /\ got'[c][Len(g) + 1] = x
        /\ \A i \in 1..Len(g) : got'[c][i] = g[i]
    BY <1>1, <1>5
  <1>9. TypeOK'
    <2>1. pos[c] + 1 \in 1..(MaxEvents + 1)
      BY <1>2, <1>3
    <2>2. pos' \in [Clients -> 1..(MaxEvents + 1)] /\ got' \in [Clients -> Seq(1..count)]
      BY <1>1, <1>5, <2>1 DEF TypeOK
    <2> QED
      BY <1>1, <2>2 DEF TypeOK
  <1>10. Fresh(c)' /\ AtMostNext(c)' /\ ReplayInOrder(c)'
    BY <1>1, <1>3 DEF Fresh, AtMostNext, ReplayInOrder
  <1>11. Covered(c)'
    <2>1. ASSUME NEW i \in 1..(pos'[c] - 1) PROVE bus[i] \in RangeOf(got'[c]) \cup missed[c]
      <3>1. i \in 1..(pos[c] - 1) \/ i = pos[c]
        BY <1>1, <1>3
      <3> QED
        BY <1>1, <1>6, <1>7, <3>1 DEF x
    <2> QED
      BY <1>1, <2>1 DEF Covered, RangeOf
  <1>12. ReadInOrder(c)'
    <2>1. ASSUME NEW j \in 1..(Len(g) + 1), NEW e \in 1..(got'[c][j] - 1),
                 by[e] = by[got'[c][j]]
          PROVE  e \in missed[c] \/ \E i \in 1..(j - 1) : got'[c][i] = e
      <3>1. CASE j \in 1..Len(g)
        <4>1. got'[c][j] = g[j]
          BY <1>1, <1>5, <3>1
        <4>2. e \in missed[c] \/ \E i \in 1..(j - 1) : g[i] = e
          BY <2>1, <3>1, <4>1 DEF Sound, ReadInOrder, g
        <4> QED
          <5>1. \A i \in 1..(j - 1) : i \in 1..Len(g)
            BY <1>3, <3>1
          <5> QED
            BY <1>8, <4>2, <5>1
      <3>2. CASE j = Len(g) + 1
        <4>1. e \in 1..(x - 1) /\ by[e] = by[x]
          BY <1>1, <1>5, <2>1, <3>2
        <4>2. PICK k \in 1..(pos[c] - 1) : bus[k] = e
          BY <1>3, <4>1 DEF Sending, SentInOrder, x
        <4>3. e \in RangeOf(g) \cup missed[c]
          BY <1>7, <4>2
        <4>4. e \in missed[c] \/ \E i \in 1..Len(g) : g[i] = e
          BY <4>3 DEF RangeOf
        <4> QED
          <5>1. \A i \in 1..Len(g) : got'[c][i] = g[i] /\ i \in 1..(j - 1)
            BY <1>3, <1>8, <3>2
          <5> QED
            BY <4>4, <5>1
      <3> QED
        BY <1>3, <3>1, <3>2
    <2> QED
      BY <1>1, <1>8, <2>1 DEF ReadInOrder
  <1>13. TwoParts(c)'
    <2>1. PICK n \in 0..Len(g) : Split(c, n)
      BY DEF Sound, TwoParts, g
    <2>2. /\ \A i, j \in 1..n : g[i] = g[j] => i = j
          /\ \A i, j \in (n + 1)..Len(g) : g[i] = g[j] => i = j
          /\ \A i \in (n + 1)..Len(g) : \E k \in 1..(pos[c] - 1) : bus[k] = g[i]
      BY <2>1 DEF Split, Distinct, g
    <2>3. \A k \in 1..(pos[c] - 1) : bus[k] # x
      BY <1>3 DEF Sending, SentOnce, x
    <2>4. Len(got'[c]) = Len(g) + 1 /\ got'[c][Len(g) + 1] = x
          /\ \A i \in 1..Len(g) : got'[c][i] = g[i]
      BY <1>1, <1>5
    <2>5. \A i, j \in 1..n : got'[c][i] = got'[c][j] => i = j
      <3>1. \A i \in 1..n : i \in 1..Len(g)
        BY <1>3
      <3> QED
        BY <2>2, <2>4, <3>1
    <2>6. \A i \in (n + 1)..Len(g) : got'[c][i] # x
      BY <1>3, <2>2, <2>3, <2>4
    <2>7. \A i, j \in (n + 1)..(Len(g) + 1) : got'[c][i] = got'[c][j] => i = j
      BY <1>3, <2>2, <2>4, <2>6
    <2>8. \A i \in (n + 1)..(Len(g) + 1) : \E k \in 1..(pos'[c] - 1) : bus[k] = got'[c][i]
      <3>1. ASSUME NEW i \in (n + 1)..(Len(g) + 1)
            PROVE  \E k \in 1..pos[c] : bus[k] = got'[c][i]
        <4>1. CASE i \in (n + 1)..Len(g)
          BY <1>3, <2>2, <2>4, <4>1
        <4>2. CASE i = Len(g) + 1
          BY <1>3, <2>4, <4>2 DEF x
        <4> QED
          BY <1>3, <4>1, <4>2
      <3>2. pos'[c] - 1 = pos[c]
        BY <1>1, <1>3
      <3> QED
        BY <3>1, <3>2
    <2>9. Split(c, n)'
      BY <1>1, <2>4, <2>5, <2>7, <2>8 DEF Split, Distinct
    <2>10. n \in 0..Len(got'[c])
      BY <1>3, <2>4
    <2> QED
      BY <2>9, <2>10 DEF TwoParts
  <1> QED
    BY <1>9, <1>10, <1>11, <1>12, <1>13 DEF Sound

\* What a lagging client is moved over is what it misses from now on.
LEMMA LagStep ==
  ASSUME TypeOK, Sending, NEW c \in Clients, Sound(c), Lag(c)
  PROVE  TypeOK' /\ Sound(c)'
  <1> DEFINE skipped == {bus[i] : i \in pos[c]..(pos'[c] - 1)}
  <1>1. /\ state[c] = "served" /\ state' = state /\ past[c] = <<>> /\ past' = past
        /\ pos' = [pos EXCEPT ![c] = Len(bus) - BusCap + 1]
        /\ pos'[c] = Len(bus) - BusCap + 1 /\ pos[c] + BusCap <= Len(bus)
        /\ missed' = [missed EXCEPT ![c] = missed[c] \cup skipped]
        /\ missed'[c] = missed[c] \cup skipped
        /\ UNCHANGED <<count, by, history, todo, bus, got>>
    BY DEF Lag, Behind, Lagging, TypeOK
  <1>2. /\ bus \in Seq(1..count) /\ pos[c] \in 1..(MaxEvents + 1)
        /\ count \in 0..MaxEvents /\ MaxEvents \in Nat /\ BusCap \in Nat \ {0}
    BY InspectBusAssumption DEF TypeOK
  <1>3. Len(bus) \in Nat /\ Len(bus) <= count
    BY <1>2, LenProperties, SentAtMostRecorded DEF Sending
  <1>4. pos'[c] \in Nat /\ pos[c] < pos'[c] /\ pos'[c] <= Len(bus)
    BY <1>1, <1>2, <1>3
  <1>5. skipped \subseteq 1..count
    <2>1. ASSUME NEW i \in pos[c]..(pos'[c] - 1) PROVE bus[i] \in 1..count
      <3>1. i \in 1..Len(bus)
        BY <1>2, <1>3, <1>4
      <3> QED
        BY <1>2, <3>1, ElementOfSeq
    <2> QED
      BY <2>1
  <1>6. TypeOK'
    <2>1. pos'[c] \in 1..(MaxEvents + 1)
      BY <1>2, <1>3, <1>4
    <2>2. pos' \in [Clients -> 1..(MaxEvents + 1)]
          /\ missed' \in [Clients -> SUBSET (1..count)]
      BY <1>1, <1>5, <2>1 DEF TypeOK
    <2> QED
      BY <1>1, <2>2 DEF TypeOK
  <1>7. Fresh(c)' /\ AtMostNext(c)' /\ ReplayInOrder(c)'
    BY <1>1, <1>3, <1>4 DEF Fresh, AtMostNext, ReplayInOrder
  <1>8. Covered(c)'
    <2>1. ASSUME NEW i \in 1..(pos'[c] - 1)
          PROVE  bus[i] \in RangeOf(got[c]) \cup RangeOf(past[c]) \cup missed'[c]
      <3>1. CASE i \in 1..(pos[c] - 1)
        BY <1>1, <3>1 DEF Sound, Covered
      <3>2. CASE i \in pos[c]..(pos'[c] - 1)
        BY <1>1, <3>2
      <3> QED
        BY <1>2, <1>4, <3>1, <3>2
    <2> QED
      BY <1>1, <2>1 DEF Covered, RangeOf
  <1>9. ReadInOrder(c)'
    BY <1>1 DEF Sound, ReadInOrder
  <1>10. TwoParts(c)'
    <2>1. PICK n \in 0..Len(got[c]) : Split(c, n)
      BY DEF Sound, TwoParts
    <2>2. 1..(pos[c] - 1) \subseteq 1..(pos'[c] - 1)
      BY <1>2, <1>4
    <2>3. Split(c, n)'
      BY <1>1, <2>1, <2>2 DEF Split, Distinct
    <2> QED
      BY <1>1, <2>3 DEF TwoParts
  <1> QED
    BY <1>6, <1>7, <1>8, <1>9, <1>10 DEF Sound

\* What a client that went away had read stays as it was.
LEMMA DisconnectStep ==
  ASSUME TypeOK, NEW c \in Clients, Sound(c), Disconnect(c)
  PROVE  TypeOK' /\ Sound(c)'
  <1>1. /\ state'[c] = "gone"
        /\ UNCHANGED <<count, by, history, todo, bus, pos, past, got, missed>>
    BY DEF Disconnect, TypeOK
  <1>2. TypeOK'
    BY DEF TypeOK, Disconnect, States
  <1>3. Fresh(c)' /\ Covered(c)'
    BY <1>1 DEF Fresh, Covered
  <1>4. AtMostNext(c)' /\ ReplayInOrder(c)' /\ ReadInOrder(c)'
    <2>1. AtMostNext(c)'
      BY <1>1 DEF Sound, AtMostNext
    <2>2. ReplayInOrder(c)'
      BY <1>1 DEF Sound, ReplayInOrder, RangeOf
    <2>3. ReadInOrder(c)'
      BY <1>1 DEF Sound, ReadInOrder
    <2> QED
      BY <2>1, <2>2, <2>3
  <1>5. TwoParts(c)'
    BY <1>1 DEF Sound, TwoParts, Split, Distinct
  <1> QED
    BY <1>2, <1>3, <1>4, <1>5 DEF Sound

\* Every step of a client keeps the invariant.
LEMMA ClientStep ==
  ASSUME IInv, NEW c \in Clients, Accept(c) \/ Serve(c) \/ Disconnect(c)
  PROVE  IInv'
  <1>1. TypeOK' /\ Sound(c)'
    BY AcceptStep, SnapshotStep, ReplayStep, RecvStep, LagStep, DisconnectStep
    DEF IInv, Serve
  <1>2. UNCHANGED <<count, by, history, todo, bus>>
    BY DEF Accept, Serve, Snapshot, Replay, Recv, Lag, Disconnect
  <1>3. Sending'
    BY <1>2 DEF IInv, Sending, HistoryRecent, SentOrHeld, SentOnce, SentInOrder, RangeOf
  <1>4. ASSUME NEW d \in Clients, d # c PROVE Sound(d)'
    <2>1. /\ state'[d] = state[d] /\ pos'[d] = pos[d] /\ past'[d] = past[d]
          /\ got'[d] = got[d] /\ missed'[d] = missed[d]
      BY <1>4 DEF IInv, TypeOK, Accept, Serve, Snapshot, Replay, Recv, Lag, Disconnect
    <2> QED
      BY <1>2, <2>1, OthersSound DEF IInv
  <1> QED
    BY <1>1, <1>3, <1>4 DEF IInv

-----------------------------------------------------------------------------
(* What follows from the invariant.                                        *)

\* The inductive invariant holds in every reachable state.
THEOREM SpecIInv == Spec => []IInv
  <1>1. IInv /\ [Next]_vars => IInv'
    <2> SUFFICES ASSUME IInv, [Next]_vars PROVE IInv'
      OBVIOUS
    <2>1. ASSUME NEW t \in Threads, Record(t) PROVE IInv'
      BY <2>1, RecordType, RecordSending, RecordSound DEF IInv, Sending
    <2>2. ASSUME NEW t \in Threads, Send(t) PROVE IInv'
      <3>1. TypeOK'
        BY <2>2, SendFacts DEF IInv, TypeOK, Send, clientVars
      <3> QED
        BY <2>2, <3>1, SendSending, SendSound DEF IInv
    <2>3. CASE UNCHANGED vars
      BY <2>3
      DEF IInv, vars, TypeOK, Sending, HistoryRecent, SentOrHeld, SentOnce, SentInOrder,
          Sound, Fresh, AtMostNext, Covered, ReplayInOrder, ReadInOrder, TwoParts,
          Split, Distinct, RangeOf
    <2> QED
      BY <2>1, <2>2, <2>3, ClientStep DEF Next, Reporting
  <1> QED
    BY InitIInv, <1>1, PTL DEF Spec

\* The bus, the history and the connections are always well typed
\* (InspectBus.TypeOK): above all the history keeps to its capacity.
THEOREM SpecTypeOK == Spec => []TypeOK
  <1>1. IInv => TypeOK
    BY DEF IInv
  <1> QED
    BY SpecIInv, <1>1, PTL

\* A client that is up to date has seen every event sent, but for those the
\* history and the channel were too small for (InspectBus.NothingLost).
THEOREM SpecNothingLost == Spec => []NothingLost
  <1>1. IInv => NothingLost
    <2> SUFFICES ASSUME IInv, NEW c \in Clients,
                        state[c] = "served", past[c] = <<>>, ~Behind(c),
                        NEW i \in 1..Len(bus)
                 PROVE  bus[i] \in RangeOf(got[c]) \cup missed[c]
      BY DEF NothingLost, RangeOf
    <2>1. pos[c] \in Nat /\ Len(bus) \in Nat /\ ~(pos[c] <= Len(bus))
      BY InspectBusAssumption, LenProperties DEF IInv, TypeOK, Behind
    <2>2. i \in 1..(pos[c] - 1)
      BY <2>1
    <2>3. RangeOf(past[c]) = {}
      BY DEF RangeOf
    <2> QED
      BY <2>2, <2>3 DEF IInv, Sound, Covered
  <1> QED
    BY SpecIInv, <1>1, PTL

\* An event a client has read has a first place among what it read.
LEMMA FirstPlace ==
  ASSUME TypeOK, NEW c \in Clients, NEW e \in RangeOf(got[c])
  PROVE  /\ FirstAt(c, e) \in 1..Len(got[c]) /\ got[c][FirstAt(c, e)] = e
         /\ \A j \in 1..(FirstAt(c, e) - 1) : got[c][j] # e
  <1> DEFINE T == {i \in 1..Len(got[c]) : got[c][i] = e}
  <1>1. Len(got[c]) \in Nat
    BY LenProperties DEF TypeOK
  <1>2. T \subseteq Nat /\ T # {}
    BY <1>1 DEF RangeOf
  <1>3. PICK i \in T : \A j \in T : i <= j
    BY <1>2, LeastNumber
  <1>4. i \in 1..Len(got[c]) /\ got[c][i] = e /\ \A j \in 1..(i - 1) : got[c][j] # e
    BY <1>1, <1>3
  <1> QED
    BY <1>4 DEF FirstAt

\* A client reads each thread's events in their order, and each event twice at
\* most (InspectBus.ThreadOrderKept).
THEOREM SpecThreadOrderKept == Spec => []ThreadOrderKept
  <1>1. IInv => ThreadOrderKept
    <2> SUFFICES ASSUME IInv, NEW c \in Clients
                 PROVE  /\ \A e, f \in RangeOf(got[c]) \ missed[c] :
                             e < f /\ by[e] = by[f] => FirstAt(c, e) < FirstAt(c, f)
                        /\ \A e \in RangeOf(got[c]) :
                             Cardinality({i \in 1..Len(got[c]) : got[c][i] = e}) <= 2
      BY DEF ThreadOrderKept
    <2>1. /\ got[c] \in Seq(1..count) /\ Len(got[c]) \in Nat /\ count \in Nat
          /\ RangeOf(got[c]) \subseteq 1..count
      BY InspectBusAssumption, LenProperties, ElementOfSeq DEF IInv, TypeOK, RangeOf
    <2>2. ASSUME NEW e \in RangeOf(got[c]) \ missed[c], NEW f \in RangeOf(got[c]) \ missed[c],
                 e < f, by[e] = by[f]
          PROVE  FirstAt(c, e) < FirstAt(c, f)
      <3>1. /\ FirstAt(c, e) \in 1..Len(got[c]) /\ FirstAt(c, f) \in 1..Len(got[c])
            /\ got[c][FirstAt(c, f)] = f
            /\ \A j \in 1..(FirstAt(c, e) - 1) : got[c][j] # e
        BY FirstPlace DEF IInv
      <3>2. e \in 1..(f - 1)
        BY <2>1, <2>2
      <3>3. PICK i \in 1..(FirstAt(c, f) - 1) : got[c][i] = e
        BY <2>2, <3>1, <3>2 DEF IInv, Sound, ReadInOrder
      <3>4. ~(i \in 1..(FirstAt(c, e) - 1))
        BY <3>1, <3>3
      <3> QED
        BY <2>1, <3>1, <3>3, <3>4
    <2>3. ASSUME NEW e \in RangeOf(got[c])
          PROVE  Cardinality({i \in 1..Len(got[c]) : got[c][i] = e}) <= 2
      <3> DEFINE T == {i \in 1..Len(got[c]) : got[c][i] = e}
      <3>1. PICK n \in 0..Len(got[c]) : Split(c, n)
        BY DEF IInv, Sound, TwoParts
      <3>2. \A i, j \in T : (i <= n <=> j <= n) => i = j
        <4>1. /\ \A i, j \in 1..n : got[c][i] = got[c][j] => i = j
              /\ \A i, j \in (n + 1)..Len(got[c]) : got[c][i] = got[c][j] => i = j
          BY <3>1 DEF Split, Distinct
        <4>2. \A i \in T : /\ i \in 1..Len(got[c]) /\ got[c][i] = e
                           /\ i \in 1..n <=> i <= n
                           /\ i \in (n + 1)..Len(got[c]) <=> ~(i <= n)
          BY <2>1
        <4> QED
          BY <4>1, <4>2
      <3>3. \E a, b : T \subseteq {a} \cup {b}
        <4>1. CASE \E a \in T : a <= n
          <5>1. PICK a \in T : a <= n
            BY <4>1
          <5>2. PICK b : b \in T => b \in T
            OBVIOUS
          <5>3. CASE \E d \in T : ~(d <= n)
            BY <3>2, <5>1, <5>3
          <5>4. CASE ~ \E d \in T : ~(d <= n)
            BY <3>2, <5>1, <5>4
          <5> QED
            BY <5>3, <5>4
        <4>2. CASE ~ \E a \in T : a <= n
          <5>1. \A i, j \in T : i = j
            BY <3>2, <4>2
          <5>2. e \in RangeOf(got[c]) => \E a : a \in T
            BY DEF RangeOf
          <5>3. PICK a : a \in T
            BY <5>2
          <5> QED
            BY <5>1, <5>3
        <4> QED
          BY <4>1, <4>2
      <3>4. PICK a, b : T \subseteq {a} \cup {b}
        BY <3>3
      <3>5. IsFiniteSet({a}) /\ Cardinality({a}) = 1
        BY FS_Singleton
      <3>6. IsFiniteSet({a} \cup {b}) /\ Cardinality({a} \cup {b}) <= 2
        BY <3>5, FS_AddElement
      <3>7. IsFiniteSet(T) /\ Cardinality(T) <= Cardinality({a} \cup {b})
        BY <3>4, <3>6, FS_Subset
      <3>8. Cardinality(T) \in Nat /\ Cardinality({a} \cup {b}) \in Nat
        BY <3>6, <3>7, FS_CardinalityType
      <3> QED
        <4> HIDE DEF T
        <4>1. \A k, m \in Nat : k <= m /\ m <= 2 => k <= 2
          OBVIOUS
        <4>2. Cardinality(T) <= 2
          BY <3>6, <3>7, <3>8, <4>1
        <4> QED
          BY <4>2 DEF T
    <2> QED
      BY <2>2, <2>3
  <1> QED
    BY SpecIInv, <1>1, PTL
=============================================================================
