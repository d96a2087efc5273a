------------------------------ MODULE InspectBus ------------------------------
(***************************************************************************)
(* The event stream behind `protector inspect` (protector/src/event_bus.rs *)
(* and emit_event in main.rs).  Several threads of the daemon report: the  *)
(* main loop, the read-guard, one seccomp supervisor per agent tree.  Each *)
(* first records its event in a bounded history and then, in a second      *)
(* step, sends it on a bounded broadcast channel.  A connecting client is  *)
(* subscribed to the channel when it is accepted and given the history     *)
(* later, by a task of its own.                                            *)
(***************************************************************************)
EXTENDS Integers, Sequences, FiniteSets

CONSTANTS
  Threads,     \* the reporting threads
  Clients,     \* connections of `protector inspect`
  HistoryCap,  \* events the history keeps (2000 in the code)
  BusCap,      \* events the channel keeps for a slow receiver (1024)
  MaxEvents    \* bound: events reported

ASSUME InspectBusAssumption ==
  /\ HistoryCap \in Nat \ {0}
  /\ BusCap \in Nat \ {0}
  /\ MaxEvents \in Nat

VARIABLES
  count,     \* events recorded so far: an event is named by its number
  by,        \* the thread that reported each of them
  history,   \* SharedHistory
  todo,      \* the event a thread has recorded and not sent, or 0
  bus,       \* the events sent, in order
  state,     \* of each client's connection
  pos,       \* its next position in the channel
  past,      \* the replay still to be written to it
  got,       \* what was written to it
  missed     \* events it can no longer get

vars == <<count, by, history, todo, bus, state, pos, past, got, missed>>
clientVars == <<state, pos, past, got, missed>>

Events == 1..MaxEvents
States == {"away", "accepted", "served", "gone"}
RangeOf(s) == {s[i] : i \in 1..Len(s)}

TypeOK ==
  /\ count \in 0..MaxEvents
  /\ by \in [1..count -> Threads]
  /\ history \in Seq(1..count) /\ Len(history) <= HistoryCap
  /\ todo \in [Threads -> 0..count]
  /\ bus \in Seq(1..count)
  /\ state \in [Clients -> States]
  /\ pos \in [Clients -> 1..(MaxEvents + 1)]
  /\ past \in [Clients -> Seq(1..count)]
  /\ got \in [Clients -> Seq(1..count)]
  /\ missed \in [Clients -> SUBSET (1..count)]

Init ==
  /\ count = 0
  /\ by = <<>>
  /\ history = <<>>
  /\ todo = [t \in Threads |-> 0]
  /\ bus = <<>>
  /\ state = [c \in Clients |-> "away"]
  /\ pos = [c \in Clients |-> 1]
  /\ past = [c \in Clients |-> <<>>]
  /\ got = [c \in Clients |-> <<>>]
  /\ missed = [c \in Clients |-> {}]

-----------------------------------------------------------------------------
(* emit_event, report_denied, report_substituted                           *)

Uncapped(h) == h

\* push_back, and pop_front once there are more than the history keeps.
Capped(h) == IF Len(h) > HistoryCap THEN Tail(h) ELSE h

\* event_bus::record, under the history's mutex.
Record(t) ==
  /\ todo[t] = 0 /\ count < MaxEvents
  /\ count' = count + 1
  /\ by' = Append(by, t)
  /\ history' = Capped(Append(history, count'))
  /\ todo' = [todo EXCEPT ![t] = count']
  /\ UNCHANGED <<bus, clientVars>>

\* events.send(ev)
Send(t) ==
  /\ todo[t] # 0
  /\ bus' = Append(bus, todo[t])
  /\ todo' = [todo EXCEPT ![t] = 0]
  /\ UNCHANGED <<count, by, history, clientVars>>

-----------------------------------------------------------------------------
(* start_unix_server and serve_client                                      *)

\* accept() and tx.subscribe(): the client will receive what is sent from now.
Accept(c) ==
  /\ state[c] = "away"
  /\ state' = [state EXCEPT ![c] = "accepted"]
  /\ pos' = [pos EXCEPT ![c] = Len(bus) + 1]
  /\ UNCHANGED <<count, by, history, todo, bus, past, got, missed>>

\* The spawned task copies the history.  What fell out of it is not replayed.
Snapshot(c) ==
  /\ state[c] = "accepted"
  /\ state' = [state EXCEPT ![c] = "served"]
  /\ past' = [past EXCEPT ![c] = history]
  /\ missed' = [missed EXCEPT ![c] = (1..count) \ RangeOf(history)]
  /\ UNCHANGED <<count, by, history, todo, bus, pos, got>>

ReplayResubscribe(c) ==
  /\ state[c] = "served" /\ past[c] # <<>>
  /\ got' = [got EXCEPT ![c] = Append(@, Head(past[c]))]
  /\ past' = [past EXCEPT ![c] = Tail(@)]
  /\ pos' = [pos EXCEPT ![c] = IF Len(past[c]) = 1 THEN Len(bus) + 1 ELSE @]
  /\ UNCHANGED <<count, by, history, todo, bus, state, missed>>

\* One event of the copy is written to the client.
Replay(c) ==
  /\ state[c] = "served" /\ past[c] # <<>>
  /\ got' = [got EXCEPT ![c] = Append(@, Head(past[c]))]
  /\ past' = [past EXCEPT ![c] = Tail(@)]
  /\ UNCHANGED <<count, by, history, todo, bus, state, pos, missed>>

BehindEarly(c) == state[c] = "served" /\ pos[c] <= Len(bus)

\* The loop over the channel starts when the replay is done.
Behind(c) == state[c] = "served" /\ past[c] = <<>> /\ pos[c] <= Len(bus)
Lagging(c) == pos[c] + BusCap <= Len(bus)

\* rx.recv() yields an event, which is written to the client.
Recv(c) ==
  /\ Behind(c) /\ ~Lagging(c)
  /\ got' = [got EXCEPT ![c] = Append(@, bus[pos[c]])]
  /\ pos' = [pos EXCEPT ![c] = @ + 1]
  /\ UNCHANGED <<count, by, history, todo, bus, state, past, missed>>

LagStays(c) ==
  /\ Behind(c) /\ Lagging(c)
  /\ UNCHANGED vars

LagReplays(c) ==
  /\ Behind(c) /\ Lagging(c)
  /\ pos' = [pos EXCEPT ![c] = Len(bus) - BusCap + 1]
  /\ missed' = [missed EXCEPT ![c] = @ \cup {bus[i] : i \in pos[c]..(pos'[c] - 1)}]
  /\ past' = [past EXCEPT ![c] = history]
  /\ UNCHANGED <<count, by, history, todo, bus, state, got>>

\* RecvError::Lagged: the receiver is moved to the oldest event kept, and the
\* loop continues without telling the client.
Lag(c) ==
  /\ Behind(c) /\ Lagging(c)
  /\ pos' = [pos EXCEPT ![c] = Len(bus) - BusCap + 1]
  /\ missed' = [missed EXCEPT ![c] = @ \cup {bus[i] : i \in pos[c]..(pos'[c] - 1)}]
  /\ UNCHANGED <<count, by, history, todo, bus, state, past, got>>

\* The client goes away: the next write fails and the task returns.
Disconnect(c) ==
  /\ state[c] \in {"accepted", "served"}
  /\ state' = [state EXCEPT ![c] = "gone"]
  /\ UNCHANGED <<count, by, history, todo, bus, pos, past, got, missed>>

-----------------------------------------------------------------------------
Reporting == \E t \in Threads : Record(t) \/ Send(t)
Serve(c)  == Snapshot(c) \/ Replay(c) \/ Recv(c) \/ Lag(c)

Next ==
  \/ Reporting
  \/ \E c \in Clients : Accept(c) \/ Serve(c) \/ Disconnect(c)

Spec == Init /\ [][Next]_vars

\* The tasks of the runtime are scheduled, and a client that stays reads what
\* it is sent.  Nothing makes a thread report or a client connect.
FairSpec ==
  /\ Spec
  /\ \A t \in Threads : WF_vars(Send(t))
  /\ \A c \in Clients : WF_vars(Serve(c))
-----------------------------------------------------------------------------
\* A client that has read all there is has seen every event ever sent, those
\* reported between its subscription and its replay included, except the ones
\* the two bounds made it miss.
NothingLost ==
  \A c \in Clients :
    state[c] = "served" /\ past[c] = <<>> /\ ~Behind(c) =>
      RangeOf(bus) \subseteq RangeOf(got[c]) \cup missed[c]

FirstAt(c, e) == CHOOSE i \in 1..Len(got[c]) :
                   got[c][i] = e /\ \A j \in 1..(i - 1) : got[c][j] # e

\* A client sees the events of one thread in the order they happened, repeated
\* ones and those it missed the replay of apart, although different threads
\* may be recorded in one order and sent in the other; and it sees an event
\* twice at most, once from the history and once from the channel.
ThreadOrderKept ==
  \A c \in Clients :
    /\ \A e, f \in RangeOf(got[c]) \ missed[c] :
         e < f /\ by[e] = by[f] => FirstAt(c, e) < FirstAt(c, f)
    /\ \A e \in RangeOf(got[c]) :
         Cardinality({i \in 1..Len(got[c]) : got[c][i] = e}) <= 2

\* Every event recorded reaches each client that stays, or is one it misses:
\* "lifetime events from daemon start" as far as the two bounds reach.
Delivered ==
  \A c \in Clients, e \in Events :
    e <= count /\ state[c] \in {"accepted", "served"}
      ~> e \in RangeOf(got[c]) \cup missed[c] \/ state[c] = "gone"
=============================================================================
