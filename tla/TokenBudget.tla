----------------------------- MODULE TokenBudget -----------------------------
(***************************************************************************)
(* The token-budget proxy (protector/src/token_proxy.rs, budget.rs) and    *)
(* the handlers that edit and reset it (web_ui.rs).  A request is checked  *)
(* before it is forwarded and charged after its answer was relayed; other  *)
(* requests, resets, edits and changes of the clock come in between.       *)
(***************************************************************************)
EXTENDS Integers, FiniteSets

CONSTANTS
  Conns,       \* requests that may be under way at once
  Models,
  Configs,     \* the configurations an edit may set
  Costs,       \* what an answer may cost
  MaxCost,     \* the most tokens of a kind one answer costs
  Timeout,     \* idle_reset_secs, when it is not 0
  Word,        \* 2^64: the difference of two times is a u64
  HistoryCap,  \* windows kept in the history (50 in the code)
  MaxUsed,     \* bound: tokens of a kind used when there is no limit
  MaxEdits,    \* bound: edits of the configuration
  MaxTroubles  \* bound: resets by hand, restarts and clocks set back, together

Kinds   == {"input", "output"}
Tokens  == [Kinds -> 0..MaxCost]
Limits  == [Models -> [Kinds -> Nat]]
\* BudgetConfig: the limits, 0 for none, and whether the window is reset when
\* nothing was charged for a time.
AllConfigs == [limit : Limits, idle : BOOLEAN]
None    == [k \in Kinds |-> 0]
Default == [limit |-> [m \in Models |-> None], idle |-> TRUE]

ASSUME TokenBudgetAssumption ==
  /\ IsFiniteSet(Conns) /\ Models # {}
  /\ {MaxCost, Timeout, Word, HistoryCap} \subseteq Nat \ {0}
  /\ Word > Timeout + 1
  /\ {MaxUsed, MaxEdits, MaxTroubles} \subseteq Nat
  /\ Configs \subseteq AllConfigs /\ Costs \subseteq Tokens

VARIABLES
  config,
  saved,     \* what budget.json would be loaded as
  used,      \* task.usage
  top,       \* the highest limit there was in this window, 0 if there was none
  past,      \* windows in the history
  age,       \* now_ms() - last_call_ms, up to Timeout; negative if now is before
  conn,      \* the requests
  edits, troubles

vars == <<config, saved, used, top, past, age, conn, edits, troubles>>

\* A request: cost is what its answer costs, and from "record" on what is to be
\* charged; begun when the start of the answer has been relayed.
Idle(m) == [at |-> "idle", model |-> m, cost |-> None, stream |-> FALSE, begun |-> FALSE]
Requests == [at : {"idle", "check", "send", "relay", "record"}, model : Models,
             cost : Tokens, stream : BOOLEAN, begun : BOOLEAN]

TypeOK ==
  /\ config \in AllConfigs /\ saved \in AllConfigs
  /\ used \in [Models -> [Kinds -> Nat]]
  /\ top \in Limits
  /\ past \in 0..HistoryCap
  /\ age \in -1..Timeout
  /\ conn \in [Conns -> Requests]
  /\ edits \in 0..MaxEdits /\ troubles \in 0..MaxTroubles

AnyModel == CHOOSE m \in Models : TRUE
NoRequests == [c \in Conns |-> Idle(AnyModel)]

Init ==
  /\ config = Default /\ saved = Default
  /\ used = [m \in Models |-> None] /\ top = Default.limit
  /\ past = 0 /\ age = 0
  /\ conn = NoRequests
  /\ edits = 0 /\ troubles = 0

Trouble == troubles < MaxTroubles /\ troubles' = troubles + 1

-----------------------------------------------------------------------------
(* budget.rs                                                               *)

ResetUncapped ==
  /\ used' = [m \in Models |-> None]
  /\ top' = config.limit
  /\ past' = past + 1
  /\ age' = 0

\* reset_task: a new window, the old one at the end of the history.
Reset ==
  /\ used' = [m \in Models |-> None]
  /\ top' = config.limit
  /\ past' = IF past < HistoryCap THEN past + 1 ELSE past
  /\ age' = 0

\* maybe_auto_reset: the age is computed in u64, and a clock set back makes it
\* very large.
Due == config.idle /\ age % Word >= Timeout

ExhaustedAbove(m, usage) ==
  \E k \in Kinds : config.limit[m][k] > 0 /\ usage[m][k] > config.limit[m][k]

\* check_limit, with the usage after the automatic reset.
Exhausted(m, usage) ==
  \E k \in Kinds : config.limit[m][k] > 0 /\ usage[m][k] >= config.limit[m][k]

\* record: the totals, and the time of the last call.
Charge(m, tokens) ==
  /\ used' = [used EXCEPT ![m] = [k \in Kinds |-> @[k] + tokens[k]]]
  /\ age' = 0
  /\ UNCHANGED <<top, past>>

-----------------------------------------------------------------------------
(* messages_handler: one request.                                          *)

Goto(c, at) == conn' = [conn EXCEPT ![c] = IF at = "idle" THEN Idle(AnyModel)
                                           ELSE [@ EXCEPT !.at = at]]

\* The body has been read, and the model found in it.
Arrive(c, m) ==
  /\ conn[c].at = "idle"
  /\ conn' = [conn EXCEPT ![c] = [Idle(m) EXCEPT !.at = "check"]]
  /\ UNCHANGED <<config, saved, used, top, past, age, edits, troubles>>

BelowBound(m, usage) ==
  \A k \in Kinds : config.limit[m][k] = 0 => usage[m][k] <= MaxUsed

CheckTouches(c) ==
  LET m == conn[c].model IN
  /\ conn[c].at = "check"
  /\ IF Due THEN Reset ELSE age' = 0 /\ UNCHANGED <<used, top, past>>
  /\ Goto(c, IF Exhausted(m, used') THEN "idle" ELSE "send")
  /\ Exhausted(m, used') \/ BelowBound(m, used')
  /\ UNCHANGED <<config, saved, edits, troubles>>

\* A refusal is an answer, not an error: nothing is forwarded or charged.
Check(c) ==
  LET m == conn[c].model IN
  /\ conn[c].at = "check"
  /\ IF Due THEN Reset ELSE UNCHANGED <<used, top, past, age>>
  /\ Goto(c, IF Exhausted(m, used') THEN "idle" ELSE "send")
  /\ Exhausted(m, used') \/ BelowBound(m, used')
  /\ UNCHANGED <<config, saved, edits, troubles>>

\* The API answers, by a stream or in one piece.
Answer(c) ==
  /\ conn[c].at = "send"
  /\ \E cost \in Costs, stream \in BOOLEAN :
       conn' = [conn EXCEPT ![c].at = "relay", ![c].cost = cost, ![c].stream = stream]
  /\ UNCHANGED <<config, saved, used, top, past, age, edits, troubles>>

\* The request fails on its way, or its client leaves before there is an
\* answer and the handler is dropped.
Fail(c) ==
  /\ conn[c].at = "send"
  /\ Goto(c, "idle")
  /\ UNCHANGED <<config, saved, used, top, past, age, edits, troubles>>

\* The spawned task relays the first part of the answer.
Relay(c) ==
  /\ conn[c].at = "relay" /\ ~conn[c].begun
  /\ conn' = [conn EXCEPT ![c].begun = TRUE]
  /\ UNCHANGED <<config, saved, used, top, past, age, edits, troubles>>

\* parse_usage: a stream's first event tells the input, its last the output;
\* of an answer in one piece a part tells nothing.
Parsed(r, whole) ==
  [k \in Kinds |-> IF whole \/ (r.stream /\ r.begun /\ k = "input") THEN r.cost[k] ELSE 0]

\* The loop ends with the answer; or earlier, when it breaks off, or the client
\* has left and a chunk cannot be handed on.  What was parsed is still to be
\* charged.
EndRelay(c) ==
  /\ conn[c].at = "relay"
  /\ \E whole \in {conn[c].begun, FALSE} :
       conn' = [conn EXCEPT ![c] = [Idle(@.model) EXCEPT !.at = "record",
                                                        !.cost = Parsed(conn[c], whole)]]
  /\ UNCHANGED <<config, saved, used, top, past, age, edits, troubles>>

Record(c) ==
  /\ conn[c].at = "record"
  /\ IF conn[c].cost = None
       THEN UNCHANGED <<used, top, past, age>>
       ELSE Charge(conn[c].model, conn[c].cost)
  /\ Goto(c, "idle")
  /\ UNCHANGED <<config, saved, edits, troubles>>

-----------------------------------------------------------------------------
(* Everything else.                                                        *)

\* set_budget: in memory first, then the file, whose write may fail; a
\* truncated file is read as the default.
SetBudget(new) ==
  /\ edits < MaxEdits
  /\ edits' = edits + 1
  /\ config' = new
  /\ saved' \in {new, saved, Default}
  /\ top' = [m \in Models |-> [k \in Kinds |->
       LET old == top[m][k]  limit == new.limit[m][k] IN
       IF old = 0 \/ limit = 0 THEN 0 ELSE IF old > limit THEN old ELSE limit]]
  /\ UNCHANGED <<used, past, age, conn, troubles>>

\* reset_budget.
ResetByHand ==
  /\ Trouble
  /\ Reset
  /\ UNCHANGED <<config, saved, conn, edits>>

\* Usage is kept in memory only.
Restart ==
  /\ Trouble
  /\ config' = saved
  /\ used' = [m \in Models |-> None] /\ top' = saved.limit
  /\ past' = 0 /\ age' = 0
  /\ conn' = NoRequests
  /\ UNCHANGED <<saved, edits>>

Tick ==
  /\ age < Timeout
  /\ age' = age + 1
  /\ UNCHANGED <<config, saved, used, top, past, conn, edits, troubles>>

\* SystemTime is not monotonic.
SetBack ==
  /\ Trouble
  /\ age' \in -1..(age - 1)
  /\ UNCHANGED <<config, saved, used, top, past, conn, edits>>

-----------------------------------------------------------------------------
Serve(c) == Check(c) \/ Answer(c) \/ Fail(c) \/ Relay(c) \/ EndRelay(c) \/ Record(c)

Next ==
  \/ \E c \in Conns : Serve(c) \/ \E m \in Models : Arrive(c, m)
  \/ \E new \in Configs : SetBudget(new)
  \/ ResetByHand \/ Restart \/ Tick \/ SetBack

Spec == Init /\ [][Next]_vars

\* Time passes.  Neither the clients nor the API have to do anything.
FairSpec == Spec /\ WF_vars(Tick)
-----------------------------------------------------------------------------
\* A window overruns a limit that was in force all the time by less than one
\* answer for each request that can be under way at once: whatever is admitted
\* before the charge that crosses it, carried over a reset, or cut short.
OverrunBounded ==
  \A m \in Models, k \in Kinds :
    top[m][k] > 0 => used[m][k] < top[m][k] + MaxCost * Cardinality(Conns)

\* A budget that is used up for every model comes due for its automatic reset,
\* however often it is asked for meanwhile: a refusal does not put it off.
AllSpent == \A m \in Models : Exhausted(m, used)
BudgetReturns == config.idle /\ AllSpent ~> Due \/ ~AllSpent \/ ~config.idle
=============================================================================
