------------------------------ MODULE AlertPanel ------------------------------
(***************************************************************************)
(* The alerts of the web dashboard: the store in the daemon's memory       *)
(* (protector/src/alert_store.rs), the handlers that serve it (web_ui.rs)  *)
(* and the page's script that polls it (web/index.html).  A timer starts a *)
(* poll every two seconds whether or not the last one was answered, so     *)
(* requests overlap and their answers may come in any order.               *)
(***************************************************************************)
EXTENDS Integers, Sequences, FiniteSets

CONSTANTS
  Polls,           \* poll requests that may be in flight at once
  StoreCap,        \* alerts the store keeps (max_size, 500 in the code)
  MaxAlerts,       \* bound: alerts pushed
  MaxPageTroubles  \* bound: uses of CLEAR ALL, restarts of the daemon and
                   \* requests that fail on the way, together

ASSUME AlertPanelAssumption ==
  /\ "load" \notin Polls /\ "clear" \notin Polls
  /\ StoreCap \in Nat \ {0}
  /\ {MaxAlerts, MaxPageTroubles} \subseteq Nat

VARIABLES
  entries,   \* the store: [id, n], n being the alert's place among all pushed
  nextId,    \* next_id
  count,     \* alerts pushed since the beginning
  session,   \* the page's cookie is one the daemon knows
  lastAlertId,
  rows,      \* the alerts on the panel
  ever,      \* those that have been on it at some time
  replaced,  \* the answer of the first load came after that of a poll
  req,       \* the requests of the page
  clears, restarts, requestFails

storeVars == <<entries, nextId, count>>
pageVars  == <<lastAlertId, rows, ever, replaced>>
panelBounds == <<clears, restarts, requestFails>>
panelVars == <<storeVars, session, pageVars, req, panelBounds>>

Slots == Polls \cup {"load", "clear"}
NoRequest == [at |-> "idle", after |-> 0, alerts |-> {}, last |-> 0]
Sent(after) == [NoRequest EXCEPT !.at = "sent", !.after = after]

Alerts == 1..MaxAlerts
Requests == [at : {"idle", "sent", "answered", "redirected"}, after : 0..MaxAlerts,
             alerts : SUBSET Alerts, last : 0..MaxAlerts]

PanelTypeOK ==
  /\ entries \in Seq([id : Alerts, n : Alerts]) /\ Len(entries) <= StoreCap
  /\ nextId \in 1..(MaxAlerts + 1)
  /\ count \in 0..MaxAlerts
  /\ session \in BOOLEAN
  /\ lastAlertId \in 0..MaxAlerts
  /\ rows \subseteq ever /\ ever \subseteq Alerts
  /\ replaced \in BOOLEAN
  /\ req \in [Slots -> Requests]
  /\ {clears, restarts, requestFails, clears + restarts + requestFails} \subseteq 0..MaxPageTroubles

\* The page has just been opened, on a daemon just started: its script asks
\* for all alerts.
PanelInit ==
  /\ entries = <<>> /\ nextId = 1 /\ count = 0
  /\ session = TRUE
  /\ lastAlertId = 0 /\ rows = {} /\ ever = {} /\ replaced = FALSE
  /\ req = [s \in Slots |-> IF s = "load" THEN Sent(0) ELSE NoRequest]
  /\ clears = 0 /\ restarts = 0 /\ requestFails = 0

MorePageTroubles == clears + restarts + requestFails < MaxPageTroubles
Stored == {entries[i].n : i \in 1..Len(entries)}

-----------------------------------------------------------------------------
(* The daemon.                                                             *)

PushUncapped ==
  /\ count < MaxAlerts
  /\ count' = count + 1
  /\ nextId' = nextId + 1
  /\ entries' = Append(entries, [id |-> nextId, n |-> count'])
  /\ UNCHANGED <<session, pageVars, req, panelBounds>>

\* AlertStore::push, of whichever thread raises the alert.
Push ==
  /\ count < MaxAlerts
  /\ count' = count + 1
  /\ nextId' = nextId + 1
  /\ LET e == Append(entries, [id |-> nextId, n |-> count'])
     IN  entries' = IF Len(e) > StoreCap THEN Tail(e) ELSE e
  /\ UNCHANGED <<session, pageVars, req, panelBounds>>

\* AlertStore::since; all() is since(0), for ids start at 1.
Since(after) == {entries[i].n : i \in {j \in 1..Len(entries) : entries[j].id > after}}

\* A request without a valid session is redirected to the login page.
Redirect(s) ==
  /\ req[s].at = "sent" /\ ~session
  /\ req' = [req EXCEPT ![s].at = "redirected"]
  /\ UNCHANGED <<storeVars, session, pageVars, panelBounds>>

\* get_alerts: the alerts and the last id, read under one lock.
Answer(s) ==
  /\ s # "clear" /\ req[s].at = "sent" /\ session
  /\ req' = [req EXCEPT ![s] = [at |-> "answered", after |-> @.after,
                                alerts |-> Since(@.after), last |-> nextId - 1]]
  /\ UNCHANGED <<storeVars, session, pageVars, panelBounds>>

\* clear_alerts: the ids go on from where they were.
AnswerClear ==
  /\ req["clear"].at = "sent" /\ session
  /\ entries' = <<>>
  /\ req' = [req EXCEPT !["clear"].at = "answered"]
  /\ UNCHANGED <<nextId, count, session, pageVars, panelBounds>>

\* The daemon starts anew: store and sessions were in its memory, requests it
\* had not answered fail.  What it had answered still arrives.
Restart ==
  /\ MorePageTroubles
  /\ restarts' = restarts + 1
  /\ entries' = <<>> /\ nextId' = 1
  /\ session' = FALSE
  /\ req' = [s \in Slots |-> IF req[s].at = "sent" THEN NoRequest ELSE req[s]]
  /\ UNCHANGED <<count, pageVars, clears, requestFails>>

-----------------------------------------------------------------------------
(* The page.                                                               *)

\* setInterval(pollAlerts, 2000), whether or not the first load was answered.
PollTick(s) ==
  /\ s \in Polls /\ req[s].at = "idle"
  /\ req' = [req EXCEPT ![s] = Sent(lastAlertId)]
  /\ UNCHANGED <<storeVars, session, pageVars, panelBounds>>

\* The whole list, which takes the place of the one on the panel.
LoadAnswered ==
  /\ req["load"].at = "answered"
  /\ lastAlertId' = req["load"].last
  /\ rows' = IF req["load"].alerts = {} THEN rows ELSE req["load"].alerts
  /\ ever' = ever \cup rows'
  /\ replaced' = (rows # {})
  /\ req' = [req EXCEPT !["load"] = NoRequest]
  /\ UNCHANGED <<storeVars, session, panelBounds>>

PollAnsweredReplaces(s) ==
  /\ s \in Polls /\ req[s].at = "answered"
  /\ IF req[s].alerts = {}
       THEN UNCHANGED pageVars
       ELSE /\ lastAlertId' = req[s].last
            /\ rows' = req[s].alerts
            /\ ever' = ever \cup rows'
            /\ UNCHANGED replaced
  /\ req' = [req EXCEPT ![s] = NoRequest]
  /\ UNCHANGED <<storeVars, session, panelBounds>>

PollAnsweredHidden(s) ==
  /\ s \in Polls /\ req[s].at = "answered"
  /\ req' = [req EXCEPT ![s] = NoRequest]
  /\ UNCHANGED <<storeVars, session, pageVars, panelBounds>>

\* The cursor follows the answer only when there is something in it, and goes
\* back when the answer is an old one.
PollAnswered(s) ==
  /\ s \in Polls /\ req[s].at = "answered"
  /\ IF req[s].alerts = {}
       THEN UNCHANGED pageVars
       ELSE /\ lastAlertId' = req[s].last
            /\ rows' = rows \cup req[s].alerts
            /\ ever' = ever \cup rows'
            /\ UNCHANGED replaced
  /\ req' = [req EXCEPT ![s] = NoRequest]
  /\ UNCHANGED <<storeVars, session, panelBounds>>

\* CLEAR ALL: the request is sent ...
ClearAlerts ==
  /\ MorePageTroubles /\ req["clear"].at = "idle"
  /\ clears' = clears + 1
  /\ req' = [req EXCEPT !["clear"] = Sent(0)]
  /\ UNCHANGED <<storeVars, session, pageVars, restarts, requestFails>>

ClearAnsweredSkips ==
  /\ req["clear"].at \in {"answered", "redirected"}
  /\ rows' = {}
  /\ lastAlertId' = nextId - 1
  /\ req' = [req EXCEPT !["clear"] = NoRequest]
  /\ UNCHANGED <<storeVars, session, ever, replaced, panelBounds>>

\* ... and the panel is emptied when any answer has come.
ClearAnswered ==
  /\ req["clear"].at \in {"answered", "redirected"}
  /\ rows' = {}
  /\ req' = [req EXCEPT !["clear"] = NoRequest]
  /\ UNCHANGED <<storeVars, session, lastAlertId, ever, replaced, panelBounds>>

\* The login page is not JSON: load and poll ignore it in their catch.
Ignored(s) ==
  /\ s # "clear" /\ req[s].at = "redirected"
  /\ req' = [req EXCEPT ![s] = NoRequest]
  /\ UNCHANGED <<storeVars, session, pageVars, panelBounds>>

\* fetch rejects: the catch is silent too.
Fail(s) ==
  /\ MorePageTroubles /\ req[s].at # "idle"
  /\ requestFails' = requestFails + 1
  /\ req' = [req EXCEPT ![s] = NoRequest]
  /\ UNCHANGED <<storeVars, session, pageVars, clears, restarts>>

\* The user logs in again in another tab; the cookie is this page's as well.
Login ==
  /\ ~session
  /\ session' = TRUE
  /\ UNCHANGED <<storeVars, pageVars, req, panelBounds>>

-----------------------------------------------------------------------------
PanelNext ==
  \/ Push \/ AnswerClear \/ Restart
  \/ LoadAnswered \/ ClearAlerts \/ ClearAnswered \/ Login
  \/ \E s \in Slots : \/ Redirect(s) \/ Answer(s) \/ PollTick(s)
                      \/ PollAnswered(s) \/ Ignored(s) \/ Fail(s)

PanelSpec == PanelInit /\ [][PanelNext]_panelVars

\* The timer fires, a running daemon answers, answers arrive; failures are
\* finite.  Nobody has to log in again.
PanelFairSpec ==
  /\ PanelSpec
  /\ \A s \in Slots : WF_panelVars(PollTick(s)) /\ WF_panelVars(Answer(s))
                      /\ WF_panelVars(PollAnswered(s)) /\ WF_panelVars(Ignored(s))
  /\ WF_panelVars(LoadAnswered)
-----------------------------------------------------------------------------
\* Whatever is stored up to the page's cursor is on the panel: overlapping,
\* reordered and failed polls may show an alert twice, never leave one out,
\* although CLEAR ALL or a first load answered after a poll may take it off
\* again.  (After a restart of the daemon its ids begin again and nothing can be
\* said.)
PanelComplete ==
  restarts = 0 =>
    \A i \in 1..Len(entries) : entries[i].id <= lastAlertId =>
      /\ entries[i].n \in ever
      /\ clears = 0 /\ ~replaced => entries[i].n \in rows

Newer(n) == \E i \in 1..Len(entries) :
              entries[i].n = n /\ entries[i].id > lastAlertId

\* An alert newer than the cursor gets to the panel, unless it leaves the
\* store, the session ends, or after a restart the last answer of the earlier
\* daemon moves the cursor past it.
AlertShown ==
  \A n \in Alerts :
    Newer(n) ~> \/ n \in ever \/ n \notin Stored \/ ~session
                \/ restarts > 0 /\ ~Newer(n)
=============================================================================
