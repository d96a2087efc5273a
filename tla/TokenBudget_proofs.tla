-------------------------- MODULE TokenBudget_proofs --------------------------
(***************************************************************************)
(* Proofs about the token budget, for any number of requests, models,      *)
(* limits, edits, resets and changes of the clock.                         *)
(***************************************************************************)
EXTENDS TokenBudget, FiniteSetTheorems, TLAPS

-----------------------------------------------------------------------------
(* Types.                                                                  *)

\* Some model and the empty request are what their types say.
LEMMA IdleType == NoRequests \in [Conns -> Requests] /\ None \in Tokens
                  /\ AnyModel \in Models /\ Default \in AllConfigs
  <1>1. AnyModel \in Models
    BY TokenBudgetAssumption DEF AnyModel
  <1>2. None \in Tokens
    BY TokenBudgetAssumption DEF None, Tokens
  <1>3. Idle(AnyModel) \in Requests
    BY <1>1, <1>2 DEF Idle, Requests
  <1>4. Default \in AllConfigs
    BY DEF Default, AllConfigs, Limits, None
  <1> QED
    BY <1>1, <1>2, <1>3, <1>4 DEF NoRequests

\* The state of a daemon that has just started is well typed.
LEMMA InitTypeOK == Init => TypeOK
  <1> SUFFICES ASSUME Init PROVE TypeOK
    OBVIOUS
  <1>1. [m \in Models |-> None] \in [Models -> [Kinds -> Nat]]
    BY DEF None
  <1>2. Default.limit \in Limits
    BY <1>1 DEF Default, Limits
  <1> QED
    BY IdleType, TokenBudgetAssumption, <1>1, <1>2 DEF Init, TypeOK

\* reset_task leaves a well-typed window.
LEMMA ResetType ==
  ASSUME TypeOK, Reset
  PROVE  /\ used' \in [Models -> [Kinds -> Nat]] /\ top' \in Limits
         /\ past' \in 0..HistoryCap /\ age' \in -1..Timeout
  <1>1. used' \in [Models -> [Kinds -> Nat]]
    BY DEF Reset, None
  <1>2. top' \in Limits
    BY DEF Reset, TypeOK, AllConfigs
  <1> QED
    BY <1>1, <1>2, TokenBudgetAssumption DEF Reset, TypeOK

\* What parse_usage tells of an answer is at most what it cost.
LEMMA ParsedType ==
  ASSUME NEW r \in Requests, NEW whole \in BOOLEAN
  PROVE  Parsed(r, whole) \in Tokens
  BY TokenBudgetAssumption DEF Parsed, Requests, Tokens

\* A request moves to a step, or its record is cleared.
LEMMA GotoType ==
  ASSUME TypeOK, NEW c \in Conns,
         NEW at \in {"idle", "check", "send", "relay", "record"}, Goto(c, at)
  PROVE  conn' \in [Conns -> Requests]
  <1>1. Idle(AnyModel) \in Requests
    BY IdleType DEF Idle, Requests
  <1>2. conn[c] \in Requests /\ conn \in [Conns -> Requests]
    BY DEF TypeOK
  <1>3. [conn[c] EXCEPT !.at = at] \in Requests
    BY <1>2 DEF Requests
  <1>4. CASE at = "idle"
    BY <1>1, <1>2, <1>4 DEF Goto
  <1>5. CASE at # "idle"
    BY <1>2, <1>3, <1>5 DEF Goto
  <1> QED
    BY <1>4, <1>5

\* The answer that begins is kept with its request.
LEMMA AnswerType ==
  ASSUME TypeOK, NEW c \in Conns, NEW cost \in Tokens, NEW stream \in BOOLEAN,
         conn' = [conn EXCEPT ![c].at = "relay", ![c].cost = cost,
                              ![c].stream = stream]
  PROVE  conn' \in [Conns -> Requests]
  <1>1. conn[c] \in Requests /\ conn \in [Conns -> Requests]
    BY DEF TypeOK
  <1>2. [conn[c] EXCEPT !.at = "relay", !.cost = cost, !.stream = stream]
          \in Requests
    BY <1>1 DEF Requests
  <1>3. conn' = [conn EXCEPT ![c] = [conn[c] EXCEPT !.at = "relay",
                                       !.cost = cost, !.stream = stream]]
    BY <1>1
  <1> QED
    BY <1>1, <1>2, <1>3

\* Every step of a request, an edit or the clock keeps the types.
LEMMA NextTypeOK == TypeOK /\ [Next]_vars => TypeOK'
  <1> SUFFICES ASSUME TypeOK, [Next]_vars
               PROVE  TypeOK'
    OBVIOUS
  <1> USE TokenBudgetAssumption
  <1>1. ASSUME NEW c \in Conns, NEW m \in Models, Arrive(c, m) PROVE TypeOK'
    <2>1. [Idle(m) EXCEPT !.at = "check"] \in Requests
      BY IdleType DEF Idle, Requests
    <2> QED
      BY <1>1, <2>1 DEF Arrive, TypeOK
  <1>2. ASSUME NEW c \in Conns, Check(c) PROVE TypeOK'
    <2>1. conn' \in [Conns -> Requests]
      BY <1>2, GotoType DEF Check
    <2>2. /\ used' \in [Models -> [Kinds -> Nat]] /\ top' \in Limits
          /\ past' \in 0..HistoryCap /\ age' \in -1..Timeout
      <3>1. CASE Due
        BY <3>1, <1>2, ResetType DEF Check
      <3>2. CASE ~Due
        BY <3>2, <1>2 DEF Check, TypeOK
      <3> QED
        BY <3>1, <3>2
    <2> QED
      BY <1>2, <2>1, <2>2 DEF Check, TypeOK
  <1>3. ASSUME NEW c \in Conns, Answer(c) PROVE TypeOK'
    <2>1. PICK cost \in Costs, stream \in BOOLEAN :
            conn' = [conn EXCEPT ![c].at = "relay", ![c].cost = cost,
                                 ![c].stream = stream]
      BY <1>3 DEF Answer
    <2>2. cost \in Tokens
      BY TokenBudgetAssumption
    <2>3. conn' \in [Conns -> Requests]
      BY <2>1, <2>2, AnswerType
    <2> QED
      BY <1>3, <2>3 DEF Answer, TypeOK
  <1>4. ASSUME NEW c \in Conns, Fail(c) PROVE TypeOK'
    <2>1. conn' \in [Conns -> Requests]
      BY <1>4, GotoType DEF Fail
    <2> QED
      BY <1>4, <2>1 DEF Fail, TypeOK
  <1>5. ASSUME NEW c \in Conns, Relay(c) PROVE TypeOK'
    BY <1>5 DEF Relay, TypeOK, Requests
  <1>6. ASSUME NEW c \in Conns, EndRelay(c) PROVE TypeOK'
    <2>1. conn[c] \in Requests
      BY DEF TypeOK
    <2>2. PICK whole \in {conn[c].begun, FALSE} :
            conn' = [conn EXCEPT ![c] = [Idle(@.model) EXCEPT !.at = "record",
                                           !.cost = Parsed(conn[c], whole)]]
      BY <1>6 DEF EndRelay
    <2>3. Parsed(conn[c], whole) \in Tokens
      BY <2>1, ParsedType DEF Requests
    <2>4. [Idle(conn[c].model) EXCEPT !.at = "record",
             !.cost = Parsed(conn[c], whole)] \in Requests
      BY <2>1, <2>3 DEF Idle, Requests
    <2> QED
      BY <1>6, <2>2, <2>4 DEF EndRelay, TypeOK
  <1>7. ASSUME NEW c \in Conns, Record(c) PROVE TypeOK'
    <2>1. conn' \in [Conns -> Requests]
      BY <1>7, GotoType DEF Record
    <2>2. /\ used' \in [Models -> [Kinds -> Nat]] /\ age' \in -1..Timeout
          /\ top' = top /\ past' = past
      <3>1. CASE conn[c].cost = None
        BY <3>1, <1>7 DEF Record, TypeOK
      <3>2. CASE conn[c].cost # None
        BY <3>2, <1>7 DEF Record, Charge, TypeOK, Requests, Tokens
      <3> QED
        BY <3>1, <3>2
    <2> QED
      BY <1>7, <2>1, <2>2 DEF Record, TypeOK
  <1>8. ASSUME NEW new \in Configs, SetBudget(new) PROVE TypeOK'
    <2>1. new \in AllConfigs /\ Default \in AllConfigs
      BY IdleType
    <2>2. top' \in Limits
      BY <1>8, <2>1 DEF SetBudget, TypeOK, Limits, AllConfigs
    <2> QED
      BY <1>8, <2>1, <2>2 DEF SetBudget, TypeOK
  <1>9. CASE ResetByHand
    BY <1>9, ResetType DEF ResetByHand, Trouble, TypeOK
  <1>10. CASE Restart
    <2>1. used' \in [Models -> [Kinds -> Nat]]
      BY <1>10 DEF Restart, None
    <2>2. top' \in Limits
      BY <1>10 DEF Restart, TypeOK, AllConfigs
    <2> QED
      BY <1>10, <2>1, <2>2, IdleType DEF Restart, Trouble, TypeOK
  <1>11. CASE Tick
    BY <1>11 DEF Tick, TypeOK
  <1>12. CASE SetBack
    BY <1>12 DEF SetBack, Trouble, TypeOK
  <1>13. CASE UNCHANGED vars
    BY <1>13 DEF vars, TypeOK
  <1> QED
    BY <1>1, <1>2, <1>3, <1>4, <1>5, <1>6, <1>7, <1>8, <1>9, <1>10, <1>11,
       <1>12, <1>13 DEF Next, Serve

\* Type correctness: the history keeps its bound, whatever the order of
\* requests, edits, resets and changes of the clock.
THEOREM TypeCorrect == Spec => []TypeOK
  BY InitTypeOK, NextTypeOK, PTL DEF Spec

-----------------------------------------------------------------------------
(* The bound on the overrun.  It is not inductive: a charge may come at any *)
(* height.  What holds it is that each admitted request that is not charged *)
(* yet has its most expensive answer kept free for it.                      *)

\* Requests of a model that were admitted and are still to be charged.
Live(m) == {c \in Conns : conn[c].model = m /\ conn[c].at \in {"send", "relay", "record"}}

Reserved(m, k) ==
  top[m][k] > 0 =>
    used[m][k] + MaxCost * Cardinality(Live(m))
      < top[m][k] + MaxCost * Cardinality(Conns)

\* A limit that was in force all through the window is in force now, and none
\* was higher than top.
LimitOK(m, k) ==
  top[m][k] > 0 => config.limit[m][k] > 0 /\ config.limit[m][k] <= top[m][k]

IInv == \A m \in Models, k \in Kinds : Reserved(m, k) /\ LimitOK(m, k)

\* A smaller number of requests needs no more tokens.
LEMMA Monotone ==
  ASSUME NEW a \in Nat, NEW i \in Nat, NEW j \in Nat, i <= j
  PROVE  a * i <= a * j
  <1>1. PICK d \in Nat : j = i + d
    BY i + (j - i) = j, j - i \in Nat
  <1>2. a * d \in Nat /\ a * i \in Nat /\ a * (i + d) = a * i + a * d
    OBVIOUS
  <1> QED
    BY <1>1, <1>2

\* The requests to be charged are some of the requests that can be under way,
\* and a subset needs no more than the whole.
LEMMA LiveCount ==
  ASSUME NEW S \in SUBSET Conns, NEW L \in SUBSET S
  PROVE  /\ Cardinality(S) \in Nat /\ Cardinality(L) \in Nat
         /\ MaxCost * Cardinality(S) \in Nat /\ MaxCost * Cardinality(L) \in Nat
         /\ MaxCost * Cardinality(L) <= MaxCost * Cardinality(S)
  <1>1. IsFiniteSet(S) /\ IsFiniteSet(L)
    BY FS_Subset, TokenBudgetAssumption
  <1>2. Cardinality(S) \in Nat /\ Cardinality(L) \in Nat
        /\ Cardinality(L) <= Cardinality(S)
    BY <1>1, FS_CardinalityType, FS_Subset
  <1>3. MaxCost \in Nat
    BY TokenBudgetAssumption
  <1> QED
    BY <1>2, <1>3, Monotone

\* A window that begins, or whose requests have gone, reserves enough.
LEMMA Begun ==
  ASSUME NEW m \in Models, NEW k \in Kinds, top[m][k] \in Nat,
         used[m][k] \in Nat, top[m][k] > 0 => used[m][k] < top[m][k]
  PROVE  Reserved(m, k)
  <1>1. Live(m) \in SUBSET Conns
    BY DEF Live
  <1> QED
    BY <1>1, LiveCount DEF Reserved

\* While the usage does not grow, top does not fall and no request joins those
\* to be charged, enough stays reserved.
LEMMA Kept ==
  ASSUME NEW m \in Models, NEW k \in Kinds, TypeOK, TypeOK', Reserved(m, k),
         used'[m][k] = used[m][k], Live(m)' \subseteq Live(m),
         top'[m][k] > 0 => top[m][k] > 0 /\ top[m][k] <= top'[m][k]
  PROVE  Reserved(m, k)'
  <1>1. Live(m) \in SUBSET Conns
    BY DEF Live
  <1>2. MaxCost * Cardinality(Live(m)') <= MaxCost * Cardinality(Live(m))
        /\ MaxCost * Cardinality(Live(m)') \in Nat
        /\ MaxCost * Cardinality(Live(m)) \in Nat
        /\ MaxCost * Cardinality(Conns) \in Nat
    BY <1>1, LiveCount
  <1>3. used[m][k] \in Nat /\ top[m][k] \in Nat /\ top'[m][k] \in Nat
    BY DEF TypeOK, Limits
  <1> QED
    BY <1>2, <1>3 DEF Reserved
\* Nothing is used and nothing is limited when the daemon starts.
LEMMA InitIInv == Init => IInv
  <1> SUFFICES ASSUME Init, NEW m \in Models, NEW k \in Kinds
               PROVE  Reserved(m, k) /\ LimitOK(m, k)
    BY DEF IInv
  <1>1. top[m][k] = 0
    BY DEF Init, Default, None
  <1> QED
    BY <1>1 DEF Reserved, LimitOK

\* reset_task starts a window whose top is the limit.
LEMMA ResetIInv ==
  ASSUME TypeOK, TypeOK', Reset, config' = config
  PROVE  IInv'
  <1> SUFFICES ASSUME NEW m \in Models, NEW k \in Kinds
               PROVE  Reserved(m, k)' /\ LimitOK(m, k)'
    BY DEF IInv
  <1>1. used'[m][k] = 0 /\ top'[m][k] = config.limit[m][k] /\ top'[m][k] \in Nat
    BY DEF Reset, None, TypeOK, Limits
  <1>2. Live(m)' \in SUBSET Conns
    BY DEF Live
  <1> QED
    BY <1>1, <1>2, LiveCount DEF Reserved, LimitOK

\* Every step keeps enough reserved: a request is admitted below the limit
\* only, and its charge uses up what was reserved for it.
LEMMA NextIInv == TypeOK /\ TypeOK' /\ IInv /\ [Next]_vars => IInv'
  <1> SUFFICES ASSUME TypeOK, TypeOK', IInv, [Next]_vars
               PROVE  IInv'
    OBVIOUS
  \* What a step that leaves the window and the configuration alone has to do.
  <1>0. ASSUME UNCHANGED <<config, used, top>>,
               \A m \in Models : Live(m)' \subseteq Live(m)
        PROVE  IInv'
    <2> SUFFICES ASSUME NEW m \in Models, NEW k \in Kinds
                 PROVE  Reserved(m, k)' /\ LimitOK(m, k)'
      BY DEF IInv
    <2>1. LimitOK(m, k)'
      BY <1>0 DEF IInv, LimitOK
    <2>2. top[m][k] \in Nat
      BY DEF TypeOK, Limits
    <2>3. Reserved(m, k)'
      BY <1>0, <2>2, Kept DEF IInv
    <2> QED
      BY <2>1, <2>3
  <1>1. ASSUME NEW c \in Conns, NEW n \in Models, Arrive(c, n) PROVE IInv'
    <2>1. \A m \in Models : Live(m)' \subseteq Live(m)
      BY <1>1 DEF Arrive, Live, Idle, TypeOK, Requests
    <2> QED
      BY <1>0, <1>1, <2>1 DEF Arrive
  <1>2. ASSUME NEW c \in Conns, Check(c) PROVE IInv'
    <2>1. CASE Exhausted(conn[c].model, used')
      <3>1. \A m \in Models : Live(m)' \subseteq Live(m)
        BY <1>2, <2>1 DEF Check, Goto, Live, Idle, TypeOK, Requests
      <3>2. CASE Due
        BY <1>2, <3>2, ResetIInv DEF Check
      <3>3. CASE ~Due
        BY <1>0, <1>2, <3>1, <3>3 DEF Check
      <3> QED
        BY <3>2, <3>3
    <2>2. CASE ~Exhausted(conn[c].model, used')
      <3>1. CASE Due
        BY <1>2, <3>1, ResetIInv DEF Check
      <3>2. CASE ~Due
        <4> SUFFICES ASSUME NEW m \in Models, NEW k \in Kinds
                     PROVE  Reserved(m, k)' /\ LimitOK(m, k)'
          BY DEF IInv
        <4>1. UNCHANGED <<config, used, top>>
          BY <1>2, <3>2 DEF Check
        <4>2. LimitOK(m, k)'
          BY <4>1 DEF IInv, LimitOK
        <4>3. CASE m = conn[c].model
          <5>1. config.limit[m][k] > 0 => used[m][k] < config.limit[m][k]
            BY <2>2, <4>1, <4>3 DEF Exhausted, TypeOK, AllConfigs, Limits
          <5>2. /\ top'[m][k] \in Nat /\ used'[m][k] \in Nat
                /\ config.limit[m][k] \in Nat
            BY DEF TypeOK, AllConfigs, Limits
          <5>3. top'[m][k] > 0 => used'[m][k] < top'[m][k]
            BY <4>1, <4>2, <5>1, <5>2 DEF LimitOK
          <5>4. Live(m)' \in SUBSET Conns
            BY DEF Live
          <5> QED
            BY <4>2, <5>2, <5>3, <5>4, LiveCount DEF Reserved
        <4>4. CASE m # conn[c].model
          <5>1. Live(m)' \subseteq Live(m)
            BY <1>2, <2>2, <4>4 DEF Check, Goto, Live, TypeOK, Requests
          <5>2. top[m][k] \in Nat
            BY DEF TypeOK, Limits
          <5> QED
            BY <4>1, <4>2, <5>1, <5>2, Kept DEF IInv
        <4> QED
          BY <4>3, <4>4
      <3> QED
        BY <3>1, <3>2
    <2> QED
      BY <2>1, <2>2
  <1>3. ASSUME NEW c \in Conns, Answer(c) PROVE IInv'
    <2>1. \A m \in Models : Live(m)' \subseteq Live(m)
      BY <1>3 DEF Answer, Live, TypeOK, Requests
    <2> QED
      BY <1>0, <1>3, <2>1 DEF Answer
  <1>4. ASSUME NEW c \in Conns, Fail(c) PROVE IInv'
    <2>1. \A m \in Models : Live(m)' \subseteq Live(m)
      BY <1>4 DEF Fail, Goto, Live, Idle, TypeOK, Requests
    <2> QED
      BY <1>0, <1>4, <2>1 DEF Fail
  <1>5. ASSUME NEW c \in Conns, Relay(c) PROVE IInv'
    <2>1. \A m \in Models : Live(m)' \subseteq Live(m)
      BY <1>5 DEF Relay, Live, TypeOK, Requests
    <2> QED
      BY <1>0, <1>5, <2>1 DEF Relay
  <1>6. ASSUME NEW c \in Conns, EndRelay(c) PROVE IInv'
    <2>1. \A m \in Models : Live(m)' \subseteq Live(m)
      BY <1>6 DEF EndRelay, Live, Idle, TypeOK, Requests
    <2> QED
      BY <1>0, <1>6, <2>1 DEF EndRelay
  <1>7. ASSUME NEW c \in Conns, Record(c) PROVE IInv'
    <2>1. \A m \in Models : Live(m)' \subseteq Live(m)
      BY <1>7 DEF Record, Goto, Live, Idle, TypeOK, Requests
    <2>2. CASE conn[c].cost = None
      BY <1>0, <1>7, <2>1, <2>2 DEF Record
    <2>3. CASE conn[c].cost # None
      <3> SUFFICES ASSUME NEW m \in Models, NEW k \in Kinds
                   PROVE  Reserved(m, k)' /\ LimitOK(m, k)'
        BY DEF IInv
      <3>1. UNCHANGED <<config, top>>
        BY <1>7, <2>3 DEF Record, Charge
      <3>2. LimitOK(m, k)'
        BY <3>1 DEF IInv, LimitOK
      <3>3. top[m][k] \in Nat /\ used[m][k] \in Nat /\ used'[m][k] \in Nat
        BY DEF TypeOK, Limits
      <3>4. CASE m # conn[c].model
        <4>1. used'[m][k] = used[m][k]
          BY <1>7, <2>3, <3>4 DEF Record, Charge, TypeOK
        <4> QED
          BY <2>1, <3>1, <3>2, <3>3, <4>1, Kept DEF IInv
      <3>5. CASE m = conn[c].model
        <4>1. used'[m][k] = used[m][k] + conn[c].cost[k]
          BY <1>7, <2>3, <3>5 DEF Record, Charge, TypeOK
        <4>2. conn[c].cost[k] \in 0..MaxCost /\ MaxCost \in Nat
          BY TokenBudgetAssumption DEF TypeOK, Requests, Tokens
        <4>3. c \in Live(m) /\ Live(m)' \subseteq Live(m) \ {c}
          BY <1>7, <3>5 DEF Record, Goto, Live, Idle, TypeOK, Requests
        <4>4. MaxCost * Cardinality(Live(m)') + MaxCost
                <= MaxCost * Cardinality(Live(m))
          <5>1. Live(m) \in SUBSET Conns /\ IsFiniteSet(Live(m))
            BY FS_Subset, TokenBudgetAssumption DEF Live
          <5>2. Cardinality(Live(m) \ {c}) = Cardinality(Live(m)) - 1
            BY <4>3, <5>1, FS_RemoveElement
          <5>3. MaxCost * Cardinality(Live(m)')
                  <= MaxCost * Cardinality(Live(m) \ {c})
            BY <4>3, <5>1, LiveCount
          <5>4. Cardinality(Live(m)) \in Nat
            BY <5>1, FS_CardinalityType
          <5>5. MaxCost * (Cardinality(Live(m)) - 1) + MaxCost
                  = MaxCost * Cardinality(Live(m))
            BY <4>2, <5>4
          <5> QED
            BY <4>2, <4>3, <5>1, <5>2, <5>3, <5>4, <5>5, LiveCount
        <4>5. /\ MaxCost * Cardinality(Live(m)) \in Nat
              /\ MaxCost * Cardinality(Live(m)') \in Nat
              /\ MaxCost * Cardinality(Conns) \in Nat
          BY <4>3, LiveCount DEF Live
        <4>6. Reserved(m, k)
          BY DEF IInv
        <4>7. Reserved(m, k)'
          BY <3>1, <3>3, <4>1, <4>2, <4>4, <4>5, <4>6 DEF Reserved
        <4> QED
          BY <3>2, <4>7
      <3> QED
        BY <3>4, <3>5
    <2> QED
      BY <2>2, <2>3
  <1>8. ASSUME NEW new \in Configs, SetBudget(new) PROVE IInv'
    <2> SUFFICES ASSUME NEW m \in Models, NEW k \in Kinds
                 PROVE  Reserved(m, k)' /\ LimitOK(m, k)'
      BY DEF IInv
    <2>1. /\ top[m][k] \in Nat /\ top'[m][k] \in Nat
          /\ new.limit[m][k] \in Nat /\ config' = new /\ used' = used
      BY <1>8, TokenBudgetAssumption DEF SetBudget, TypeOK, AllConfigs, Limits
    <2>2. top'[m][k] =
            IF top[m][k] = 0 \/ new.limit[m][k] = 0 THEN 0
            ELSE IF top[m][k] > new.limit[m][k] THEN top[m][k]
            ELSE new.limit[m][k]
      BY <1>8 DEF SetBudget
    <2>3. LimitOK(m, k)'
      BY <2>1, <2>2 DEF LimitOK
    <2>4. Live(m)' \subseteq Live(m)
      BY <1>8 DEF SetBudget, Live
    <2>5. Reserved(m, k)'
      BY <2>1, <2>2, <2>4, Kept DEF IInv
    <2> QED
      BY <2>3, <2>5
  <1>9. CASE ResetByHand
    BY <1>9, ResetIInv DEF ResetByHand
  <1>10. CASE Restart
    <2> SUFFICES ASSUME NEW m \in Models, NEW k \in Kinds
                 PROVE  Reserved(m, k)' /\ LimitOK(m, k)'
      BY DEF IInv
    <2>1. /\ used'[m][k] = 0 /\ top'[m][k] = config'.limit[m][k]
          /\ top'[m][k] \in Nat
      BY <1>10 DEF Restart, None, TypeOK, Limits
    <2>2. Live(m)' \in SUBSET Conns
      BY DEF Live
    <2> QED
      BY <2>1, <2>2, LiveCount DEF Reserved, LimitOK
  <1>11. CASE Tick
    BY <1>0, <1>11 DEF Tick, Live
  <1>12. CASE SetBack
    BY <1>0, <1>12 DEF SetBack, Live
  <1>13. CASE UNCHANGED vars
    BY <1>0, <1>13 DEF vars, Live
  <1> QED
    BY <1>1, <1>2, <1>3, <1>4, <1>5, <1>6, <1>7, <1>8, <1>9, <1>10, <1>11,
       <1>12, <1>13 DEF Next, Serve

\* What is reserved is not less than nothing.
LEMMA IInvBounds == TypeOK /\ IInv => OverrunBounded
  <1> SUFFICES ASSUME TypeOK, IInv, NEW m \in Models, NEW k \in Kinds,
                      top[m][k] > 0
               PROVE  used[m][k] < top[m][k] + MaxCost * Cardinality(Conns)
    BY DEF OverrunBounded
  <1>1. Live(m) \in SUBSET Conns
    BY DEF Live
  <1>2. top[m][k] \in Nat /\ used[m][k] \in Nat
    BY DEF TypeOK, Limits
  <1> QED
    BY <1>1, <1>2, LiveCount DEF IInv, Reserved

\* token_proxy.rs checks before a request and charges after its answer; for any
\* number of requests a window overruns a limit that was in force all the time
\* by less than one answer for each of them.
THEOREM Overrun_Bounded == Spec => []OverrunBounded
  <1>1. Init => TypeOK /\ IInv
    BY InitTypeOK, InitIInv
  <1>2. TypeOK /\ IInv /\ [Next]_vars => (TypeOK /\ IInv)'
    BY NextTypeOK, NextIInv
  <1> QED
    BY <1>1, <1>2, IInvBounds, PTL DEF Spec
===============================================================================
