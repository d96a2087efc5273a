----------------------------- MODULE WebUI_proofs -----------------------------
(***************************************************************************)
(* Proofs about what the pages of the web dashboard edit and show.         *)
(*                                                                         *)
(* The network firewall (module Firewall), for any editors, hosts and      *)
(* configurations and any number of edits, failures and restarts; then the *)
(* alert store and its panel (module AlertPanel), for any number of polls  *)
(* in flight, any capacity of the store and any number of alerts,          *)
(* clearings, restarts and failed requests.                                *)
(***************************************************************************)
EXTENDS Firewall, AlertPanel, SequenceTheorems, FiniteSetTheorems, TLAPS

-----------------------------------------------------------------------------
(* The inductive invariant.                                                *)

Running == ApplySteps \cup RefreshSteps

\* Only the start loads, only an editor writes and publishes, a step that the
\* mode decides upon is reached in that mode, and an edit that nothing
\* overlapped publishes what it wrote.
Placed(w) ==
  /\ At(w, "load") => w = Boot
  /\ work[w].at \in {"write", "publish"} => w \in Editors
  /\ work[w].at \in {"jump", "policy"} => work[w].cfg.mode # "off"
  /\ work[w].at \in {"base", "v6"} => work[w].cfg.mode = "whitelist"
  /\ work[w].alone => work[w].at \in {"write", "publish"}
  /\ work[w].alone /\ At(w, "publish") => file = work[w].cfg

\* A start, and an edit that nothing overlapped, are the only ones under way.
Alone(w) ==
  (w = Boot /\ Busy(w)) \/ work[w].alone => \A o \in Appliers \ {w} : ~Busy(o)

Places == \A w \in Workers : Placed(w) /\ Alone(w)

\* The configuration a start would load.
Loaded == IF file = Torn THEN Default ELSE file

\* The chain as it is before the last group of rules.
Begun(c) ==
  IF c.mode = "whitelist" THEN <<Entry("base", c), Entry("match", c)>> ELSE <<>>

\* The rules in the kernel are those of the configuration.
Whole == /\ chain = Built(config)
         /\ config.mode # "off" => jumps > 0
         /\ config.mode = "whitelist" => drops6 > 0

\* How far an apply has come that nothing disturbed.
Progress(w) ==
  /\ work[w].at \in Running => config = Loaded
  /\ work[w].at \in ApplySteps => config = work[w].cfg
  /\ At(w, "jump") => chain = <<>>
  /\ At(w, "base") => chain = <<>> /\ jumps > 0
  /\ At(w, "v6") => chain = Begun(config) /\ jumps > 0
  /\ At(w, "policy") => /\ chain = Begun(config) /\ jumps > 0
                        /\ config.mode = "whitelist" => drops6 > 0
  /\ work[w].at \in RefreshSteps => Whole

Undisturbed ==
  /\ \A w, o \in Appliers : Busy(w) /\ Busy(o) => w = o
  /\ \A w \in Appliers : Progress(w)
  /\ Settled => Whole /\ config = Loaded

\* Each applier beyond the first was counted as an overlap when it began.
BusyCounted == Cardinality({w \in Appliers : Busy(w)}) <= 1 + overlaps

\* The appliers at one of the steps with a configuration of one of the modes.
In(steps, modes) ==
  {w \in Appliers : work[w].at \in steps /\ work[w].cfg.mode \in modes}

\* Of a rule that the modes want, which is deleted after the steps cut and
\* added again after the steps hold: there is or will be one more than wanted
\* for each failure and overlap at most.  One is to spare while it is wanted, or
\* an applier that does not want it, or the start, has yet to delete it.
Spare(cut, modes) ==
  IF config.mode \in modes \/ At(Boot, "load") \/ In(cut, Modes \ modes) # {}
    THEN 1 ELSE 0
Bounded(n, cut, hold, modes) ==
  n + Cardinality(In(hold, modes)) <= Spare(cut, modes) + fails + overlaps
\* While it is not wanted, those that will add it overlapped another.
Late(steps, modes) ==
  config.mode \notin modes => Cardinality(In(steps, modes)) <= overlaps

On == {"blacklist", "whitelist"}
JumpCut == {"unjump"}          JumpHold == {"unv6", "flush", "jump"}
DropCut == {"unjump", "unv6"}  DropHold == {"flush", "jump", "base", "v6"}

Counts ==
  /\ BusyCounted
  /\ Bounded(jumps, JumpCut, JumpHold, On)
  /\ Late(JumpCut \cup JumpHold, On)
  /\ Bounded(drops6, DropCut, DropHold, {"whitelist"})
  /\ Late(DropCut \cup DropHold, {"whitelist"})

IInv == TypeOK /\ Places /\ (~flawed => Undisturbed) /\ Counts

-----------------------------------------------------------------------------
(* Workers and their records.                                              *)

Records == [at : Steps, cfg : AllConfigs, ips : SUBSET Hosts, alone : BOOLEAN]
ResolverSteps == {"idle"} \cup RefreshSteps

\* The default configuration is one, and an idle worker has a record.
LEMMA Basics ==
  /\ Default \in AllConfigs /\ Idle \in Records
  /\ IsFiniteSet(Appliers) /\ Appliers \subseteq Workers
  /\ Boot \in Appliers /\ Resolver \in Workers \ Appliers
  <1>1. IsFiniteSet(Appliers)
    BY FirewallAssumption, FS_AddElement, FS_Union, FS_Singleton DEF Appliers
  <1>2. Default \in AllConfigs
    BY DEF Default, AllConfigs, Modes
  <1> QED
    BY <1>1, <1>2, FirewallAssumption
    DEF Idle, Records, Steps, Appliers, Workers

\* The configuration a rule is made from keeps its mode and its rules.
LEMMA EntryType ==
  ASSUME NEW c \in AllConfigs, NEW part \in {"base", "match", "rules", "default"}
  PROVE  Entry(part, c) \in Entries
  BY DEF Entry, Entries, AllConfigs

\* A worker's record is replaced, the others' stay.
LEMMA Moved ==
  ASSUME TypeOK, NEW w \in Workers, NEW r \in Records,
         work' = [work EXCEPT ![w] = r], w = Resolver => r.at \in ResolverSteps
  PROVE  /\ work' \in [Workers -> Records] /\ work'[Resolver].at \in ResolverSteps
         /\ work'[w] = r /\ \A o \in Workers \ {w} : work'[o] = work[o]
  BY Basics DEF TypeOK, Records, ResolverSteps

\* The record a worker has after Goto.
Gone(w, step) == IF step = "idle" THEN Idle ELSE [work[w] EXCEPT !.at = step]

\* Goto replaces one record.
LEMMA GotoMoves ==
  ASSUME TypeOK, NEW w \in Workers, NEW step \in Steps, Goto(w, step)
  PROVE  /\ Gone(w, step) \in Records /\ work' = [work EXCEPT ![w] = Gone(w, step)]
         /\ Gone(w, step).at = step
         /\ step # "idle" => /\ Gone(w, step).cfg = work[w].cfg
                             /\ Gone(w, step).alone = work[w].alone
         /\ step = "idle" => Gone(w, step) = Idle /\ ~Gone(w, step).alone
  <1>1. work \in [Workers -> Records]
    BY DEF TypeOK, Records
  <1>2. Gone(w, step) \in Records
    BY <1>1, Basics DEF Gone, Records
  <1>3. work' = [work EXCEPT ![w] = Gone(w, step)]
    BY <1>1 DEF Goto, Gone
  <1> QED
    BY <1>1, <1>2, <1>3 DEF Gone, Idle, Records

-----------------------------------------------------------------------------
(* Types.                                                                  *)

\* The parts of TypeOK, by the variables an action changes.
WorkTypes == work \in [Workers -> Records] /\ work[Resolver].at \in ResolverSteps
KernelTypes == jumps \in Nat /\ drops6 \in Nat /\ chain \in Seq(Entries)
SetTypes == allow \subseteq Hosts /\ tmp \in [made : BOOLEAN, ips : SUBSET Hosts]
ConfigTypes == file \in AllConfigs \cup {Torn} /\ config \in AllConfigs
BoundTypes == /\ overlaps \in Nat /\ flawed \in BOOLEAN /\ edits \in 0..MaxEdits
              /\ fails \in 0..MaxTroubles /\ crashes \in 0..MaxTroubles
              /\ fails + crashes \in 0..MaxTroubles

\* They make up TypeOK.
LEMMA TypeParts ==
  /\ TypeOK <=> WorkTypes /\ KernelTypes /\ SetTypes /\ ConfigTypes /\ BoundTypes
  /\ TypeOK' <=> WorkTypes' /\ KernelTypes' /\ SetTypes' /\ ConfigTypes' /\ BoundTypes'
  <1>1. \A S, a, b, c : {a, b, c} \subseteq S <=> a \in S /\ b \in S /\ c \in S
    OBVIOUS
  <1>2. \A S, a, b : {a, b} \subseteq S <=> a \in S /\ b \in S
    OBVIOUS
  <1>3. TypeOK <=> WorkTypes /\ KernelTypes /\ SetTypes /\ ConfigTypes /\ BoundTypes
    BY <1>1, <1>2
    DEF TypeOK, WorkTypes, KernelTypes, SetTypes, ConfigTypes, BoundTypes, Records,
        ResolverSteps
  <1>4. TypeOK' <=> WorkTypes' /\ KernelTypes' /\ SetTypes' /\ ConfigTypes' /\ BoundTypes'
    BY <1>1, <1>2
    DEF TypeOK, WorkTypes, KernelTypes, SetTypes, ConfigTypes, BoundTypes, Records,
        ResolverSteps
  <1> QED
    BY <1>3, <1>4

\* The first start of the daemon is well typed.
LEMMA InitTypeOK == Init => TypeOK
  <1> SUFFICES ASSUME Init PROVE TypeOK
    OBVIOUS
  <1>1. [Idle EXCEPT !.at = "load"] \in Records
    BY Basics DEF Records, Steps
  <1>2. WorkTypes
    BY <1>1, Basics, FirewallAssumption DEF Init, WorkTypes, Idle, ResolverSteps
  <1>3. KernelTypes /\ SetTypes
    BY DEF Init, NoSet, KernelTypes, SetTypes
  <1>4. ConfigTypes
    BY Basics DEF Init, ConfigTypes
  <1>5. BoundTypes
    <2>1. MaxEdits \in Nat /\ MaxTroubles \in Nat
      BY FirewallAssumption
    <2>2. overlaps = 0 /\ fails = 0 /\ crashes = 0 /\ edits = 0 /\ flawed = FALSE
      BY DEF Init
    <2>3. flawed \in BOOLEAN
      BY <2>2
    <2> QED
      BY <2>1, <2>2, <2>3 DEF BoundTypes
  <1> QED
    BY <1>2, <1>3, <1>4, <1>5, TypeParts

\* A failure that is allowed keeps the bounds.
LEMMA FaultTypes ==
  ASSUME BoundTypes, Failing \/ NoFault \/ (More /\ fails' = fails + 1 /\ UNCHANGED flawed),
         UNCHANGED <<overlaps, boundVars>>
  PROVE  BoundTypes' /\ fails' \in {fails, fails + 1}
  <1>1. MaxTroubles \in Nat
    BY FirewallAssumption
  <1>2. fails + crashes < MaxTroubles => fails + 1 \in 0..MaxTroubles
                                        /\ fails + 1 + crashes \in 0..MaxTroubles
    BY <1>1 DEF BoundTypes
  <1> QED
    BY <1>2 DEF BoundTypes, Failing, NoFault, More, boundVars, faultVars

\* What every step of apply and of refresh_allowlist does to its worker's
\* record, and what it leaves alone.
RunsTo(w, r) ==
  /\ work' = [work EXCEPT ![w] = r]
  /\ work[w].at \in Running /\ r.at \in Running \cup {"idle"}
  /\ r.alone => work[w].alone
  /\ r.at \in ApplySteps => r.cfg = work[w].cfg /\ work[w].at \in ApplySteps
  /\ r.at \in {"jump", "policy"} => r.cfg.mode # "off"
  /\ r.at \in {"base", "v6"} => r.cfg.mode = "whitelist"
  /\ UNCHANGED <<file, config, overlaps, boundVars>>
  /\ fails' \in {fails, fails + 1}

\* Whatever becomes of a command, apply goes on with its configuration or ends.
LEMMA ApplyRuns ==
  ASSUME TypeOK, Places, NEW w \in Workers \ {Resolver}, Apply(w)
  PROVE  TypeOK' /\ \E r \in Records : RunsTo(w, r)
  <1> DEFINE c == work[w].cfg
  <1>0. /\ WorkTypes /\ KernelTypes /\ SetTypes /\ ConfigTypes /\ BoundTypes
        /\ work[w] \in Records /\ c \in AllConfigs
    BY TypeParts DEF WorkTypes, Records
  <1>1. ASSUME NEW step \in ApplySteps \cup {"create", "idle"}, Goto(w, step),
               work[w].at \in ApplySteps,
               step \in {"jump", "policy"} => c.mode # "off",
               step \in {"base", "v6"} => c.mode = "whitelist",
               UNCHANGED <<file, config, setVars, overlaps, boundVars>>,
               Failing \/ NoFault, KernelTypes'
        PROVE  TypeOK' /\ \E r \in Records : RunsTo(w, r)
    <2>1. step \in Steps /\ (step = "create" => step \in RefreshSteps)
      BY DEF Steps, RefreshSteps
    <2>2. RunsTo(w, Gone(w, step)) /\ Gone(w, step) \in Records
      BY <1>0, <1>1, <2>1, GotoMoves, FaultTypes
      DEF RunsTo, Running, Idle, ApplySteps, RefreshSteps, NoFault, faultVars, Failing
    <2>3. WorkTypes'
      BY <2>1, <2>2, Moved, Basics DEF WorkTypes, RunsTo
    <2>4. SetTypes' /\ ConfigTypes' /\ BoundTypes'
      BY <1>0, <1>1, FaultTypes DEF SetTypes, ConfigTypes, setVars
    <2> QED
      BY <1>1, <2>2, <2>3, <2>4, TypeParts
  <1>2. CASE Unjump(w)
    BY <1>0, <1>1, <1>2 DEF Unjump, Delete, KernelTypes, At, ApplySteps
  <1>3. CASE Unv6(w)
    BY <1>0, <1>1, <1>3 DEF Unv6, Delete, KernelTypes, At, ApplySteps
  <1>4. CASE Flush(w)
    <2>1. KernelTypes' /\ (Failing \/ NoFault)
      <3>1. chain' \in {chain, <<>>} /\ UNCHANGED <<jumps, drops6>>
        BY <1>4 DEF Flush
      <3>2. Failing \/ NoFault
        BY <1>4 DEF Flush
      <3>3. <<>> \in Seq(Entries)
        OBVIOUS
      <3> QED
        BY <1>0, <3>1, <3>2, <3>3 DEF KernelTypes
    <2>2. CASE Goto(w, "idle")
      BY <1>1, <1>4, <2>1, <2>2 DEF Flush, At, ApplySteps
    <2>3. CASE c.mode # "off" /\ Goto(w, "jump")
      BY <1>1, <1>4, <2>1, <2>3 DEF Flush, At, ApplySteps
    <2> QED
      BY <1>4, <2>2, <2>3 DEF Flush
  <1>5. CASE Jump(w)
    BY <1>0, <1>1, <1>5 DEF Jump, KernelTypes, At, ApplySteps, Places, Placed
  <1>6. CASE Base(w)
    <2>1. Entry("base", c) \in Entries /\ Entry("match", c) \in Entries
      BY <1>0, EntryType
    <2>2. chain' \in Seq(Entries)
      <3> DEFINE base == <<Entry("base", c)>>
      <3>1. chain' \in {chain \o Append(base, Entry("match", c)), chain \o <<>>, chain \o base}
        BY <1>6 DEF Base, Add
      <3>2. base \in Seq(Entries) /\ <<>> \in Seq(Entries)
        BY <2>1
      <3>3. Append(base, Entry("match", c)) \in Seq(Entries)
        BY <2>1, <3>2, AppendProperties
      <3>4. chain \in Seq(Entries)
        BY <1>0 DEF KernelTypes
      <3>5. \A t \in Seq(Entries) : chain \o t \in Seq(Entries)
        BY <3>4, ConcatProperties
      <3> HIDE DEF base
      <3> QED
        BY <3>1, <3>2, <3>3, <3>5
    <2>3. At(w, "base") /\ c.mode = "whitelist"
      BY <1>6 DEF Base, Places, Placed, At
    <2>4. /\ \E step \in {"v6", "idle"} : Goto(w, step)
          /\ Failing \/ NoFault
          /\ UNCHANGED <<file, config, jumps, drops6, setVars, overlaps, boundVars>>
      BY <1>6 DEF Base, Add
    <2>5. KernelTypes'
      BY <1>0, <2>2, <2>4 DEF KernelTypes
    <2>6. UNCHANGED <<file, config, setVars, overlaps, boundVars>>
      BY <2>4
    <2> QED
      BY <1>1, <2>3, <2>4, <2>5, <2>6 DEF At, ApplySteps
  <1>7. CASE V6(w)
    BY <1>0, <1>1, <1>7 DEF V6, KernelTypes, At, ApplySteps, Places, Placed
  <1>8. CASE Policy(w)
    <2>1. Entry("rules", c) \in Entries /\ Entry("default", c) \in Entries
      BY <1>0, EntryType
    <2>2. \A s \in Seq(Entries) : chain \o s \in Seq(Entries)
      BY <1>0 DEF KernelTypes
    <2>3. /\ <<Entry("rules", c)>> \in Seq(Entries) /\ <<>> \in Seq(Entries)
          /\ <<Entry("default", c)>> \in Seq(Entries)
          /\ <<Entry("rules", c)>> \o <<Entry("default", c)>> \in Seq(Entries)
          /\ <<>> \o <<Entry("default", c)>> \in Seq(Entries)
      BY <2>1
    <2>4. chain' \in Seq(Entries)
      BY <1>8, <2>2, <2>3 DEF Policy, Add
    <2> QED
      BY <1>0, <1>1, <1>8, <2>4 DEF Policy, Add, KernelTypes, At, ApplySteps
  <1> QED
    BY <1>2, <1>3, <1>4, <1>5, <1>6, <1>7, <1>8 DEF Apply

\* The steps of refresh_allowlist, of an applier or the resolver.
LEMMA RefreshRuns ==
  ASSUME TypeOK, NEW w \in Workers, Refresh(w)
  PROVE  /\ TypeOK' /\ \E r \in Records : RunsTo(w, r)
         /\ UNCHANGED <<kernelVars, flawed>>
         /\ work[w].at \in RefreshSteps /\ work'[w].at \in ResolverSteps
  <1>0. /\ WorkTypes /\ KernelTypes /\ SetTypes /\ ConfigTypes /\ BoundTypes
        /\ work[w] \in Records
    BY TypeParts DEF WorkTypes, Records
  <1>1. ASSUME NEW r \in Records, work' = [work EXCEPT ![w] = r],
               work[w].at \in RefreshSteps, r.at \in ResolverSteps,
               r.alone => work[w].alone, SetTypes', fails' \in {fails, fails + 1},
               UNCHANGED <<file, config, kernelVars, overlaps, boundVars, flawed>>,
               BoundTypes'
        PROVE  /\ TypeOK' /\ RunsTo(w, r) /\ UNCHANGED <<kernelVars, flawed>>
               /\ work[w].at \in RefreshSteps /\ work'[w].at \in ResolverSteps
    <2>1. WorkTypes' /\ work'[w] = r
      BY <1>1, Moved DEF WorkTypes
    <2>2. RunsTo(w, r)
      BY <1>1 DEF RunsTo, Running, ResolverSteps, ApplySteps, RefreshSteps
    <2>3. KernelTypes' /\ ConfigTypes'
      BY <1>0, <1>1 DEF KernelTypes, ConfigTypes, kernelVars
    <2> QED
      BY <1>1, <2>1, <2>2, <2>3, TypeParts
  <1>2. ASSUME NEW step \in ResolverSteps, Goto(w, step), NoFault, SetTypes',
               work[w].at \in RefreshSteps,
               UNCHANGED <<file, config, kernelVars, overlaps, boundVars>>
        PROVE  /\ TypeOK' /\ \E r \in Records : RunsTo(w, r)
               /\ UNCHANGED <<kernelVars, flawed>>
               /\ work[w].at \in RefreshSteps /\ work'[w].at \in ResolverSteps
    <2>1. step \in Steps
      BY DEF ResolverSteps, Steps
    <2>2. BoundTypes' /\ fails' \in {fails, fails + 1} /\ UNCHANGED flawed
      BY <1>0, <1>2, FaultTypes DEF NoFault, faultVars
    <2> QED
      BY <1>1, <1>2, <2>1, <2>2, GotoMoves
  <1>3. CASE Create(w)
    <2>1. PICK ips \in SUBSET work[w].cfg.hosts :
            /\ Resolve(w, ips)
            /\ work' = [work EXCEPT ![w] = [Idle EXCEPT !.at = "clear", !.ips = ips]]
      BY <1>3 DEF Create
    <2>2. [Idle EXCEPT !.at = "clear", !.ips = ips] \in Records
      BY <1>0, Basics DEF Idle, Records, Steps, RefreshSteps, AllConfigs
    <2>3. SetTypes'
      BY <1>0, <1>3 DEF Create, SetTypes, SetOf
    <2>4. BoundTypes' /\ fails' \in {fails, fails + 1}
      BY <1>0, <1>3, <2>1, FaultTypes DEF Create, Resolve, NoFault, faultVars
    <2> QED
      BY <1>1, <1>3, <2>1, <2>2, <2>3, <2>4
      DEF Create, Idle, At, ResolverSteps, RefreshSteps
  <1>4. CASE Clear(w)
    <2>1. SetTypes'
      BY <1>0, <1>4 DEF Clear, SetTypes, SetOf
    <2>2. Fill(work[w].ips) \in ResolverSteps
      BY DEF Fill, ResolverSteps, RefreshSteps
    <2> QED
      BY <1>2, <1>4, <2>1, <2>2 DEF Clear, At, RefreshSteps, NoFault
  <1>5. CASE AddIp(w)
    <2>1. PICK h \in work[w].ips :
            /\ work' = [work EXCEPT ![w].ips = @ \ {h},
                        ![w].at = IF work[w].ips = {h} THEN "swap" ELSE "add"]
            /\ tmp' = IF tmp.made THEN SetOf(tmp.ips \cup {h}) ELSE tmp
      BY <1>5 DEF AddIp
    <2> DEFINE r == [work[w] EXCEPT !.ips = @ \ {h},
                       !.at = IF work[w].ips = {h} THEN "swap" ELSE "add"]
    <2>2. r \in Records /\ r.at \in ResolverSteps /\ r.alone = work[w].alone
      BY <1>0 DEF Records, Steps, RefreshSteps, ResolverSteps
    <2>3. work' = [work EXCEPT ![w] = r]
      BY <1>0, <2>1 DEF WorkTypes, Records
    <2>4. SetTypes'
      BY <1>0, <1>5, <2>1 DEF AddIp, SetTypes, SetOf, Records
    <2>5. BoundTypes' /\ fails' \in {fails, fails + 1}
      BY <1>0, <1>5, FaultTypes DEF AddIp, NoFault
    <2> HIDE DEF r
    <2> QED
      BY <1>1, <1>5, <2>2, <2>3, <2>4, <2>5
      DEF AddIp, At, RefreshSteps, faultVars
  <1>6. CASE Swap(w)
    <2>1. SetTypes'
      <3>1. CASE tmp.made
        <4>1. allow' = tmp.ips /\ tmp' = SetOf(allow)
          BY <1>6, <3>1 DEF Swap
        <4>2. tmp.ips \subseteq Hosts /\ allow \subseteq Hosts
          BY <1>0 DEF SetTypes
        <4> QED
          BY <4>1, <4>2 DEF SetTypes, SetOf
      <3>2. CASE ~tmp.made
        BY <1>0, <1>6, <3>2 DEF Swap, SetTypes, setVars
      <3> QED
        BY <3>1, <3>2
    <2> QED
      BY <1>2, <1>6, <2>1 DEF Swap, At, ResolverSteps, RefreshSteps, NoFault
  <1>7. CASE Destroy(w)
    <2>1. SetTypes'
      BY <1>0, <1>7 DEF Destroy, SetTypes, NoSet
    <2> QED
      BY <1>2, <1>7, <2>1 DEF Destroy, At, ResolverSteps, RefreshSteps, NoFault
  <1> QED
    BY <1>3, <1>4, <1>5, <1>6, <1>7 DEF Refresh

\* Any set of appliers can be counted.
LEMMA Counted ==
  ASSUME NEW S \in SUBSET Appliers
  PROVE  /\ IsFiniteSet(S) /\ Cardinality(S) \in Nat
         /\ \A T \in SUBSET S : Cardinality(T) \in Nat /\ Cardinality(T) <= Cardinality(S)
         /\ \A w \in S : Cardinality(S \ {w}) = Cardinality(S) - 1
         /\ \A w : Cardinality(S \cup {w}) <= Cardinality(S) + 1
  <1>1. IsFiniteSet(S)
    BY Basics, FS_Subset
  <1>2. \A T \in SUBSET S : IsFiniteSet(T) /\ Cardinality(T) <= Cardinality(S)
    BY <1>1, FS_Subset
  <1>3. \A w : Cardinality(S \cup {w}) <= Cardinality(S) + 1
    <2> TAKE w
    <2>1. Cardinality(S \cup {w}) = IF w \in S THEN Cardinality(S) ELSE Cardinality(S) + 1
      BY <1>1, FS_AddElement
    <2>2. Cardinality(S) \in Nat
      BY <1>1, FS_CardinalityType
    <2> QED
      BY <2>1, <2>2
  <1> QED
    BY <1>1, <1>2, <1>3, FS_CardinalityType, FS_RemoveElement

\* Every step keeps the types.
LEMMA NextTypeOK ==
  ASSUME TypeOK, Places, [Next]_vars
  PROVE  TypeOK'
  <1>0. WorkTypes /\ KernelTypes /\ SetTypes /\ ConfigTypes /\ BoundTypes
    BY TypeParts
  <1>1. ASSUME NEW e \in Editors, NEW c \in Configs, Save(e, c)
        PROVE  TypeOK'
    <2> DEFINE others == {o \in Editors \ {e} : Busy(o)}
    <2>1. c \in AllConfigs /\ e \in Workers /\ e # Resolver
      BY FirewallAssumption DEF Appliers, Workers
    <2>2. others \in SUBSET Appliers
      BY DEF Appliers
    <2>3. overlaps' \in Nat /\ flawed' \in BOOLEAN
      <3>1. Cardinality(others) \in Nat /\ overlaps \in Nat
        BY <1>0, <2>2, Counted DEF BoundTypes
      <3>2. overlaps' = overlaps + Cardinality(others)
        BY <1>1 DEF Save
      <3>3. flawed' \in BOOLEAN
        BY <1>1 DEF Save
      <3> QED
        BY <3>1, <3>2, <3>3
    <2>4. edits' \in 0..MaxEdits
      <3>1. MaxEdits \in Nat
        BY FirewallAssumption
      <3>2. edits' = edits + 1 /\ edits < MaxEdits
        BY <1>1 DEF Save
      <3> QED
        BY <1>0, <3>1, <3>2 DEF BoundTypes
    <2>5. BoundTypes'
      BY <1>0, <1>1, <2>3, <2>4 DEF Save, BoundTypes
    <2>6. /\ [Idle EXCEPT !.at = "write", !.cfg = c, !.alone = (others = {})] \in Records
          /\ \A w \in Workers : [work[w] EXCEPT !.alone = FALSE] \in Records
      BY <1>0, <2>1, Basics DEF Records, Steps, WorkTypes
    <2>7. work' = [w \in Workers |->
             IF w = e THEN [Idle EXCEPT !.at = "write", !.cfg = c, !.alone = (others = {})]
             ELSE [work[w] EXCEPT !.alone = FALSE]]
      BY <1>1 DEF Save
    <2>8. WorkTypes'
      BY <1>0, <2>1, <2>6, <2>7, Basics DEF WorkTypes, Records
    <2>9. KernelTypes' /\ SetTypes' /\ ConfigTypes'
      BY <1>0, <1>1 DEF Save, KernelTypes, SetTypes, ConfigTypes, kernelVars, setVars
    <2> QED
      BY <2>5, <2>8, <2>9, TypeParts
  <1>2. ASSUME NEW e \in Editors, Write(e)
        PROVE  TypeOK'
    <2>1. e \in Workers /\ e # Resolver /\ "publish" \in Steps /\ "idle" \in Steps
      BY FirewallAssumption DEF Appliers, Workers, Steps
    <2>2. WorkTypes'
      BY <1>0, <1>2, <2>1, GotoMoves, Moved DEF Write, WorkTypes
    <2>3. BoundTypes'
      BY <1>0, <1>2, FaultTypes DEF Write
    <2>4. KernelTypes' /\ SetTypes' /\ ConfigTypes'
      BY <1>0, <1>2, <2>1
      DEF Write, KernelTypes, SetTypes, ConfigTypes, WorkTypes, Records, kernelVars, setVars
    <2> QED
      BY <2>2, <2>3, <2>4, TypeParts
  <1>3. ASSUME NEW e \in Editors, Publish(e)
        PROVE  TypeOK'
    <2>1. e \in Workers /\ e # Resolver /\ work[e] \in Records
      BY <1>0, FirewallAssumption DEF Appliers, Workers, WorkTypes
    <2>2. [work[e] EXCEPT !.at = "unjump", !.alone = FALSE] \in Records
      BY <2>1 DEF Records, Steps, ApplySteps
    <2>3. work' = [work EXCEPT ![e] = [work[e] EXCEPT !.at = "unjump", !.alone = FALSE]]
      BY <1>0, <1>3 DEF Publish, WorkTypes, Records
    <2>4. WorkTypes'
      BY <2>1, <2>2, <2>3, Moved DEF WorkTypes
    <2>5. BoundTypes'
      BY <1>0, <1>3, <2>1 DEF Publish, BoundTypes, boundVars, Records
    <2>6. KernelTypes' /\ SetTypes' /\ ConfigTypes'
      BY <1>0, <1>3, <2>1
      DEF Publish, KernelTypes, SetTypes, ConfigTypes, Records, kernelVars, setVars
    <2> QED
      BY <2>4, <2>5, <2>6, TypeParts
  <1>4. CASE Load
    <2>1. Boot \in Workers /\ Boot # Resolver /\ work[Boot] \in Records
      BY <1>0, Basics DEF WorkTypes
    <2>2. config' \in AllConfigs
      BY <1>0, <1>4, Basics DEF Load, ConfigTypes
    <2>3. [work[Boot] EXCEPT !.at = "unjump", !.cfg = config'] \in Records
      BY <2>1, <2>2 DEF Records, Steps, ApplySteps
    <2>4. work' = [work EXCEPT ![Boot] = [work[Boot] EXCEPT !.at = "unjump", !.cfg = config']]
      BY <1>0, <1>4 DEF Load, WorkTypes, Records
    <2>5. WorkTypes'
      BY <2>1, <2>3, <2>4, Moved DEF WorkTypes
    <2>6. BoundTypes'
      BY <1>0, <1>4 DEF Load, BoundTypes, boundVars
    <2>7. KernelTypes' /\ SetTypes' /\ ConfigTypes'
      BY <1>0, <1>4, <2>2
      DEF Load, KernelTypes, SetTypes, ConfigTypes, kernelVars, setVars
    <2> QED
      BY <2>5, <2>6, <2>7, TypeParts
  <1>5. CASE Wake
    <2>1. config.hosts \subseteq Hosts
      BY <1>0 DEF ConfigTypes, AllConfigs
    <2>2. [Idle EXCEPT !.at = "create", !.cfg.hosts = config.hosts] \in Records
      BY <2>1, Basics DEF Idle, Records, Steps, RefreshSteps, AllConfigs
    <2>3. WorkTypes'
      BY <1>5, <2>2, Basics, Moved DEF Wake, WorkTypes, ResolverSteps, RefreshSteps, Idle
    <2>4. KernelTypes' /\ SetTypes' /\ ConfigTypes' /\ BoundTypes'
      BY <1>0, <1>5
      DEF Wake, KernelTypes, SetTypes, ConfigTypes, BoundTypes, kernelVars, setVars,
          boundVars, faultVars
    <2> QED
      BY <2>3, <2>4, TypeParts
  <1>6. CASE Crash
    <2>1. [Idle EXCEPT !.at = "load"] \in Records
      BY Basics DEF Records, Steps
    <2>2. WorkTypes'
      BY <1>6, <2>1, Basics DEF Crash, WorkTypes, ResolverSteps, Idle
    <2>3. MaxTroubles \in Nat
      BY FirewallAssumption
    <2>4. crashes' = crashes + 1 /\ fails' = fails /\ fails + crashes < MaxTroubles
      BY <1>6 DEF Crash, More, faultVars
    <2>5. crashes' \in 0..MaxTroubles /\ fails' + crashes' \in 0..MaxTroubles
      BY <1>0, <2>3, <2>4 DEF BoundTypes
    <2>6. BoundTypes'
      BY <1>0, <1>6, <2>5 DEF Crash, BoundTypes, faultVars
    <2>7. KernelTypes' /\ SetTypes' /\ ConfigTypes'
      BY <1>0, <1>6 DEF Crash, KernelTypes, SetTypes, ConfigTypes, kernelVars, setVars
    <2> QED
      BY <2>2, <2>6, <2>7, TypeParts
  <1>7. ASSUME NEW w \in Appliers, Run(w) PROVE TypeOK'
    BY <1>7, ApplyRuns, RefreshRuns, Basics DEF Run
  <1>8. CASE Refresh(Resolver)
    BY <1>8, RefreshRuns, Basics
  <1>9. CASE UNCHANGED vars
    BY <1>0, <1>9, TypeParts
    DEF vars, kernelVars, setVars, boundVars, faultVars, WorkTypes, KernelTypes, SetTypes,
        ConfigTypes, BoundTypes
  <1> QED
    BY <1>1, <1>2, <1>3, <1>4, <1>5, <1>6, <1>7, <1>8, <1>9, Basics
    DEF Next, Edit, Appliers

-----------------------------------------------------------------------------
(* Who is where.                                                           *)

\* A worker that runs a command is the only one whose record changes.
LEMMA RunEffect ==
  ASSUME TypeOK, Places, NEW w \in Workers,
         (w \in Appliers /\ Run(w)) \/ (w = Resolver /\ Refresh(w))
  PROVE  \E r \in Records :
           /\ RunsTo(w, r) /\ work'[w] = r
           /\ \A o \in Workers \ {w} : work'[o] = work[o]
           /\ w = Resolver => r.at \in ResolverSteps
  <1>1. PICK r \in Records : RunsTo(w, r)
    BY ApplyRuns, RefreshRuns, Basics DEF Run
  <1>2. work'[w] = r
    BY <1>1 DEF RunsTo, TypeOK
  <1>3. w = Resolver => r.at \in ResolverSteps
    <2>1. w = Resolver => Refresh(w)
      BY Basics
    <2> QED
      BY <1>2, <2>1, RefreshRuns
  <1> QED
    BY <1>1, <1>2, <1>3, Moved DEF RunsTo

\* A worker that is no longer alone is where it was.
LEMMA NotAlone ==
  ASSUME NEW r \in Records
  PROVE  /\ [r EXCEPT !.alone = FALSE].at = r.at
         /\ [r EXCEPT !.alone = FALSE].cfg = r.cfg
         /\ [r EXCEPT !.alone = FALSE].alone = FALSE
  BY DEF Records

\* Nobody begins but an edit, and then only once the start is over.
LEMMA NextPlaces ==
  ASSUME TypeOK, Places, [Next]_vars
  PROVE  Places'
  <1>0. work \in [Workers -> Records] /\ Appliers = Editors \cup {Boot}
        /\ Workers = Appliers \cup {Resolver} /\ Boot \notin Editors
        /\ Resolver \notin Appliers
    BY FirewallAssumption DEF TypeOK, Records, Appliers, Workers
  <1>1. ASSUME NEW e \in Editors, NEW c \in Configs, Save(e, c)
        PROVE  Places'
    <2> DEFINE others == {o \in Editors \ {e} : Busy(o)}
    <2>1. /\ work'[e] = [Idle EXCEPT !.at = "write", !.cfg = c, !.alone = (others = {})]
          /\ \A w \in Workers \ {e} : work'[w] = [work[w] EXCEPT !.alone = FALSE]
          /\ At(Boot, "idle")
      BY <1>0, <1>1 DEF Save, Serving
    <2> SUFFICES ASSUME NEW w \in Workers PROVE Placed(w)' /\ Alone(w)'
      BY DEF Places
    <2>2. CASE w # e
      <3>1. work'[w].at = work[w].at /\ work'[w].cfg = work[w].cfg /\ work'[w].alone = FALSE
        <4>1. work[w] \in Records
          BY <1>0
        <4>2. work'[w] = [work[w] EXCEPT !.alone = FALSE]
          BY <2>1, <2>2
        <4> QED
          BY <4>1, <4>2, NotAlone
      <3>2. w = Boot => work'[w].at = "idle"
        BY <2>1, <3>1 DEF At
      <3> QED
        BY <3>1, <3>2 DEF Places, Placed, Alone, At, Busy
    <2>3. CASE w = e
      <3>1. work'[e].at = "write" /\ (work'[e].alone <=> others = {}) /\ e # Boot
        BY <1>0, <2>1 DEF Idle
      <3>2. Placed(w)'
        BY <2>3, <3>1 DEF Placed, At
      <3>3. ASSUME others = {}, NEW o \in Appliers \ {e} PROVE work'[o].at = "idle"
        <4>1. work[o].at = "idle"
          BY <1>0, <2>1, <3>3 DEF Busy, At
        <4>2. o \in Workers \ {e} /\ work[o] \in Records
          BY <1>0
        <4>3. work'[o] = [work[o] EXCEPT !.alone = FALSE]
          BY <2>1, <4>2
        <4> QED
          BY <4>1, <4>2, <4>3, NotAlone
      <3> QED
        BY <2>3, <3>1, <3>2, <3>3 DEF Alone, Busy, At
    <2> QED
      BY <2>2, <2>3
  <1>2. ASSUME NEW e \in Editors, Write(e)
        PROVE  Places'
    <2>1. PICK step \in {"publish", "idle"} :
            /\ Goto(e, step) /\ At(e, "write")
            /\ step = "publish" => file' = work[e].cfg
            /\ step = "idle" => UNCHANGED file
      BY <1>2 DEF Write
    <2>2. /\ work'[e] = Gone(e, step) /\ Gone(e, step).at = step
          /\ \A o \in Workers \ {e} : work'[o] = work[o]
          /\ step = "publish" => /\ Gone(e, step).cfg = work[e].cfg
                                /\ Gone(e, step).alone = work[e].alone
          /\ step = "idle" => ~Gone(e, step).alone
      BY <1>0, <2>1, GotoMoves, Moved DEF Steps
    <2>3. \A o \in Workers \ {e} : ~work[o].alone
      BY <1>0, <2>1 DEF Places, Alone, At, Busy
    <2>4. Placed(e)' /\ Alone(e)'
      <3>1. \A o \in Appliers \ {e} : Busy(o)' => Busy(o)
        BY <1>0, <2>2 DEF Busy, At
      <3> QED
        BY <1>0, <2>1, <2>2, <3>1 DEF Places, Placed, Alone, At, Busy
    <2>5. ASSUME NEW o \in Workers \ {e} PROVE Placed(o)' /\ Alone(o)'
      <3>1. o # Boot \/ ~Busy(o)
        BY <1>0, <2>1 DEF Places, Alone, At, Busy
      <3> QED
        BY <1>0, <2>2, <2>3, <3>1 DEF Places, Placed, Alone, At, Busy
    <2> QED
      BY <2>4, <2>5 DEF Places
  <1>3. ASSUME NEW w \in Appliers, NEW r \in Records, work' = [work EXCEPT ![w] = r],
               Busy(w), r.at \in Running \cup {"idle"}, ~r.alone, UNCHANGED file,
               r.at \in {"jump", "policy"} => r.cfg.mode # "off",
               r.at \in {"base", "v6"} => r.cfg.mode = "whitelist"
        PROVE  Places'
    <2>1. work'[w] = r /\ \A o \in Workers \ {w} : work'[o] = work[o]
      BY <1>0, <1>3
    <2>2. Placed(w)'
      BY <1>3, <2>1 DEF Placed, At, Running, ApplySteps, RefreshSteps
    <2>3. Alone(w)'
      BY <1>0, <1>3, <2>1 DEF Places, Alone, Busy, At
    <2>4. ASSUME NEW o \in Workers \ {w} PROVE Placed(o)' /\ Alone(o)'
      BY <1>0, <1>3, <2>1 DEF Places, Placed, Alone, Busy, At
    <2> QED
      BY <2>2, <2>3, <2>4 DEF Places
  <1>4. ASSUME NEW r \in Records, work' = [work EXCEPT ![Resolver] = r],
               r.at \in ResolverSteps, ~r.alone, UNCHANGED file
        PROVE  Places'
    <2>1. work'[Resolver] = r /\ \A o \in Workers \ {Resolver} : work'[o] = work[o]
      BY <1>0, <1>4
    <2>2. Placed(Resolver)' /\ Alone(Resolver)'
      BY <1>0, <1>4, <2>1 DEF Placed, Alone, At, ResolverSteps, RefreshSteps
    <2>3. ASSUME NEW o \in Workers \ {Resolver} PROVE Placed(o)' /\ Alone(o)'
      BY <1>0, <1>4, <2>1 DEF Places, Placed, Alone, Busy, At
    <2> QED
      BY <2>2, <2>3 DEF Places
  <1>5. ASSUME NEW e \in Editors, Publish(e)
        PROVE  Places'
    <2>1. work[e] \in Records /\ e \in Appliers
      BY <1>0
    <2> DEFINE r == [work[e] EXCEPT !.at = "unjump", !.alone = FALSE]
    <2>2. r \in Records /\ r.at = "unjump" /\ ~r.alone
      BY <2>1 DEF Records, Steps, ApplySteps
    <2>3. work' = [work EXCEPT ![e] = r] /\ Busy(e) /\ UNCHANGED file
      BY <1>0, <1>5 DEF Publish, Busy, At, Records
    <2> HIDE DEF r
    <2> QED
      BY <1>3, <2>1, <2>2, <2>3 DEF Running, ApplySteps
  <1>6. CASE Load
    <2>1. work[Boot] \in Records /\ Boot \in Appliers /\ config' \in AllConfigs
          /\ ~work[Boot].alone
      BY <1>0, <1>6, Basics DEF Load, TypeOK, Places, Placed, At
    <2> DEFINE r == [work[Boot] EXCEPT !.at = "unjump", !.cfg = config']
    <2>2. r \in Records /\ r.at = "unjump" /\ ~r.alone
      BY <2>1 DEF Records, Steps, ApplySteps
    <2>3. work' = [work EXCEPT ![Boot] = r] /\ Busy(Boot) /\ UNCHANGED file
      BY <1>0, <1>6 DEF Load, Busy, At, Records
    <2> HIDE DEF r
    <2> QED
      BY <1>3, <2>1, <2>2, <2>3 DEF Running, ApplySteps
  <1>7. CASE Wake
    <2> DEFINE r == [Idle EXCEPT !.at = "create", !.cfg.hosts = config.hosts]
    <2>1. config.hosts \subseteq Hosts
      BY DEF TypeOK, AllConfigs
    <2>2. r \in Records /\ r.at \in ResolverSteps /\ ~r.alone
      BY <2>1, Basics DEF Idle, Records, Steps, RefreshSteps, ResolverSteps, AllConfigs
    <2>3. work' = [work EXCEPT ![Resolver] = r] /\ UNCHANGED file
      BY <1>7 DEF Wake
    <2> HIDE DEF r
    <2> QED
      BY <1>4, <2>2, <2>3
  <1>8. CASE Crash
    <2>1. work' = [w \in Workers |-> IF w = Boot THEN [Idle EXCEPT !.at = "load"] ELSE Idle]
      BY <1>8 DEF Crash
    <2>2. \A w \in Workers : ~work'[w].alone
                         /\ work'[w].at = (IF w = Boot THEN "load" ELSE "idle")
      BY <2>1 DEF Idle
    <2> QED
      BY <1>0, <2>2 DEF Places, Placed, Alone, At, Busy
  <1>9. ASSUME NEW w \in Workers,
               (w \in Appliers /\ Run(w)) \/ (w = Resolver /\ Refresh(w))
        PROVE  Places'
    <2>1. PICK r \in Records :
            RunsTo(w, r) /\ (w = Resolver => r.at \in ResolverSteps)
      BY <1>9, RunEffect
    <2>2. Busy(w) /\ ~work[w].alone
      BY <2>1
      DEF RunsTo, Running, ApplySteps, RefreshSteps, Busy, At, Places, Placed
    <2> QED
      BY <1>0, <1>3, <1>4, <2>1, <2>2 DEF RunsTo
  <1>10. CASE UNCHANGED vars
    BY <1>10 DEF vars, Places, Placed, Alone, At, Busy
  <1> QED
    BY <1>0, <1>1, <1>2, <1>5, <1>6, <1>7, <1>8, <1>9, <1>10 DEF Next, Edit

-----------------------------------------------------------------------------
(* An apply that nothing disturbs.                                         *)

\* A rule added after one other.
LEMMA TwoRules ==
  ASSUME NEW a \in Entries, NEW b \in Entries
  PROVE  Append(<<a>>, b) = <<a, b>>
  <1>1. <<a>> \in Seq(Entries) /\ Len(<<a>>) = 1 /\ <<a>>[1] = a
    OBVIOUS
  <1>2. <<a, b>> \in Seq(Entries) /\ Len(<<a, b>>) = 2 /\ <<a, b>>[1] = a /\ <<a, b>>[2] = b
    OBVIOUS
  <1>3. /\ Append(<<a>>, b) \in Seq(Entries) /\ Len(Append(<<a>>, b)) = 2
        /\ Append(<<a>>, b)[1] = a /\ Append(<<a>>, b)[2] = b
    BY <1>1, AppendProperties
  <1>4. \A i \in 1..Len(<<a, b>>) : Append(<<a>>, b)[i] = <<a, b>>[i]
    BY <1>2, <1>3
  <1> QED
    BY <1>2, <1>3, <1>4, SeqEqual

\* The chain apply builds is the one before the last group, and the last group.
LEMMA BuiltParts ==
  ASSUME NEW c \in AllConfigs,
         NEW rules, rules = IF c.rules THEN <<Entry("rules", c)>> ELSE <<>>
  PROVE  /\ c.mode # "off" => Built(c) = Begun(c) \o (rules \o <<Entry("default", c)>>)
         /\ c.mode = "off" => Built(c) = <<>>
         /\ c.mode = "whitelist" =>
              Begun(c) = <<>> \o Append(<<Entry("base", c)>>, Entry("match", c))
         /\ c.mode # "whitelist" => Begun(c) = <<>>
  <1> DEFINE base == Entry("base", c)   match == Entry("match", c)
             last == <<Entry("default", c)>>
  <1>1. base \in Entries /\ match \in Entries /\ Entry("rules", c) \in Entries
        /\ Entry("default", c) \in Entries
    BY EntryType
  <1>2. rules \in Seq(Entries) /\ last \in Seq(Entries) /\ Begun(c) \in Seq(Entries)
    BY <1>1 DEF Begun
  <1>3. c.mode # "off" => Built(c) = (Begun(c) \o rules) \o last
    BY DEF Built, Begun
  <1>4. (Begun(c) \o rules) \o last = Begun(c) \o (rules \o last)
    <2>1. \A s, t, u \in Seq(Entries) : (s \o t) \o u = s \o (t \o u)
      BY ConcatAssociative
    <2> HIDE DEF last
    <2> QED
      BY <1>2, <2>1
  <1>5. Append(<<base>>, match) = <<base, match>>
    BY <1>1, TwoRules
  <1>6. <<>> \o <<base, match>> = <<base, match>>
    BY <1>1, ConcatEmptySeq
  <1> QED
    BY <1>3, <1>4, <1>5, <1>6 DEF Begun, Built

\* Every command that succeeds brings the kernel nearer to the configuration.
LEMMA RunProgress ==
  ASSUME TypeOK, Places, NEW w \in Appliers, Run(w), ~flawed', Progress(w)
  PROVE  /\ ~flawed /\ Progress(w)'
         /\ work'[w].at = "idle" => Whole' /\ config' = Loaded'
  <1> DEFINE c == work[w].cfg
  <1>0. /\ w \in Workers /\ work[w] \in Records /\ c \in AllConfigs /\ jumps \in Nat
        /\ drops6 \in Nat /\ chain \in Seq(Entries) /\ work \in [Workers -> Records]
        /\ c.mode \in Modes
    BY Basics, TypeParts DEF WorkTypes, KernelTypes, Records, AllConfigs
  <1>1. UNCHANGED <<config, Loaded>>
    BY RunEffect, <1>0 DEF RunsTo, Loaded
  <1>2. ASSUME NEW step \in Steps, Goto(w, step)
        PROVE  work'[w].at = step /\ (step # "idle" => work'[w].cfg = c)
    BY <1>0, <1>2, GotoMoves, Moved, Basics
  <1>3. CASE Refresh(w)
    <2>1. /\ UNCHANGED <<kernelVars, flawed>> /\ work[w].at \in RefreshSteps
          /\ work'[w].at \in ResolverSteps
      BY <1>0, <1>3, RefreshRuns
    <2>2. config = Loaded /\ Whole
      BY <2>1 DEF Progress, Running
    <2>3. Whole'
      BY <1>1, <2>1, <2>2 DEF Whole, kernelVars, Built
    <2> QED
      BY <1>1, <2>1, <2>2, <2>3 DEF Progress, ResolverSteps, RefreshSteps, ApplySteps, At
  <1>4. CASE Apply(w)
    <2>0. work[w].at \in ApplySteps /\ ~Failing /\ config = c /\ config = Loaded
      BY <1>0, <1>4
      DEF Apply, Unjump, Unv6, Flush, Jump, Base, V6, Policy, Delete, At, ApplySteps,
          Failing, Progress, Running
    <2>1. CASE Unjump(w)
      <3>1. Goto(w, "unv6") /\ UNCHANGED flawed
        BY <2>0, <2>1 DEF Unjump, Delete, NoFault, faultVars
      <3>2. work'[w].at = "unv6" /\ work'[w].cfg = c
        BY <1>2, <3>1 DEF Steps, ApplySteps
      <3> QED
        BY <1>1, <2>0, <3>1, <3>2 DEF Progress, RefreshSteps, At
    <2>2. CASE Unv6(w)
      <3>1. Goto(w, "flush") /\ UNCHANGED flawed
        BY <2>0, <2>2 DEF Unv6, Delete, NoFault, faultVars
      <3>2. work'[w].at = "flush" /\ work'[w].cfg = c
        BY <1>2, <3>1 DEF Steps, ApplySteps
      <3> QED
        BY <1>1, <2>0, <3>1, <3>2 DEF Progress, RefreshSteps, At
    <2>3. CASE Flush(w)
      <3>1. /\ Goto(w, IF c.mode = "off" THEN "idle" ELSE "jump") /\ UNCHANGED flawed
            /\ chain' = <<>>
        BY <2>0, <2>3 DEF Flush, NoFault, faultVars
      <3>2. CASE c.mode = "off"
        <4>1. work'[w].at = "idle"
          BY <1>2, <3>1, <3>2 DEF Steps
        <4>2. Whole'
          BY <1>0, <1>1, <2>0, <3>1, <3>2, BuiltParts DEF Whole
        <4> QED
          BY <1>1, <2>0, <3>1, <4>1, <4>2
          DEF Progress, Running, RefreshSteps, ApplySteps, At
      <3>3. CASE c.mode # "off"
        <4>1. work'[w].at = "jump" /\ work'[w].cfg = c
          BY <1>2, <3>1, <3>3 DEF Steps, ApplySteps
        <4> QED
          BY <1>1, <2>0, <3>1, <4>1 DEF Progress, RefreshSteps, At
      <3> QED
        BY <3>2, <3>3
    <2>4. CASE Jump(w)
      <3>1. /\ Goto(w, IF c.mode = "whitelist" THEN "base" ELSE "policy")
            /\ UNCHANGED <<flawed, chain>> /\ jumps' = jumps + 1 /\ At(w, "jump")
        BY <2>0, <2>4 DEF Jump, NoFault, faultVars
      <3>2. /\ work'[w].at = (IF c.mode = "whitelist" THEN "base" ELSE "policy")
            /\ work'[w].cfg = c
        BY <1>2, <3>1 DEF Steps, ApplySteps
      <3>3. jumps' > 0 /\ chain' = <<>>
        BY <1>0, <3>1 DEF Progress
      <3>4. c.mode # "whitelist" => Begun(config)' = <<>>
        BY <1>1, <2>0 DEF Begun
      <3> QED
        BY <1>1, <2>0, <3>1, <3>2, <3>3, <3>4 DEF Progress, RefreshSteps, At
    <2>5. CASE Base(w)
      <3>1. /\ Goto(w, "v6") /\ UNCHANGED <<flawed, jumps>> /\ At(w, "base")
            /\ chain' = chain \o Append(<<Entry("base", c)>>, Entry("match", c))
        BY <2>0, <2>5 DEF Base, Add, NoFault, faultVars
      <3>2. work'[w].at = "v6" /\ work'[w].cfg = c
        BY <1>2, <3>1 DEF Steps, ApplySteps
      <3>3. c.mode = "whitelist" /\ chain = <<>> /\ jumps > 0
        BY <1>0, <3>1 DEF Progress, Places, Placed, At
      <3>4. chain' = Begun(config)'
        BY <1>0, <1>1, <2>0, <3>1, <3>3, BuiltParts DEF Begun
      <3> QED
        BY <1>1, <2>0, <3>1, <3>2, <3>3, <3>4 DEF Progress, RefreshSteps, At
    <2>6. CASE V6(w)
      <3>1. /\ Goto(w, "policy") /\ UNCHANGED <<flawed, jumps, chain>> /\ At(w, "v6")
            /\ drops6' = drops6 + 1
        BY <2>0, <2>6 DEF V6, NoFault, faultVars
      <3>2. work'[w].at = "policy" /\ work'[w].cfg = c
        BY <1>2, <3>1 DEF Steps, ApplySteps
      <3>3. chain = Begun(config) /\ jumps > 0 /\ drops6' > 0
        BY <1>0, <3>1 DEF Progress
      <3>4. chain' = Begun(config)'
        BY <1>1, <3>1, <3>3 DEF Begun
      <3> QED
        BY <1>1, <2>0, <3>1, <3>2, <3>3, <3>4 DEF Progress, RefreshSteps, At
    <2>7. CASE Policy(w)
      <3> DEFINE rules == IF c.rules THEN <<Entry("rules", c)>> ELSE <<>>
      <3>1. /\ Goto(w, IF Filters(c) THEN "create" ELSE "idle")
            /\ UNCHANGED <<flawed, jumps, drops6>> /\ At(w, "policy")
            /\ chain' = chain \o (rules \o <<Entry("default", c)>>)
        BY <2>0, <2>7 DEF Policy, Add, NoFault, faultVars
      <3>2. work'[w].at = (IF Filters(c) THEN "create" ELSE "idle")
        BY <1>2, <3>1 DEF Steps, RefreshSteps
      <3>3. /\ chain = Begun(config) /\ jumps > 0 /\ c.mode # "off"
            /\ config.mode = "whitelist" => drops6 > 0
        BY <1>0, <3>1 DEF Progress, Places, Placed, At
      <3>4. chain' = Built(config)'
        BY <1>0, <1>1, <2>0, <3>1, <3>3, BuiltParts DEF Built
      <3>5. Whole'
        BY <1>1, <3>1, <3>3, <3>4 DEF Whole
      <3> QED
        BY <1>1, <2>0, <3>1, <3>2, <3>5
        DEF Progress, RefreshSteps, ApplySteps, Running, At
    <2> QED
      BY <1>4, <2>1, <2>2, <2>3, <2>4, <2>5, <2>6, <2>7 DEF Apply
  <1> QED
    BY <1>3, <1>4 DEF Run

\* An edit or a start that begins alone is not disturbed before it ends; one that
\* fails, or meets another, is disturbed until the next has begun alone.
LEMMA NextUndisturbed ==
  ASSUME TypeOK, Places, ~flawed => Undisturbed, [Next]_vars, ~flawed'
  PROVE  Undisturbed'
  <1>0. /\ work \in [Workers -> Records] /\ Appliers = Editors \cup {Boot}
        /\ Workers = Appliers \cup {Resolver} /\ Boot \notin Editors
        /\ Resolver \notin Appliers
    BY FirewallAssumption DEF TypeOK, Records, Appliers, Workers
  \* One applier is busy, with the progress claimed; the others are idle.
  <1>1. ASSUME NEW w \in Appliers, work'[w].at # "idle", Progress(w)',
               \A o \in Appliers \ {w} : work'[o].at = "idle"
        PROVE  Undisturbed'
    <2>1. \A o \in Appliers \ {w} : Progress(o)'
      BY <1>1 DEF Progress, Running, ApplySteps, RefreshSteps, At
    <2> QED
      BY <1>1, <2>1 DEF Undisturbed, Busy, At, Settled
  \* None is.
  <1>2. ASSUME Whole', config' = Loaded', \A o \in Appliers : work'[o].at = "idle"
        PROVE  Undisturbed'
    <2>1. \A o \in Appliers : Progress(o)'
      BY <1>2 DEF Progress, Running, ApplySteps, RefreshSteps, At
    <2> QED
      BY <1>2, <2>1 DEF Undisturbed, Busy, At
  <1>3. ASSUME NEW e \in Editors, NEW c \in Configs, Save(e, c)
        PROVE  Undisturbed'
    <2> DEFINE others == {o \in Editors \ {e} : Busy(o)}
    <2>1. /\ work' = [w \in Workers |->
               IF w = e THEN [Idle EXCEPT !.at = "write", !.cfg = c, !.alone = (others = {})]
               ELSE [work[w] EXCEPT !.alone = FALSE]]
          /\ At(Boot, "idle") /\ others = {}
      BY <1>3 DEF Save, Serving
    <2>2. work'[e].at = "write"
      BY <1>0, <2>1 DEF Idle
    <2>3. ASSUME NEW o \in Appliers \ {e} PROVE work'[o].at = "idle"
      <3>1. work[o] \in Records /\ work[o].at = "idle" /\ o \in Workers
        BY <1>0, <2>1 DEF Busy, At
      <3>2. work'[o] = [work[o] EXCEPT !.alone = FALSE]
        BY <2>1, <2>3, <3>1
      <3> QED
        BY <3>1, <3>2 DEF Records
    <2>4. Progress(e)'
      BY <2>2 DEF Progress, Running, ApplySteps, RefreshSteps, At
    <2> QED
      BY <1>0, <1>1, <2>2, <2>3, <2>4
  <1>4. ASSUME NEW e \in Editors, Write(e)
        PROVE  Undisturbed'
    <2>1. Goto(e, "publish") /\ At(e, "write") /\ ~flawed
      BY <1>4 DEF Write, Failing, NoFault, faultVars
    <2>2. \A o \in Appliers \ {e} : work[o].at = "idle"
      BY <1>0, <2>1 DEF Undisturbed, Busy, At
    <2>3. work'[e].at = "publish" /\ \A o \in Appliers \ {e} : work'[o] = work[o]
      BY <1>0, <2>1, GotoMoves, Moved DEF Steps
    <2>4. Progress(e)'
      BY <2>3 DEF Progress, Running, ApplySteps, RefreshSteps, At
    <2> QED
      BY <1>0, <1>1, <2>2, <2>3, <2>4
  <1>5. ASSUME NEW e \in Editors, Publish(e)
        PROVE  Undisturbed'
    <2>1. /\ work' = [work EXCEPT ![e].at = "unjump", ![e].alone = FALSE]
          /\ config' = work[e].cfg /\ UNCHANGED file /\ work[e].alone /\ At(e, "publish")
      BY <1>5 DEF Publish
    <2>2. work[e] \in Records /\ e \in Workers
      BY <1>0
    <2>3. work'[e].at = "unjump" /\ work'[e].cfg = work[e].cfg
          /\ \A o \in Appliers \ {e} : work'[o] = work[o]
      BY <1>0, <2>1, <2>2 DEF Records
    <2>4. \A o \in Appliers \ {e} : work[o].at = "idle"
      BY <2>1, <2>2 DEF Places, Alone, Busy, At
    <2>5. file = work[e].cfg /\ work[e].cfg # Torn
      <3>1. work[e].cfg.mode \in Modes
        BY <2>2 DEF Records, AllConfigs
      <3>2. Torn.mode = "torn"
        BY DEF Torn, Default
      <3> QED
        BY <2>1, <2>2, <3>1, <3>2 DEF Places, Placed, Modes
    <2>6. Progress(e)'
      BY <2>1, <2>3, <2>5 DEF Progress, Loaded, RefreshSteps, At
    <2> QED
      BY <1>0, <1>1, <2>3, <2>4, <2>6
  <1>6. CASE Load
    <2>1. /\ work' = [work EXCEPT ![Boot].at = "unjump", ![Boot].cfg = config']
          /\ config' = Loaded /\ UNCHANGED file /\ At(Boot, "load")
      BY <1>6 DEF Load, Loaded
    <2>2. work[Boot] \in Records /\ Boot \in Workers
      BY <1>0
    <2>3. work'[Boot].at = "unjump" /\ work'[Boot].cfg = config'
          /\ \A o \in Appliers \ {Boot} : work'[o] = work[o]
      BY <1>0, <2>1, <2>2 DEF Records
    <2>4. \A o \in Appliers \ {Boot} : work[o].at = "idle"
      BY <2>1, <2>2 DEF Places, Alone, Busy, At
    <2>5. Progress(Boot)'
      BY <2>1, <2>3 DEF Progress, Loaded, RefreshSteps, At
    <2> QED
      BY <1>0, <1>1, <2>3, <2>4, <2>5
  <1>7. CASE Crash
    <2>1. work' = [w \in Workers |-> IF w = Boot THEN [Idle EXCEPT !.at = "load"] ELSE Idle]
      BY <1>7 DEF Crash
    <2>2. work'[Boot].at = "load" /\ \A o \in Appliers \ {Boot} : work'[o].at = "idle"
      BY <1>0, <2>1 DEF Idle
    <2>3. Progress(Boot)'
      BY <2>2 DEF Progress, Running, ApplySteps, RefreshSteps, At
    <2> QED
      BY <1>0, <1>1, <2>2, <2>3
  <1>8. ASSUME NEW w \in Appliers, Run(w)
        PROVE  Undisturbed'
    <2>1. PICK r \in Records :
            RunsTo(w, r) /\ work'[w] = r /\ \A o \in Workers \ {w} : work'[o] = work[o]
      BY <1>0, <1>8, RunEffect
    <2>2. Busy(w) /\ (~flawed => Progress(w))
      BY <2>1 DEF RunsTo, Running, ApplySteps, RefreshSteps, Busy, At, Undisturbed
    <2>3. ~flawed
      <3>1. CASE Refresh(w)
        BY <1>0, <3>1, RefreshRuns
      <3>2. CASE Apply(w)
        BY <3>2
        DEF Apply, Unjump, Unv6, Flush, Jump, Base, V6, Policy, Delete, Add, Failing,
            NoFault, faultVars
      <3> QED
        BY <1>8, <3>1, <3>2 DEF Run
    <2>4. Progress(w)' /\ (work'[w].at = "idle" => Whole' /\ config' = Loaded')
      BY <1>8, <2>2, <2>3, RunProgress
    <2>5. \A o \in Appliers \ {w} : work'[o].at = "idle"
      BY <1>0, <2>1, <2>2, <2>3 DEF Undisturbed, Busy, At
    <2> QED
      BY <1>1, <1>2, <2>4, <2>5
  <1>9. ASSUME \A o \in Appliers : work'[o] = work[o],
               UNCHANGED <<file, config, kernelVars, flawed>>
        PROVE  Undisturbed'
    <2>1. \A o \in Appliers : Progress(o) => Progress(o)'
      BY <1>9 DEF Progress, At, Loaded, Whole, Built, Begun, kernelVars
    <2>2. Undisturbed
      BY <1>9
    <2>3. \A w, o \in Appliers : Busy(w)' /\ Busy(o)' => w = o
      BY <1>9, <2>2 DEF Undisturbed, Busy, At
    <2>4. Settled' => Whole' /\ config' = Loaded'
      BY <1>9, <2>2 DEF Undisturbed, Settled, At, Loaded, Whole, Built, kernelVars
    <2> QED
      BY <2>1, <2>2, <2>3, <2>4 DEF Undisturbed
  <1>10. CASE Wake
    BY <1>0, <1>9, <1>10 DEF Wake, faultVars
  <1>11. CASE Refresh(Resolver)
    BY <1>0, <1>9, <1>11, RunEffect, RefreshRuns DEF RunsTo
  <1>12. CASE UNCHANGED vars
    BY <1>9, <1>12 DEF vars, faultVars
  <1> QED
    BY <1>0, <1>3, <1>4, <1>5, <1>6, <1>7, <1>8, <1>10, <1>11, <1>12 DEF Next, Edit

-----------------------------------------------------------------------------
(* What is left in the system's chains.                                    *)

\* The appliers at some of the steps, before and after a step of one of them.
LEMMA InMoves ==
  ASSUME NEW w \in Appliers, NEW steps, NEW modes,
         \A o \in Appliers \ {w} : work'[o].at = work[o].at /\ work'[o].cfg = work[o].cfg
  PROVE  /\ \A o \in Appliers \ {w} : o \in In(steps, modes)' <=> o \in In(steps, modes)
         /\ w \in In(steps, modes) <=> work[w].at \in steps /\ work[w].cfg.mode \in modes
         /\ w \in In(steps, modes)' <=> work'[w].at \in steps /\ work'[w].cfg.mode \in modes
  BY DEF In

\* Sets of appliers, counted, before and after a step.
LEMMA InCounted ==
  ASSUME NEW steps, NEW modes
  PROVE  /\ In(steps, modes) \in SUBSET Appliers /\ In(steps, modes)' \in SUBSET Appliers
         /\ Cardinality(In(steps, modes)) \in Nat /\ Cardinality(In(steps, modes)') \in Nat
         /\ Spare(steps, modes) \in {0, 1} /\ Spare(steps, modes)' \in {0, 1}
  <1>1. In(steps, modes) \in SUBSET Appliers /\ In(steps, modes)' \in SUBSET Appliers
    BY DEF In
  <1>2. Spare(steps, modes) \in {0, 1} /\ Spare(steps, modes)' \in {0, 1}
    BY DEF Spare
  <1> QED
    BY <1>1, <1>2, Counted

\* Bounds add up.
LEMMA Sums ==
  ASSUME NEW f \in Nat, NEW g \in Nat, NEW o \in Nat, NEW p \in Nat, f <= g, o <= p
  PROVE  f + o \in Nat /\ g + p \in Nat /\ f + o <= g + p
  OBVIOUS

\* And bound what is below.
LEMMA Through ==
  ASSUME NEW f \in Nat, NEW g \in Nat, NEW h \in Nat, f <= g, g <= h
  PROVE  f <= h
  OBVIOUS

\* One stays to spare while the reason stays.
LEMMA SpareKept ==
  ASSUME NEW cut, NEW modes, UNCHANGED config, At(Boot, "load") => At(Boot, "load")',
         In(cut, Modes \ modes) \subseteq In(cut, Modes \ modes)'
  PROVE  Spare(cut, modes) <= Spare(cut, modes)'
  <1>1. CASE config.mode \in modes \/ At(Boot, "load") \/ In(cut, Modes \ modes) # {}
    <2>1. \/ config'.mode \in modes \/ At(Boot, "load")'
          \/ In(cut, Modes \ modes)' # {}
      BY <1>1
    <2>2. Spare(cut, modes) = 1 /\ Spare(cut, modes)' = 1
      BY <1>1, <2>1 DEF Spare
    <2> QED
      BY <2>2
  <1>2. CASE ~(config.mode \in modes \/ At(Boot, "load") \/ In(cut, Modes \ modes) # {})
    <2>1. Spare(cut, modes) = 0
      BY <1>2 DEF Spare
    <2> QED
      BY <2>1, InCounted
  <1> QED
    BY <1>1, <1>2

\* A step that adds no rule and puts no applier where it will.
LEMMA Keep ==
  ASSUME BoundTypes, BoundTypes', NEW cut, NEW hold, NEW modes, NEW n \in Nat, NEW m \in Nat,
         Bounded(n, cut, hold, modes), m <= n, fails <= fails', overlaps <= overlaps',
         In(hold, modes)' \subseteq In(hold, modes),
         Spare(cut, modes) <= Spare(cut, modes)'
  PROVE  m + Cardinality(In(hold, modes)') <= Spare(cut, modes)' + fails' + overlaps'
  <1>1. Cardinality(In(hold, modes)') <= Cardinality(In(hold, modes))
    BY InCounted, Counted
  <1>2. n + Cardinality(In(hold, modes)) <= Spare(cut, modes) + fails + overlaps
    BY DEF Bounded
  <1> DEFINE a == Cardinality(In(hold, modes))   b == Cardinality(In(hold, modes)')
             s == Spare(cut, modes)   t == Spare(cut, modes)'
  <1>3. a \in Nat /\ b \in Nat /\ s \in Nat /\ t \in Nat
    BY InCounted
  <1>4. fails \in Nat /\ fails' \in Nat /\ overlaps \in Nat /\ overlaps' \in Nat
    BY FirewallAssumption DEF BoundTypes
  <1> DEFINE x == fails + overlaps   y == fails' + overlaps'
  <1>5. b <= a /\ n + a <= s + x /\ s <= t
    BY <1>1, <1>2, <1>3, <1>4
  <1>6. x \in Nat /\ y \in Nat /\ x <= y
    BY <1>4, Sums
  <1>7. t + y = t + fails' + overlaps'
    BY <1>3, <1>4
  <1> HIDE DEF a, b, s, t, x, y
  <1>8. m + b <= t + y
    BY <1>3, <1>5, <1>6
  <1> QED
    BY <1>7, <1>8 DEF b, t

\* A rule is added by an applier that was to add it.
LEMMA Adds ==
  ASSUME BoundTypes, BoundTypes', NEW cut, NEW hold, NEW modes, NEW n \in Nat, NEW m \in Nat,
         Bounded(n, cut, hold, modes), m <= n + 1, fails <= fails', overlaps <= overlaps',
         NEW w \in In(hold, modes), In(hold, modes)' \subseteq In(hold, modes) \ {w},
         Spare(cut, modes) <= Spare(cut, modes)'
  PROVE  m + Cardinality(In(hold, modes)') <= Spare(cut, modes)' + fails' + overlaps'
  <1>1. Cardinality(In(hold, modes)') <= Cardinality(In(hold, modes)) - 1
    <2>1. In(hold, modes) \ {w} \in SUBSET Appliers
      BY InCounted
    <2>2. Cardinality(In(hold, modes) \ {w}) = Cardinality(In(hold, modes)) - 1
      BY InCounted, Counted
    <2> QED
      BY <2>1, <2>2, Counted
  <1>2. n + Cardinality(In(hold, modes)) <= Spare(cut, modes) + fails + overlaps
    BY DEF Bounded
  <1> DEFINE a == Cardinality(In(hold, modes))   b == Cardinality(In(hold, modes)')
             s == Spare(cut, modes)   t == Spare(cut, modes)'
  <1>3. a \in Nat /\ b \in Nat /\ s \in Nat /\ t \in Nat
    BY InCounted
  <1>4. fails \in Nat /\ fails' \in Nat /\ overlaps \in Nat /\ overlaps' \in Nat
    BY FirewallAssumption DEF BoundTypes
  <1> DEFINE x == fails + overlaps   y == fails' + overlaps'
  <1>5. b <= a - 1 /\ n + a <= s + x /\ s <= t
    BY <1>1, <1>2, <1>3, <1>4
  <1>6. x \in Nat /\ y \in Nat /\ x <= y
    BY <1>4, Sums
  <1>7. t + y = t + fails' + overlaps'
    BY <1>3, <1>4
  <1> HIDE DEF a, b, s, t, x, y
  <1>8. m + b <= t + y
    BY <1>3, <1>5, <1>6
  <1> QED
    BY <1>7, <1>8 DEF b, t

\* A rule is deleted, if there is one and the command does not fail, by an
\* applier that may be to add it again.
LEMMA Cuts ==
  ASSUME BoundTypes, BoundTypes', NEW cut, NEW hold, NEW modes, NEW n \in Nat, NEW m \in Nat,
         Bounded(n, cut, hold, modes), Late(cut \cup hold, modes), BusyCounted,
         "idle" \notin cut \cup hold, UNCHANGED <<config, overlaps>>,
         \/ m = (IF n > 0 THEN n - 1 ELSE 0) /\ fails' = fails
         \/ n > 0 /\ m = n /\ fails' = fails + 1,
         NEW w \in Appliers, work[w].at \in cut,
         \/ /\ In(hold, modes)' \subseteq In(hold, modes) \cup {w}
            /\ Spare(cut, modes) <= Spare(cut, modes)'
            /\ work[w].cfg.mode \in modes
         \/ /\ In(hold, modes)' \subseteq In(hold, modes)
            /\ Spare(cut, modes) <= Spare(cut, modes)' + 1
  PROVE  m + Cardinality(In(hold, modes)') <= Spare(cut, modes)' + fails' + overlaps'
  <1> DEFINE a == Cardinality(In(hold, modes))   b == Cardinality(In(hold, modes)')
             s == Spare(cut, modes)   t == Spare(cut, modes)'
  <1>1. a \in Nat /\ b \in Nat /\ s \in {0, 1} /\ t \in {0, 1}
    BY InCounted
  <1>2. fails \in Nat /\ fails' \in Nat /\ overlaps \in Nat /\ overlaps' = overlaps
    BY FirewallAssumption DEF BoundTypes
  <1>3. n + a <= s + fails + overlaps
    BY DEF Bounded
  <1>4. (b <= a + 1 /\ s <= t) \/ (b <= a /\ s <= t + 1)
    <2>1. Cardinality(In(hold, modes) \cup {w}) <= a + 1
      BY InCounted, Counted
    <2>2. In(hold, modes) \cup {w} \in SUBSET Appliers
      BY InCounted
    <2>3. CASE In(hold, modes)' \subseteq In(hold, modes) \cup {w} /\ s <= t
      <3>1. b <= Cardinality(In(hold, modes) \cup {w})
        BY <2>2, <2>3, Counted
      <3>2. Cardinality(In(hold, modes) \cup {w}) \in Nat
        BY <2>2, Counted
      <3> HIDE DEF a, b, s, t
      <3> QED
        BY <1>1, <2>1, <2>3, <3>1, <3>2
    <2>4. CASE In(hold, modes)' \subseteq In(hold, modes) /\ s <= t + 1
      BY <2>4, InCounted, Counted
    <2> QED
      BY <2>3, <2>4
  <1>5. b <= t + overlaps
    <2>1. In(hold, modes)' \subseteq {o \in Appliers : Busy(o)}
      BY InCounted DEF In, Busy, At
    <2>2. {o \in Appliers : Busy(o)} \in SUBSET Appliers
      OBVIOUS
    <2>3. b <= 1 + overlaps
      <3> DEFINE k == Cardinality({o \in Appliers : Busy(o)})
      <3>1. b <= k /\ k \in Nat
        BY <2>1, <2>2, Counted
      <3>2. k <= 1 + overlaps
        BY DEF BusyCounted
      <3> HIDE DEF k, b
      <3> QED
        BY <1>1, <1>2, <3>1, <3>2
    <2>4. CASE t = 0
      <3>1. config.mode \notin modes
        BY <2>4 DEF Spare
      <3>2. In(hold, modes)' \subseteq In(cut \cup hold, modes)
        BY DEF In
      <3> DEFINE k == Cardinality(In(cut \cup hold, modes))
      <3>3. k <= overlaps
        BY <3>1 DEF Late
      <3>4. b <= k /\ k \in Nat
        BY <3>2, InCounted, Counted
      <3> HIDE DEF b, k
      <3> QED
        BY <1>1, <1>2, <2>4, <3>3, <3>4
    <2> HIDE DEF b, t
    <2> QED
      BY <1>1, <2>3, <2>4
  <1> HIDE DEF a, b, s, t
  <1>6. m + b <= t + fails' + overlaps
    <2> PICK f \in Nat, g \in Nat, o \in Nat :
          f = fails /\ g = fails' /\ o = overlaps
      BY <1>2
    <2>1. \/ m = (IF n > 0 THEN n - 1 ELSE 0) /\ g = f
          \/ n > 0 /\ m = n /\ g = f + 1
      OBVIOUS
    <2>2. n + a <= s + f + o /\ b <= t + o
      BY <1>3, <1>5
    <2>3. n + b <= t + f + o + 1
      BY <1>1, <1>4, <2>2
    <2>4. CASE n = 0
      BY <1>1, <2>1, <2>2, <2>4
    <2>5. CASE n > 0 /\ m = n - 1 /\ g = f
      <3>1. t \in Nat /\ b \in Nat
        BY <1>1
      <3> QED
        BY <2>3, <2>5, <3>1
    <2>6. CASE m = n /\ g = f + 1
      <3>1. m + b = n + b /\ t + g + o = t + f + o + 1
        BY <1>1, <2>6
      <3> QED
        BY <2>3, <3>1
    <2>7. m + b <= t + g + o
      BY <2>1, <2>4, <2>5, <2>6
    <2> QED
      BY <2>7
  <1> QED
    BY <1>2, <1>6 DEF b, t

\* Which step follows which, and what the commands of apply do to the rules that
\* are counted.
LEMMA RunSteps ==
  ASSUME TypeOK, Places, NEW w \in Appliers, Run(w)
  PROVE  /\ \A o \in Appliers \ {w} : work'[o] = work[o]
         /\ UNCHANGED <<config, overlaps>> /\ fails <= fails'
         /\ work[w].at \in Running /\ work'[w].at \in Running \cup {"idle"}
         /\ work'[w].at \in ApplySteps => work'[w].cfg = work[w].cfg
         /\ work'[w].at # "unjump"
         /\ work'[w].at = "unv6" <=> At(w, "unjump")
         /\ work'[w].at = "flush" => At(w, "unv6")
         /\ work'[w].at = "jump" => At(w, "flush")
         /\ work'[w].at = "base" => At(w, "jump")
         /\ work'[w].at = "v6" => At(w, "base")
         /\ IF At(w, "unjump")
              THEN \/ jumps' = (IF jumps > 0 THEN jumps - 1 ELSE 0) /\ fails' = fails
                   \/ jumps > 0 /\ jumps' = jumps /\ fails' = fails + 1
              ELSE jumps' = jumps \/ (At(w, "jump") /\ jumps' = jumps + 1)
         /\ IF At(w, "unv6")
              THEN \/ drops6' = (IF drops6 > 0 THEN drops6 - 1 ELSE 0) /\ fails' = fails
                   \/ drops6 > 0 /\ drops6' = drops6 /\ fails' = fails + 1
              ELSE drops6' = drops6 \/ (At(w, "v6") /\ drops6' = drops6 + 1)
  <1>0. w \in Workers /\ WorkTypes /\ fails \in Nat
    BY FirewallAssumption, Basics, TypeParts DEF BoundTypes
  <1>1. PICK r \in Records :
          RunsTo(w, r) /\ work'[w] = r /\ \A o \in Workers \ {w} : work'[o] = work[o]
    BY <1>0, RunEffect
  <1>2. /\ \A o \in Appliers \ {w} : work'[o] = work[o]
        /\ UNCHANGED <<config, overlaps>> /\ fails <= fails'
        /\ work[w].at \in Running /\ work'[w].at \in Running \cup {"idle"}
        /\ work'[w].at \in ApplySteps => work'[w].cfg = work[w].cfg
    BY <1>0, <1>1, Basics DEF RunsTo
  <1>3. CASE Refresh(w)
    <2>1. /\ UNCHANGED <<jumps, drops6>> /\ work[w].at \in RefreshSteps
          /\ work'[w].at \in ResolverSteps
      BY <1>0, <1>3, RefreshRuns DEF kernelVars
    <2> QED
      BY <1>2, <2>1 DEF RefreshSteps, ResolverSteps, At
  <1>4. ASSUME NEW step \in Steps, Goto(w, step) PROVE work'[w].at = step
    BY <1>0, <1>4, GotoMoves, Moved, Basics DEF TypeOK
  <1>5. CASE Unjump(w)
    BY <1>2, <1>4, <1>5
    DEF Unjump, Delete, Failing, NoFault, faultVars, Steps, ApplySteps, At
  <1>6. CASE Unv6(w)
    BY <1>2, <1>4, <1>6
    DEF Unv6, Delete, Failing, NoFault, faultVars, Steps, ApplySteps, At
  <1>7. CASE Flush(w)
    BY <1>2, <1>4, <1>7 DEF Flush, Steps, ApplySteps, At
  <1>8. CASE Jump(w)
    BY <1>2, <1>4, <1>8 DEF Jump, Steps, ApplySteps, At
  <1>9. CASE Base(w)
    BY <1>2, <1>4, <1>9 DEF Base, Add, Steps, ApplySteps, At
  <1>10. CASE V6(w)
    BY <1>2, <1>4, <1>10 DEF V6, Steps, ApplySteps, At
  <1>11. CASE Policy(w)
    BY <1>2, <1>4, <1>11 DEF Policy, Add, Steps, ApplySteps, RefreshSteps, At
  <1> QED
    BY <1>3, <1>5, <1>6, <1>7, <1>8, <1>9, <1>10, <1>11 DEF Run, Apply

\* The rules of one kind, over a step of apply or of the refresh that follows it.
LEMMA RunBounded ==
  ASSUME TypeOK, TypeOK', BusyCounted, NEW w \in Appliers, Run(w), Places,
         NEW cut, NEW hold, NEW modes, NEW n \in Nat, NEW m \in Nat, NEW adds,
         "idle" \notin cut \cup hold, cut \cup hold \subseteq ApplySteps,
         Bounded(n, cut, hold, modes), Late(cut \cup hold, modes),
         work'[w].at \in hold => work[w].at \in (cut \cup hold) \ {adds},
         work'[w].at \in cut => work[w].at \in cut,
         IF work[w].at \in cut /\ work'[w].at \notin cut
           THEN \/ m = (IF n > 0 THEN n - 1 ELSE 0) /\ fails' = fails
                \/ n > 0 /\ m = n /\ fails' = fails + 1
           ELSE m = n \/ (At(w, adds) /\ m = n + 1),
         adds \in hold, cut \cap hold = {}, At(w, adds) => work[w].cfg.mode \in modes
  PROVE  /\ m + Cardinality(In(hold, modes)') <= Spare(cut, modes)' + fails' + overlaps'
         /\ Late(cut \cup hold, modes)'
  <1>0. /\ BoundTypes /\ BoundTypes' /\ UNCHANGED <<config, overlaps>> /\ fails <= fails'
        /\ overlaps <= overlaps'
        /\ \A o \in Appliers \ {w} : work'[o].at = work[o].at /\ work'[o].cfg = work[o].cfg
        /\ work'[w].at \in ApplySteps => work'[w].cfg = work[w].cfg
    BY TypeParts, RunSteps DEF BoundTypes
  <1>1. At(Boot, "load") => At(Boot, "load")'
    BY <1>0, RunSteps, Basics DEF At, Running, ApplySteps, RefreshSteps
  <1> DEFINE un == Modes \ modes
  <1>2. /\ \A o \in Appliers \ {w} : o \in In(hold, modes)' <=> o \in In(hold, modes)
        /\ \A o \in Appliers \ {w} : o \in In(cut, un)' <=> o \in In(cut, un)
        /\ w \in In(hold, modes) <=> work[w].at \in hold /\ work[w].cfg.mode \in modes
        /\ w \in In(cut, un) <=> work[w].at \in cut /\ work[w].cfg.mode \in un
        /\ w \in In(hold, modes)' <=> work'[w].at \in hold /\ work'[w].cfg.mode \in modes
        /\ w \in In(cut, un)' <=> work'[w].at \in cut /\ work'[w].cfg.mode \in un
    BY <1>0, InMoves
  <1>3. /\ In(hold, modes) \in SUBSET Appliers /\ In(hold, modes)' \in SUBSET Appliers
        /\ In(cut, un) \in SUBSET Appliers /\ In(cut, un)' \in SUBSET Appliers
    BY InCounted
  <1>4. Late(cut \cup hold, modes)'
    <2>1. In(cut \cup hold, modes)' \subseteq In(cut \cup hold, modes)
      <3>1. work'[w].at \in cut \cup hold => /\ work[w].at \in cut \cup hold
                                             /\ work'[w].cfg = work[w].cfg
        BY <1>0
      <3> QED
        BY <1>0, <3>1, InMoves, InCounted
    <2>2. Cardinality(In(cut \cup hold, modes)') <= Cardinality(In(cut \cup hold, modes))
      BY <2>1, InCounted, Counted
    <2> DEFINE a == Cardinality(In(cut \cup hold, modes))
               b == Cardinality(In(cut \cup hold, modes)')
    <2>3. a \in Nat /\ b \in Nat /\ overlaps \in Nat
      BY <1>0, InCounted DEF BoundTypes
    <2>4. config.mode \notin modes => a <= overlaps
      BY DEF Late
    <2> HIDE DEF a, b
    <2>5. config.mode \notin modes => b <= overlaps
      BY <2>2, <2>3, <2>4 DEF a, b
    <2> QED
      BY <1>0, <2>5 DEF Late, b
  <1>5. CASE work[w].at \in cut /\ work'[w].at \notin cut
    <2>1. work[w].cfg.mode \in modes => Spare(cut, modes) <= Spare(cut, modes)'
      <3>1. work[w].cfg.mode \in modes => In(cut, un) \subseteq In(cut, un)'
        BY <1>2, <1>3
      <3> QED
        BY <1>0, <1>1, <3>1, SpareKept
    <2>2. Spare(cut, modes) <= Spare(cut, modes)' + 1
      BY InCounted
    <2>3. In(hold, modes)' \subseteq In(hold, modes) \cup {w}
      BY <1>2, <1>3
    <2>4. work[w].cfg.mode \notin modes => In(hold, modes)' \subseteq In(hold, modes)
      BY <1>0, <1>2, <1>3
    <2>5. m + Cardinality(In(hold, modes)') <= Spare(cut, modes)' + fails' + overlaps'
      BY <1>0, <1>5, <2>1, <2>2, <2>3, <2>4, Cuts
    <2> QED
      BY <1>4, <2>5
  <1>6. CASE At(w, adds) /\ m = n + 1 /\ ~(work[w].at \in cut /\ work'[w].at \notin cut)
    <2>1. w \in In(hold, modes) /\ w \notin In(hold, modes)'
      BY <1>2, <1>6 DEF At
    <2>2. In(hold, modes)' \subseteq In(hold, modes) \ {w}
      BY <1>2, <1>3, <2>1
    <2>3. Spare(cut, modes) <= Spare(cut, modes)'
      <3>1. In(cut, un) \subseteq In(cut, un)'
        BY <1>0, <1>2, <1>3, <1>6 DEF At
      <3> QED
        BY <1>0, <1>1, <3>1, SpareKept
    <2>4. m <= n + 1
      BY <1>6
    <2>5. m + Cardinality(In(hold, modes)') <= Spare(cut, modes)' + fails' + overlaps'
      BY <1>0, <2>1, <2>2, <2>3, <2>4, Adds
    <2> QED
      BY <1>4, <2>5
  <1>7. CASE m = n /\ ~(work[w].at \in cut /\ work'[w].at \notin cut)
    <2>1. work'[w].at \in hold => work[w].at \in hold /\ work'[w].cfg = work[w].cfg
      BY <1>0, <1>7
    <2>2. In(hold, modes)' \subseteq In(hold, modes)
      BY <1>2, <1>3, <2>1
    <2>3. Spare(cut, modes) <= Spare(cut, modes)'
      <3>1. In(cut, un) \subseteq In(cut, un)'
        BY <1>0, <1>2, <1>3, <1>7
      <3> QED
        BY <1>0, <1>1, <3>1, SpareKept
    <2>4. m <= n
      BY <1>7
    <2>5. m + Cardinality(In(hold, modes)') <= Spare(cut, modes)' + fails' + overlaps'
      BY <1>0, <2>2, <2>3, <2>4, Keep
    <2> QED
      BY <1>4, <2>5
  <1> QED
    BY <1>5, <1>6, <1>7

\* The rules of one kind, when a configuration is published or loaded: its
\* applier has yet to delete the one rule too many, if it does not want it.
LEMMA BeginBounded ==
  ASSUME TypeOK, TypeOK', BusyCounted, NEW w \in Appliers, Busy(w),
         \A o \in Appliers \ {w} : work'[o] = work[o],
         work'[w].at = "unjump", work'[w].cfg = config', UNCHANGED <<overlaps, fails>>,
         NEW cut, NEW hold, NEW modes, NEW n \in Nat,
         "idle" \notin cut \cup hold, "unjump" \in cut, cut \cap hold = {},
         Bounded(n, cut, hold, modes)
  PROVE  /\ n + Cardinality(In(hold, modes)') <= Spare(cut, modes)' + fails' + overlaps'
         /\ Late(cut \cup hold, modes)'
  <1>0. BoundTypes /\ BoundTypes' /\ overlaps \in Nat /\ fails \in Nat
        /\ config'.mode \in Modes
    BY FirewallAssumption, TypeParts DEF BoundTypes, ConfigTypes, AllConfigs
  <1>1. In(hold, modes)' \subseteq In(hold, modes)
    BY InMoves, InCounted
  <1>2. Spare(cut, modes)' = 1
    <2>1. config'.mode \notin modes => w \in In(cut, Modes \ modes)'
      BY <1>0, InMoves
    <2> QED
      BY <2>1 DEF Spare
  <1>3. Spare(cut, modes) <= Spare(cut, modes)' /\ fails <= fails' /\ overlaps <= overlaps'
    BY <1>0, <1>2, InCounted
  <1>4. n + Cardinality(In(hold, modes)') <= Spare(cut, modes)' + fails' + overlaps'
    BY <1>0, <1>1, <1>3, Keep
  <1>5. Late(cut \cup hold, modes)'
    <2> DEFINE all == {o \in Appliers : Busy(o)}
               b == Cardinality(In(cut \cup hold, modes)')
               k == Cardinality(all)
               j == Cardinality(all \ {w})
    <2>1. all \in SUBSET Appliers /\ w \in all
      OBVIOUS
    <2>2. ASSUME config'.mode \notin modes PROVE b <= overlaps
      <3>1. In(cut \cup hold, modes)' \subseteq all \ {w}
        BY <2>2 DEF In, Busy, At
      <3>2. all \ {w} \in SUBSET Appliers
        OBVIOUS
      <3>3. b <= j /\ j = k - 1 /\ k \in Nat /\ j \in Nat /\ b \in Nat
        BY <2>1, <3>1, <3>2, InCounted, Counted
      <3>4. k <= 1 + overlaps
        BY DEF BusyCounted
      <3> HIDE DEF b, j, k
      <3> QED
        BY <1>0, <3>3, <3>4
    <2> HIDE DEF b
    <2>3. config'.mode \notin modes => b <= overlaps'
      BY <2>2
    <2> QED
      BY <2>3 DEF Late, b
  <1> QED
    BY <1>4, <1>5

\* The rules of one kind, while nobody runs a command that counts.
LEMMA RestBounded ==
  ASSUME TypeOK, TypeOK', UNCHANGED config, fails <= fails', overlaps <= overlaps',
         At(Boot, "load") => At(Boot, "load")',
         \A o \in Appliers :
           \/ work'[o].at = work[o].at /\ work'[o].cfg = work[o].cfg
           \/ work[o].at \notin ApplySteps /\ work'[o].at \notin ApplySteps,
         NEW cut, NEW hold, NEW modes, NEW n \in Nat, cut \cup hold \subseteq ApplySteps,
         Bounded(n, cut, hold, modes), Late(cut \cup hold, modes)
  PROVE  /\ n + Cardinality(In(hold, modes)') <= Spare(cut, modes)' + fails' + overlaps'
         /\ Late(cut \cup hold, modes)'
  <1>0. BoundTypes /\ BoundTypes' /\ overlaps \in Nat /\ overlaps' \in Nat
    BY TypeParts DEF BoundTypes
  <1>1. ASSUME NEW steps, NEW m, steps \subseteq ApplySteps
        PROVE  In(steps, m)' = In(steps, m)
    BY <1>1 DEF In
  <1>2. Spare(cut, modes) <= Spare(cut, modes)'
    BY <1>1, SpareKept
  <1>3. n + Cardinality(In(hold, modes)') <= Spare(cut, modes)' + fails' + overlaps'
    BY <1>0, <1>1, <1>2, Keep
  <1>4. Late(cut \cup hold, modes)'
    <2> DEFINE a == Cardinality(In(cut \cup hold, modes))
    <2>1. a \in Nat /\ Cardinality(In(cut \cup hold, modes)') = a
      BY <1>1, InCounted
    <2>2. config.mode \notin modes => a <= overlaps
      BY DEF Late
    <2> HIDE DEF a
    <2>3. config.mode \notin modes => a <= overlaps'
      BY <1>0, <2>1, <2>2, Through
    <2> QED
      BY <2>1, <2>3 DEF Late
  <1> QED
    BY <1>3, <1>4

\* The rules of one kind, when the daemon ends.
LEMMA CrashBounded ==
  ASSUME TypeOK, TypeOK', Crash, NEW cut, NEW hold, NEW modes, NEW n \in Nat,
         cut \cup hold \subseteq ApplySteps, Bounded(n, cut, hold, modes)
  PROVE  /\ n + Cardinality(In(hold, modes)') <= Spare(cut, modes)' + fails' + overlaps'
         /\ Late(cut \cup hold, modes)'
  <1>0. BoundTypes /\ BoundTypes' /\ overlaps \in Nat /\ UNCHANGED <<fails, overlaps>>
        /\ Boot \in Workers /\ Appliers \subseteq Workers /\ fails \in Nat
    BY FirewallAssumption, Basics, TypeParts DEF BoundTypes, Crash, faultVars
  <1>1. \A o \in Appliers : work'[o].at = IF o = Boot THEN "load" ELSE "idle"
    BY <1>0 DEF Crash, Idle
  <1>2. ASSUME NEW steps, NEW m, steps \subseteq ApplySteps
        PROVE  In(steps, m)' = {}
    BY <1>1, <1>2 DEF In, ApplySteps
  <1>3. Spare(cut, modes)' = 1
    BY <1>1, Basics DEF Spare, At
  <1>4. Spare(cut, modes) <= Spare(cut, modes)' /\ fails <= fails' /\ overlaps <= overlaps'
    BY <1>0, <1>3, InCounted
  <1>5. n + Cardinality(In(hold, modes)') <= Spare(cut, modes)' + fails' + overlaps'
    BY <1>0, <1>2, <1>4, Keep
  <1>6. Late(cut \cup hold, modes)'
    BY <1>0, <1>2, FS_EmptySet DEF Late
  <1> QED
    BY <1>5, <1>6

\* What Counts says of the rules of one kind, after a step.
LEMMA CountsParts ==
  ASSUME BusyCounted',
         jumps' + Cardinality(In(JumpHold, On)') <= Spare(JumpCut, On)' + fails' + overlaps',
         Late(JumpCut \cup JumpHold, On)',
         drops6' + Cardinality(In(DropHold, {"whitelist"})')
           <= Spare(DropCut, {"whitelist"})' + fails' + overlaps',
         Late(DropCut \cup DropHold, {"whitelist"})'
  PROVE  Counts'
  BY DEF Counts, Bounded

\* Every applier beyond the first was counted when it began.
LEMMA NextBusy ==
  ASSUME TypeOK, TypeOK', Places, BusyCounted, [Next]_vars
  PROVE  BusyCounted'
  <1> DEFINE busy == {w \in Appliers : Busy(w)}
             k == Cardinality(busy)   j == Cardinality(busy')
  <1>0. /\ work \in [Workers -> Records] /\ Appliers = Editors \cup {Boot}
        /\ Workers = Appliers \cup {Resolver} /\ Boot \notin Editors
        /\ Resolver \notin Appliers /\ overlaps \in Nat
    BY FirewallAssumption DEF TypeOK, Records, Appliers, Workers
  <1>1. busy \in SUBSET Appliers /\ busy' \in SUBSET Appliers
    OBVIOUS
  <1>2. k \in Nat /\ j \in Nat
    BY <1>1, Counted
  <1>3. ASSUME busy' \subseteq busy, UNCHANGED overlaps
        PROVE  BusyCounted'
    <2>1. j <= k
      BY <1>1, <1>3, Counted
    <2>2. k <= 1 + overlaps
      BY DEF BusyCounted
    <2>3. 1 + overlaps \in Nat
      BY <1>0
    <2> HIDE DEF j, k
    <2>4. j <= 1 + overlaps
      BY <1>2, <2>1, <2>2, <2>3, Through
    <2> QED
      BY <1>3, <2>4 DEF BusyCounted, j
  <1>4. ASSUME NEW e \in Editors, NEW c \in Configs, Save(e, c)
        PROVE  BusyCounted'
    <2> DEFINE others == {o \in Editors \ {e} : Busy(o)}
               i == Cardinality(others)
    <2>1. /\ work' = [w \in Workers |->
               IF w = e THEN [Idle EXCEPT !.at = "write", !.cfg = c, !.alone = (others = {})]
               ELSE [work[w] EXCEPT !.alone = FALSE]]
          /\ At(Boot, "idle") /\ overlaps' = overlaps + i
      BY <1>4 DEF Save, Serving
    <2>2. ASSUME NEW o \in Appliers \ {e} PROVE work'[o].at = work[o].at
      <3>1. work[o] \in Records /\ work'[o] = [work[o] EXCEPT !.alone = FALSE]
        BY <1>0, <2>1, <2>2
      <3> QED
        BY <3>1 DEF Records
    <2>3. busy' \subseteq others \cup {e}
      BY <1>0, <2>1, <2>2 DEF Busy, At
    <2>4. others \in SUBSET Appliers /\ others \cup {e} \in SUBSET Appliers
      BY <1>0
    <2>5. /\ j <= Cardinality(others \cup {e}) /\ Cardinality(others \cup {e}) <= i + 1
          /\ i \in Nat /\ Cardinality(others \cup {e}) \in Nat
      BY <2>3, <2>4, Counted
    <2> HIDE DEF i, j
    <2>6. j <= 1 + (overlaps + i)
      BY <1>0, <1>2, <2>5
    <2> QED
      BY <2>1, <2>6 DEF BusyCounted, j
  <1>5. ASSUME NEW w \in Appliers, Busy(w), UNCHANGED overlaps,
               \A o \in Appliers \ {w} : work'[o] = work[o]
        PROVE  BusyCounted'
    <2>1. busy' \subseteq busy
      BY <1>5 DEF Busy, At
    <2> QED
      BY <1>3, <1>5, <2>1
  <1>6. ASSUME \A o \in Appliers : work'[o] = work[o], UNCHANGED overlaps
        PROVE  BusyCounted'
    <2>1. busy' \subseteq busy
      BY <1>6 DEF Busy, At
    <2> QED
      BY <1>3, <1>6, <2>1
  <1>7. ASSUME NEW e \in Editors, Write(e) PROVE BusyCounted'
    <2>1. Busy(e) /\ UNCHANGED overlaps
      BY <1>7 DEF Write, Busy, At
    <2>2. \A o \in Appliers \ {e} : work'[o] = work[o]
      BY <1>0, <1>7 DEF Write, Goto
    <2> QED
      BY <1>0, <1>5, <2>1, <2>2
  <1>8. ASSUME NEW e \in Editors, Publish(e) PROVE BusyCounted'
    <2>1. Busy(e) /\ UNCHANGED overlaps /\ \A o \in Appliers \ {e} : work'[o] = work[o]
      BY <1>0, <1>8 DEF Publish, Busy, At
    <2> QED
      BY <1>0, <1>5, <2>1
  <1>9. CASE Load
    <2>1. Busy(Boot) /\ UNCHANGED overlaps /\ \A o \in Appliers \ {Boot} : work'[o] = work[o]
      BY <1>0, <1>9 DEF Load, Busy, At
    <2> QED
      BY <1>0, <1>5, <2>1
  <1>10. ASSUME NEW w \in Appliers, Run(w) PROVE BusyCounted'
    <2>1. /\ Busy(w) /\ UNCHANGED overlaps
          /\ \A o \in Appliers \ {w} : work'[o] = work[o]
      BY <1>10, RunSteps DEF Busy, At, Running, ApplySteps, RefreshSteps
    <2> QED
      BY <1>5, <2>1
  <1>11. CASE Wake
    BY <1>0, <1>6, <1>11 DEF Wake
  <1>12. CASE Refresh(Resolver)
    BY <1>0, <1>6, <1>12, RunEffect DEF RunsTo
  <1>13. CASE Crash
    <2>1. \A o \in Appliers : work'[o].at = IF o = Boot THEN "load" ELSE "idle"
      BY <1>0, <1>13 DEF Crash, Idle
    <2>2. busy' \subseteq {Boot}
      BY <2>1 DEF Busy, At
    <2>3. {Boot} \in SUBSET Appliers /\ Cardinality({Boot}) = 1
      BY <1>0, FS_Singleton
    <2>4. j <= 1
      BY <2>2, <2>3, Counted
    <2> HIDE DEF j
    <2>5. j <= 1 + overlaps
      BY <1>0, <1>2, <2>4
    <2> QED
      BY <1>13, <2>5 DEF Crash, BusyCounted, j
  <1>14. CASE UNCHANGED vars
    BY <1>6, <1>14 DEF vars
  <1> QED
    BY <1>0, <1>4, <1>7, <1>8, <1>9, <1>10, <1>11, <1>12, <1>13, <1>14 DEF Next, Edit

\* A rule is counted until an applier has deleted it; one that is not deleted, or
\* is added twice, is one for a failure or an overlap.
LEMMA NextCounts ==
  ASSUME TypeOK, TypeOK', Places, Counts, [Next]_vars
  PROVE  Counts'
  <1>0. /\ work \in [Workers -> Records] /\ Appliers = Editors \cup {Boot}
        /\ Workers = Appliers \cup {Resolver} /\ Boot \notin Editors
        /\ Resolver \notin Appliers
        /\ overlaps \in Nat /\ fails \in Nat /\ jumps \in Nat /\ jumps' \in Nat
        /\ drops6 \in Nat /\ drops6' \in Nat
    <2>1. /\ WorkTypes /\ KernelTypes /\ KernelTypes' /\ BoundTypes
      BY TypeParts
    <2>2. /\ overlaps \in Nat /\ fails \in Nat /\ jumps \in Nat /\ jumps' \in Nat
          /\ drops6 \in Nat /\ drops6' \in Nat
      BY <2>1, FirewallAssumption DEF BoundTypes, KernelTypes
    <2> QED
      BY <2>1, <2>2, FirewallAssumption DEF WorkTypes, Appliers, Workers
  <1>1. /\ "idle" \notin JumpCut \cup JumpHold /\ JumpCut \cup JumpHold \subseteq ApplySteps
        /\ JumpCut \cap JumpHold = {} /\ "unjump" \in JumpCut
        /\ "jump" \in JumpHold
    BY DEF JumpCut, JumpHold, ApplySteps
  <1>2. /\ "idle" \notin DropCut \cup DropHold /\ DropCut \cup DropHold \subseteq ApplySteps
        /\ DropCut \cap DropHold = {} /\ "unjump" \in DropCut
        /\ "v6" \in DropHold
    BY DEF DropCut, DropHold, ApplySteps
  <1>3. /\ BusyCounted /\ BusyCounted'
        /\ Bounded(jumps, JumpCut, JumpHold, On) /\ Late(JumpCut \cup JumpHold, On)
        /\ Bounded(drops6, DropCut, DropHold, {"whitelist"})
        /\ Late(DropCut \cup DropHold, {"whitelist"})
    BY NextBusy DEF Counts
  <1>4. ASSUME UNCHANGED <<config, jumps, drops6>>, fails <= fails', overlaps <= overlaps',
               At(Boot, "load") => At(Boot, "load")',
               \A o \in Appliers :
                 \/ work'[o].at = work[o].at /\ work'[o].cfg = work[o].cfg
                 \/ work[o].at \notin ApplySteps /\ work'[o].at \notin ApplySteps
        PROVE  Counts'
    <2>1. /\ jumps + Cardinality(In(JumpHold, On)')
               <= Spare(JumpCut, On)' + fails' + overlaps'
          /\ Late(JumpCut \cup JumpHold, On)'
      BY <1>0, <1>1, <1>3, <1>4, RestBounded
    <2>2. /\ drops6 + Cardinality(In(DropHold, {"whitelist"})')
               <= Spare(DropCut, {"whitelist"})' + fails' + overlaps'
          /\ Late(DropCut \cup DropHold, {"whitelist"})'
      BY <1>0, <1>2, <1>3, <1>4, RestBounded
    <2> QED
      BY <1>3, <1>4, <2>1, <2>2, CountsParts
  <1>5. ASSUME NEW w \in Appliers, Busy(w), \A o \in Appliers \ {w} : work'[o] = work[o],
               work'[w].at = "unjump", work'[w].cfg = config',
               UNCHANGED <<overlaps, fails, jumps, drops6>>
        PROVE  Counts'
    <2>1. /\ jumps + Cardinality(In(JumpHold, On)')
               <= Spare(JumpCut, On)' + fails' + overlaps'
          /\ Late(JumpCut \cup JumpHold, On)'
      BY <1>0, <1>1, <1>3, <1>5, BeginBounded
    <2>2. /\ drops6 + Cardinality(In(DropHold, {"whitelist"})')
               <= Spare(DropCut, {"whitelist"})' + fails' + overlaps'
          /\ Late(DropCut \cup DropHold, {"whitelist"})'
      BY <1>0, <1>2, <1>3, <1>5, BeginBounded
    <2> QED
      BY <1>3, <1>5, <2>1, <2>2, CountsParts
  <1>6. ASSUME NEW w \in Appliers, Run(w) PROVE Counts'
    <2>0. w \in Workers /\ work[w].cfg.mode \in Modes
      BY <1>0 DEF Records, AllConfigs
    <2>1. /\ At(w, "jump") => work[w].cfg.mode \in On
          /\ At(w, "v6") => work[w].cfg.mode \in {"whitelist"}
      BY <2>0 DEF Places, Placed, At, On, Modes
    <2>2. /\ work'[w].at \in JumpHold => work[w].at \in (JumpCut \cup JumpHold) \ {"jump"}
          /\ work'[w].at \in JumpCut => work[w].at \in JumpCut
          /\ work[w].at \in JumpCut /\ work'[w].at \notin JumpCut <=> At(w, "unjump")
      BY <1>6, RunSteps DEF JumpCut, JumpHold, At
    <2>3. /\ work'[w].at \in DropHold => work[w].at \in (DropCut \cup DropHold) \ {"v6"}
          /\ work'[w].at \in DropCut => work[w].at \in DropCut
          /\ work[w].at \in DropCut /\ work'[w].at \notin DropCut <=> At(w, "unv6")
      BY <1>6, RunSteps DEF DropCut, DropHold, At
    <2>4. /\ jumps' + Cardinality(In(JumpHold, On)')
               <= Spare(JumpCut, On)' + fails' + overlaps'
          /\ Late(JumpCut \cup JumpHold, On)'
      <3>1. IF At(w, "unjump")
              THEN \/ jumps' = (IF jumps > 0 THEN jumps - 1 ELSE 0) /\ fails' = fails
                   \/ jumps > 0 /\ jumps' = jumps /\ fails' = fails + 1
              ELSE jumps' = jumps \/ (At(w, "jump") /\ jumps' = jumps + 1)
        BY <1>6, RunSteps
      <3> QED
        BY <1>0, <1>1, <1>3, <1>6, <2>1, <2>2, <3>1, RunBounded
    <2>5. /\ drops6' + Cardinality(In(DropHold, {"whitelist"})')
               <= Spare(DropCut, {"whitelist"})' + fails' + overlaps'
          /\ Late(DropCut \cup DropHold, {"whitelist"})'
      <3>1. IF At(w, "unv6")
              THEN \/ drops6' = (IF drops6 > 0 THEN drops6 - 1 ELSE 0) /\ fails' = fails
                   \/ drops6 > 0 /\ drops6' = drops6 /\ fails' = fails + 1
              ELSE drops6' = drops6 \/ (At(w, "v6") /\ drops6' = drops6 + 1)
        BY <1>6, RunSteps
      <3> QED
        BY <1>0, <1>2, <1>3, <1>6, <2>1, <2>3, <3>1, RunBounded
    <2> QED
      BY <1>3, <2>4, <2>5, CountsParts
  <1>7. ASSUME NEW e \in Editors, NEW c \in Configs, Save(e, c) PROVE Counts'
    <2> DEFINE others == {o \in Editors \ {e} : Busy(o)}
    <2>1. /\ work' = [w \in Workers |->
               IF w = e THEN [Idle EXCEPT !.at = "write", !.cfg = c, !.alone = (others = {})]
               ELSE [work[w] EXCEPT !.alone = FALSE]]
          /\ At(Boot, "idle") /\ At(e, "idle")
          /\ overlaps' = overlaps + Cardinality(others)
          /\ UNCHANGED <<config, kernelVars, fails>>
      BY <1>7 DEF Save, Serving
    <2>2. ASSUME NEW o \in Appliers \ {e}
          PROVE  work'[o].at = work[o].at /\ work'[o].cfg = work[o].cfg
      <3>1. work[o] \in Records /\ work'[o] = [work[o] EXCEPT !.alone = FALSE]
        BY <1>0, <2>1, <2>2
      <3> QED
        BY <3>1 DEF Records
    <2>3. work[e].at \notin ApplySteps /\ work'[e].at \notin ApplySteps
      BY <1>0, <2>1 DEF Idle, At, ApplySteps
    <2>4. Cardinality(others) \in Nat
      <3>1. others \in SUBSET Appliers
        BY <1>0
      <3> QED
        BY <3>1, Counted
    <2>5. overlaps <= overlaps' /\ fails <= fails'
      <3> DEFINE k == Cardinality(others)
      <3>1. overlaps' = overlaps + k /\ fails' = fails /\ k \in Nat
        BY <2>1, <2>4
      <3> HIDE DEF k
      <3>2. overlaps <= overlaps'
        BY <1>0, <3>1
      <3>3. fails <= fails'
        BY <1>0, <3>1
      <3> QED
        BY <3>2, <3>3
    <2>6. ~At(Boot, "load")
      BY <2>1 DEF At
    <2> QED
      BY <1>4, <2>1, <2>2, <2>3, <2>5, <2>6 DEF kernelVars
  <1>8. ASSUME NEW e \in Editors, Write(e) PROVE Counts'
    <2>1. PICK step \in {"publish", "idle"} : Goto(e, step) /\ At(e, "write")
      BY <1>8 DEF Write
    <2>2. /\ work'[e].at = step /\ e # Boot
          /\ \A o \in Workers \ {e} : work'[o] = work[o]
      BY <1>0, <2>1, GotoMoves, Moved DEF Steps
    <2>3. work[e].at \notin ApplySteps /\ work'[e].at \notin ApplySteps
      BY <2>1, <2>2 DEF At, ApplySteps
    <2>4. /\ UNCHANGED <<config, jumps, drops6, overlaps>>
          /\ fails' = fails \/ fails' = fails + 1
      BY <1>8 DEF Write, Failing, NoFault, kernelVars, faultVars
    <2>5. fails <= fails' /\ overlaps <= overlaps'
      BY <1>0, <2>4
    <2>6. At(Boot, "load") => At(Boot, "load")'
      BY <1>0, <2>2 DEF At
    <2> QED
      BY <1>0, <1>4, <2>2, <2>3, <2>4, <2>5, <2>6
  <1>9. ASSUME NEW e \in Editors, Publish(e) PROVE Counts'
    <2>1. work[e] \in Records /\ e \in Workers
      BY <1>0
    <2>2. /\ work'[e].at = "unjump" /\ work'[e].cfg = config' /\ Busy(e)
          /\ \A o \in Appliers \ {e} : work'[o] = work[o]
          /\ UNCHANGED <<overlaps, fails, jumps, drops6>>
      BY <1>0, <1>9, <2>1 DEF Publish, Records, Busy, At, kernelVars
    <2> QED
      BY <1>0, <1>5, <2>2
  <1>10. CASE Load
    <2>1. work[Boot] \in Records /\ Boot \in Workers
      BY <1>0
    <2>2. /\ work'[Boot].at = "unjump" /\ work'[Boot].cfg = config' /\ Busy(Boot)
          /\ \A o \in Appliers \ {Boot} : work'[o] = work[o]
          /\ UNCHANGED <<overlaps, fails, jumps, drops6>>
      BY <1>0, <1>10, <2>1 DEF Load, Records, Busy, At, kernelVars
    <2> QED
      BY <1>0, <1>5, <2>2
  <1>11. CASE Wake
    <2>1. /\ UNCHANGED <<config, jumps, drops6, overlaps, fails>>
          /\ \A o \in Appliers : work'[o] = work[o]
      BY <1>0, <1>11 DEF Wake, kernelVars, faultVars
    <2>2. fails <= fails' /\ overlaps <= overlaps'
      BY <1>0, <2>1
    <2> QED
      BY <1>0, <1>4, <2>1, <2>2 DEF At
  <1>12. CASE Refresh(Resolver)
    <2>1. UNCHANGED <<jumps, drops6>>
      BY <1>0, <1>12, RefreshRuns DEF kernelVars
    <2>2. /\ UNCHANGED <<config, overlaps>> /\ fails' \in {fails, fails + 1}
          /\ \A o \in Appliers : work'[o] = work[o]
      BY <1>0, <1>12, RunEffect DEF RunsTo
    <2>3. fails <= fails' /\ overlaps <= overlaps'
      BY <1>0, <2>2
    <2> QED
      BY <1>0, <1>4, <2>1, <2>2, <2>3 DEF At
  <1>13. CASE Crash
    <2>1. /\ jumps + Cardinality(In(JumpHold, On)')
               <= Spare(JumpCut, On)' + fails' + overlaps'
          /\ Late(JumpCut \cup JumpHold, On)'
      BY <1>0, <1>1, <1>3, <1>13, CrashBounded
    <2>2. /\ drops6 + Cardinality(In(DropHold, {"whitelist"})')
               <= Spare(DropCut, {"whitelist"})' + fails' + overlaps'
          /\ Late(DropCut \cup DropHold, {"whitelist"})'
      BY <1>0, <1>2, <1>3, <1>13, CrashBounded
    <2>3. UNCHANGED <<jumps, drops6>>
      BY <1>13 DEF Crash, kernelVars
    <2> QED
      BY <1>3, <2>1, <2>2, <2>3, CountsParts
  <1>14. CASE UNCHANGED vars
    <2>1. UNCHANGED <<config, work, jumps, drops6, overlaps, fails>>
      BY <1>14 DEF vars, kernelVars, faultVars
    <2>2. fails <= fails' /\ overlaps <= overlaps'
      BY <1>0, <2>1
    <2> QED
      BY <1>4, <2>1, <2>2 DEF At
  <1> QED
    BY <1>0, <1>6, <1>7, <1>8, <1>9, <1>10, <1>11, <1>12, <1>13, <1>14 DEF Next, Edit

-----------------------------------------------------------------------------
(* The theorems.                                                           *)

\* The first start.
LEMMA InitIInv == Init => IInv
  <1> SUFFICES ASSUME Init PROVE IInv
    OBVIOUS
  <1>1. TypeOK
    BY InitTypeOK
  <1>2. \A w \in Workers :
          /\ work[w].at = (IF w = Boot THEN "load" ELSE "idle") /\ ~work[w].alone
    BY DEF Init, Idle
  <1>3. Appliers \subseteq Workers /\ Boot \in Appliers
    BY Basics
  <1>4. Places
    BY <1>2, <1>3 DEF Places, Placed, Alone, At, Busy
  <1>5. Undisturbed
    <2>1. \A w, o \in Appliers : Busy(w) /\ Busy(o) => w = o
      BY <1>2, <1>3 DEF Busy, At
    <2>2. \A w \in Appliers : Progress(w)
      BY <1>2, <1>3 DEF Progress, Running, ApplySteps, RefreshSteps, At
    <2>3. ~Settled
      BY <1>2, <1>3 DEF Settled, At
    <2> QED
      BY <2>1, <2>2, <2>3 DEF Undisturbed
  <1>6. jumps = 0 /\ drops6 = 0 /\ fails = 0 /\ overlaps = 0
    BY DEF Init
  <1>7. Cardinality({w \in Appliers : Busy(w)}) <= 1
    <2>1. {w \in Appliers : Busy(w)} \subseteq {Boot}
      BY <1>2, <1>3 DEF Busy, At
    <2>2. {Boot} \in SUBSET Appliers /\ Cardinality({Boot}) = 1
      BY <1>3, FS_Singleton
    <2> QED
      BY <2>1, <2>2, Counted
  <1>8. \A steps, modes : steps \subseteq ApplySteps => In(steps, modes) = {}
    BY <1>2, <1>3 DEF In, ApplySteps
  <1>9. In(JumpHold, On) = {} /\ In(JumpCut \cup JumpHold, On) = {}
        /\ In(DropHold, {"whitelist"}) = {} /\ In(DropCut \cup DropHold, {"whitelist"}) = {}
    <2>1. JumpCut \cup JumpHold \subseteq ApplySteps /\ DropCut \cup DropHold \subseteq ApplySteps
          /\ JumpHold \subseteq ApplySteps /\ DropHold \subseteq ApplySteps
      BY DEF JumpCut, JumpHold, DropCut, DropHold, ApplySteps
    <2> QED
      BY <1>8, <2>1
  <1>10. Cardinality({}) = 0
    BY FS_EmptySet
  <1>11. /\ Spare(JumpCut, On) \in {0, 1} /\ Spare(DropCut, {"whitelist"}) \in {0, 1}
    BY InCounted
  <1>12. Counts
    <2>1. BusyCounted
      BY <1>6, <1>7 DEF BusyCounted
    <2>2. Late(JumpCut \cup JumpHold, On) /\ Late(DropCut \cup DropHold, {"whitelist"})
      BY <1>6, <1>9, <1>10 DEF Late
    <2>3. Bounded(jumps, JumpCut, JumpHold, On) /\ Bounded(drops6, DropCut, DropHold, {"whitelist"})
      BY <1>6, <1>9, <1>10, <1>11 DEF Bounded
    <2> QED
      BY <2>1, <2>2, <2>3 DEF Counts
  <1> QED
    BY <1>1, <1>4, <1>5, <1>12 DEF IInv

\* Every step.
LEMMA NextIInv == IInv /\ [Next]_vars => IInv'
  BY NextTypeOK, NextPlaces, NextUndisturbed, NextCounts DEF IInv

\* Nothing that outlives the daemon is of another type than its readers expect,
\* and the bounds of the model hold.
THEOREM Firewall_TypeCorrect == Spec => []TypeOK
  <1>1. IInv => TypeOK
    BY DEF IInv
  <1> QED
    BY <1>1, InitIInv, NextIInv, PTL DEF Spec

\* With no apply under way, nobody is at a step that will add a rule or take the
\* spare one away.
LEMMA IInvInForce == IInv => ConfigInForce
  <1> SUFFICES ASSUME IInv, Settled PROVE
        /\ ~flawed => /\ chain = Built(config)
                      /\ config.mode # "off" => jumps > 0
                      /\ config.mode = "whitelist" => drops6 > 0
                      /\ config = IF file = Torn THEN Default ELSE file
        /\ jumps <= Wanted(config.mode # "off") + fails + overlaps
        /\ drops6 <= Wanted(config.mode = "whitelist") + fails + overlaps
    BY DEF ConfigInForce
  <1>0. /\ jumps \in Nat /\ drops6 \in Nat /\ fails \in Nat /\ overlaps \in Nat
        /\ config.mode \in Modes
    BY FirewallAssumption, TypeParts
    DEF IInv, BoundTypes, KernelTypes, ConfigTypes, AllConfigs
  <1>1. ~flawed => /\ chain = Built(config)
                   /\ config.mode # "off" => jumps > 0
                   /\ config.mode = "whitelist" => drops6 > 0
                   /\ config = IF file = Torn THEN Default ELSE file
    BY DEF IInv, Undisturbed, Whole, Loaded
  <1>2. ASSUME NEW steps, NEW modes, "idle" \notin steps
        PROVE  In(steps, modes) = {}
    BY <1>2 DEF Settled, In, At
  <1>3. ASSUME NEW cut, NEW hold, NEW modes, NEW n \in Nat, Bounded(n, cut, hold, modes),
               "idle" \notin cut, "idle" \notin hold
        PROVE  n <= Wanted(config.mode \in modes) + fails + overlaps
    <2>1. In(hold, modes) = {} /\ In(cut, Modes \ modes) = {}
      BY <1>2, <1>3
    <2>2. ~At(Boot, "load")
      BY Basics DEF Settled, At
    <2>3. Spare(cut, modes) = Wanted(config.mode \in modes)
      BY <2>1, <2>2 DEF Spare, Wanted
    <2>4. n + 0 <= Wanted(config.mode \in modes) + fails + overlaps
      BY <1>3, <2>1, <2>3, FS_EmptySet DEF Bounded
    <2> QED
      BY <2>4
  <1>4. "idle" \notin JumpCut /\ "idle" \notin JumpHold /\ "idle" \notin DropCut
        /\ "idle" \notin DropHold
    BY DEF JumpCut, JumpHold, DropCut, DropHold
  <1>5. /\ Bounded(jumps, JumpCut, JumpHold, On)
        /\ Bounded(drops6, DropCut, DropHold, {"whitelist"})
    BY DEF IInv, Counts
  <1>6. jumps <= Wanted(config.mode # "off") + fails + overlaps
    <2>1. jumps <= Wanted(config.mode \in On) + fails + overlaps
      BY <1>0, <1>3, <1>4, <1>5
    <2>2. config.mode \in On <=> config.mode # "off"
      BY <1>0 DEF On, Modes
    <2> QED
      BY <2>1, <2>2 DEF Wanted
  <1>7. drops6 <= Wanted(config.mode = "whitelist") + fails + overlaps
    <2>1. drops6 <= Wanted(config.mode \in {"whitelist"}) + fails + overlaps
      BY <1>0, <1>3, <1>4, <1>5
    <2> QED
      BY <2>1 DEF Wanted
  <1> QED
    BY <1>1, <1>6, <1>7

\* Whatever edits, restarts, failures and refreshes came before: with no apply
\* under way, the rules in the kernel are those of the configuration shown if the
\* last edit or start ran alone and failed nowhere, and no more rules of earlier
\* ones are left than commands failed and edits overlapped.
THEOREM Config_InForce == Spec => []ConfigInForce
  BY InitIInv, NextIInv, IInvInForce, PTL DEF Spec

-----------------------------------------------------------------------------
(* The alert store and the panel.                                          *)

-----------------------------------------------------------------------------
(* The inductive invariant.                                                *)

\* An id is never ahead of the number of alerts pushed.
IdsCounted == nextId <= count + 1

\* The first load asks for everything, and it is over before an answer of its
\* could have replaced anything.
LoadOnce == /\ req["load"].after = 0
            /\ req["load"].at # "idle" => ~replaced

\* A request to clear is not there without CLEAR ALL having been used.
ClearUsed == req["clear"].at # "idle" => clears > 0

\* No cursor, of the page or of a request, has reached the next id.
CursorsBehind ==
  /\ lastAlertId < nextId
  /\ \A s \in Slots : req[s].after < nextId /\ req[s].last < nextId

\* What is stored up to the id k has been on the panel.
ShownUpTo(k) ==
  \A i \in 1..Len(entries) : entries[i].id <= k =>
    /\ entries[i].n \in ever
    /\ clears = 0 /\ ~replaced => entries[i].n \in rows

\* What is stored between the two cursors of an answer is in the answer.
Carries(s) ==
  \A i \in 1..Len(entries) :
    req[s].after < entries[i].id /\ entries[i].id <= req[s].last =>
      entries[i].n \in req[s].alerts

\* A request under way starts where the panel is complete, and its answer
\* leaves no gap.
Continues(s) ==
  /\ req[s].at \in {"sent", "answered"} => ShownUpTo(req[s].after)
  /\ req[s].at = "answered" => Carries(s)

Complete == /\ CursorsBehind
            /\ ShownUpTo(lastAlertId)
            /\ \A s \in Slots \ {"clear"} : Continues(s)

PanelInv == /\ PanelTypeOK /\ IdsCounted /\ LoadOnce /\ ClearUsed
            /\ restarts = 0 => Complete

-----------------------------------------------------------------------------
(* Types.                                                                  *)

Stores == [id : Alerts, n : Alerts]

\* A request that is sent carries the cursor and nothing else.
LEMMA SentIs ==
  ASSUME NEW a
  PROVE  Sent(a) = [at |-> "sent", after |-> a, alerts |-> {}, last |-> 0]
  <1>1. [NoRequest EXCEPT !.at = "sent"] = [at |-> "sent", after |-> 0, alerts |-> {}, last |-> 0]
    BY DEF NoRequest
  <1>2. Sent(a) = [[NoRequest EXCEPT !.at = "sent"] EXCEPT !.after = a]
    BY DEF Sent
  <1> QED
    BY <1>1, <1>2

\* A request under way or none, both are requests.
LEMMA RequestTypes ==
  /\ NoRequest \in Requests
  /\ \A a \in 0..MaxAlerts : Sent(a) \in Requests
  <1>1. 0 \in 0..MaxAlerts
    BY AlertPanelAssumption
  <1>2. NoRequest \in Requests
    BY <1>1 DEF NoRequest, Requests
  <1>3. ASSUME NEW a \in 0..MaxAlerts PROVE Sent(a) \in Requests
    BY <1>1, SentIs DEF Requests
  <1> QED
    BY <1>2, <1>3

\* The state in which the page is opened satisfies the invariant.
LEMMA InitPanelInv ==
  ASSUME PanelInit
  PROVE  PanelInv
  <1> USE AlertPanelAssumption DEF PanelInit
  <1>1. entries = <<>> /\ Len(entries) = 0 /\ entries \in Seq(Stores)
    OBVIOUS
  <1>2. req \in [Slots -> Requests] /\ req["load"] = Sent(0) /\ req["clear"] = NoRequest
        /\ \A s \in Slots : req[s] = Sent(0) \/ req[s] = NoRequest
    <2>1. 0 \in 0..MaxAlerts
      OBVIOUS
    <2>2. "load" \in Slots /\ "clear" \in Slots
      BY DEF Slots
    <2> QED
      BY <2>1, <2>2, RequestTypes
  <1>3. PanelTypeOK
    <2>1. entries \in Seq([id : Alerts, n : Alerts]) /\ Len(entries) <= StoreCap
      BY <1>1 DEF Stores
    <2>2. nextId \in 1..(MaxAlerts + 1) /\ count \in 0..MaxAlerts /\ lastAlertId \in 0..MaxAlerts
      OBVIOUS
    <2>3. {clears, restarts, requestFails, clears + restarts + requestFails} \subseteq 0..MaxPageTroubles
      OBVIOUS
    <2>4. session \in BOOLEAN /\ rows \subseteq ever /\ ever \subseteq Alerts /\ replaced \in BOOLEAN
      OBVIOUS
    <2> QED
      BY <1>2, <2>1, <2>2, <2>3, <2>4 DEF PanelTypeOK
  <1>4. Sent(0).after = 0 /\ Sent(0).last = 0 /\ NoRequest.after = 0 /\ NoRequest.last = 0
        /\ Sent(0).at = "sent" /\ NoRequest.at = "idle"
    BY SentIs DEF NoRequest
  <1>5. IdsCounted /\ LoadOnce /\ ClearUsed
    BY <1>2, <1>4 DEF IdsCounted, LoadOnce, ClearUsed
  <1>6. CursorsBehind
    BY <1>2, <1>4 DEF CursorsBehind
  <1>7. Complete
    BY <1>1, <1>6 DEF Complete, Continues, Carries, ShownUpTo
  <1> QED
    BY <1>3, <1>5, <1>7 DEF PanelInv

\* A push stores the new alert under the next id and at most drops an old one.
LEMMA PushStores ==
  ASSUME PanelTypeOK, IdsCounted, Push
  PROVE  /\ entries' \in Seq(Stores) /\ Len(entries') <= StoreCap
         /\ \A i \in 1..Len(entries') :
              \/ \E j \in 1..Len(entries) : entries'[i] = entries[j]
              \/ entries'[i].id = nextId
         /\ nextId' = nextId + 1 /\ count' = count + 1
         /\ nextId' \in 1..(MaxAlerts + 1) /\ count' \in 0..MaxAlerts
         /\ nextId' <= count' + 1
  <1> DEFINE x == [id |-> nextId, n |-> count']
             e == Append(entries, x)
  <1>1. /\ nextId' = nextId + 1 /\ count' = count + 1 /\ nextId \in Nat \ {0}
        /\ count \in Nat /\ count < MaxAlerts /\ nextId <= count + 1 /\ MaxAlerts \in Nat
    BY AlertPanelAssumption DEF Push, PanelTypeOK, IdsCounted
  <1>2. x \in Stores
    BY <1>1 DEF Stores, Alerts
  <1>3. entries \in Seq(Stores) /\ Len(entries) \in Nat /\ Len(entries) <= StoreCap
        /\ StoreCap \in Nat \ {0}
    BY AlertPanelAssumption, LenProperties DEF PanelTypeOK, Stores
  <1>4. /\ e \in Seq(Stores) /\ Len(e) = Len(entries) + 1 /\ e # <<>>
        /\ \A i \in 1..Len(entries) : e[i] = entries[i]
        /\ e[Len(entries) + 1] = x
    BY <1>2, <1>3, AppendProperties
  <1>5. entries' = IF Len(e) > StoreCap THEN Tail(e) ELSE e
    BY DEF Push
  <1>6. x.id = nextId
    OBVIOUS
  <1> HIDE DEF e, x
  <1>7. Tail(e) \in Seq(Stores) /\ Len(Tail(e)) = Len(e) - 1
        /\ \A i \in 1..Len(Tail(e)) : Tail(e)[i] = e[i + 1]
    BY <1>4, HeadTailProperties
  <1>8. entries' \in Seq(Stores) /\ Len(entries') <= StoreCap
    BY <1>3, <1>4, <1>5, <1>7
  <1>9. \A k \in 1..Len(e) : \/ \E j \in 1..Len(entries) : e[k] = entries[j]
                             \/ e[k].id = nextId
    <2>1. \A k \in 1..Len(e) : k \in 1..Len(entries) \/ k = Len(entries) + 1
      BY <1>3, <1>4
    <2> QED
      BY <1>4, <1>6, <2>1
  <1>10. \A i \in 1..Len(entries') : \E k \in 1..Len(e) : entries'[i] = e[k]
    <2>1. CASE Len(e) > StoreCap
      <3>1. \A i \in 1..Len(Tail(e)) : i + 1 \in 1..Len(e)
        BY <1>3, <1>4, <1>7
      <3> QED
        BY <1>5, <1>7, <2>1, <3>1
    <2>2. CASE ~(Len(e) > StoreCap)
      BY <1>5, <2>2
    <2> QED
      BY <2>1, <2>2
  <1>11. nextId' \in 1..(MaxAlerts + 1) /\ count' \in 0..MaxAlerts /\ nextId' <= count' + 1
    BY <1>1
  <1> QED
    BY <1>1, <1>8, <1>9, <1>10, <1>11

\* What a daemon answers names alerts that were pushed.
LEMMA AnswerType ==
  ASSUME PanelTypeOK, IdsCounted, NEW s \in Slots, Answer(s)
  PROVE  req' \in [Slots -> Requests]
  <1>1. req[s] \in Requests /\ req[s].after \in 0..MaxAlerts
    BY DEF PanelTypeOK, Requests
  <1>2. Since(req[s].after) \subseteq Alerts
    <2>1. \A j \in 1..Len(entries) : entries[j] \in [id : Alerts, n : Alerts]
      BY ElementOfSeq DEF PanelTypeOK
    <2> QED
      BY <2>1 DEF Since
  <1>3. nextId - 1 \in 0..MaxAlerts
    BY AlertPanelAssumption DEF PanelTypeOK
  <1>4. [at |-> "answered", after |-> req[s].after, alerts |-> Since(req[s].after),
         last |-> nextId - 1] \in Requests
    BY <1>1, <1>2, <1>3 DEF Requests
  <1> QED
    BY <1>4 DEF Answer, PanelTypeOK

\* A trouble counts against the bound once.
LEMMA MoreCounts ==
  ASSUME PanelTypeOK, MorePageTroubles,
         \/ clears' = clears + 1 /\ UNCHANGED <<restarts, requestFails>>
         \/ restarts' = restarts + 1 /\ UNCHANGED <<clears, requestFails>>
         \/ requestFails' = requestFails + 1 /\ UNCHANGED <<clears, restarts>>
  PROVE  {clears', restarts', requestFails', clears' + restarts' + requestFails'} \subseteq 0..MaxPageTroubles
  <1>1. clears \in Nat /\ restarts \in Nat /\ requestFails \in Nat /\ MaxPageTroubles \in Nat
    BY AlertPanelAssumption DEF PanelTypeOK
  <1>2. clears + restarts + requestFails < MaxPageTroubles
    BY DEF MorePageTroubles
  <1>3. clears' + restarts' + requestFails' \in 0..MaxPageTroubles /\ clears' \in 0..MaxPageTroubles
        /\ restarts' \in 0..MaxPageTroubles /\ requestFails' \in 0..MaxPageTroubles
    BY <1>1, <1>2
  <1> QED
    BY <1>3

\* A request may be dropped, or change where it stands and nothing else.
LEMMA RequestMoves ==
  ASSUME PanelTypeOK, NEW s \in Slots,
         \/ req' = [req EXCEPT ![s] = NoRequest]
         \/ req' = [req EXCEPT ![s].at = "redirected"]
         \/ req' = [req EXCEPT ![s].at = "answered"]
  PROVE  req' \in [Slots -> Requests]
  <1>1. req[s] \in Requests
    BY DEF PanelTypeOK
  <1>2. /\ [req[s] EXCEPT !.at = "redirected"] \in Requests
        /\ [req[s] EXCEPT !.at = "answered"] \in Requests
    BY <1>1 DEF Requests
  <1> QED
    BY <1>2, RequestTypes DEF PanelTypeOK

\* Every step keeps the types.
LEMMA PanelTypes ==
  ASSUME PanelTypeOK, IdsCounted, [PanelNext]_panelVars
  PROVE  PanelTypeOK' /\ IdsCounted'
  <1> USE AlertPanelAssumption
  <1>0. "load" \in Slots /\ "clear" \in Slots /\ Polls \subseteq Slots
    BY DEF Slots
  <1>1. CASE Push
    <2>1. /\ entries' \in Seq(Stores) /\ Len(entries') <= StoreCap
          /\ nextId' \in 1..(MaxAlerts + 1) /\ count' \in 0..MaxAlerts
          /\ nextId' <= count' + 1
      BY <1>1, PushStores
    <2>2. UNCHANGED <<session, lastAlertId, rows, ever, replaced, req,
                      clears, restarts, requestFails>>
      BY <1>1 DEF Push, pageVars, panelBounds
    <2> QED
      BY <2>1, <2>2 DEF PanelTypeOK, IdsCounted, Stores
  <1>2. CASE AnswerClear
    <2>1. req' \in [Slots -> Requests]
      BY <1>0, <1>2, RequestMoves DEF AnswerClear
    <2>2. <<>> \in Seq([id : Alerts, n : Alerts]) /\ Len(<<>>) = 0
      OBVIOUS
    <2> QED
      <3>1. entries' = <<>>
        BY <1>2 DEF AnswerClear
      <3>2. entries' \in Seq([id : Alerts, n : Alerts]) /\ Len(entries') <= StoreCap
        BY <2>2, <3>1
      <3>3. UNCHANGED <<nextId, count, session, lastAlertId, rows, ever, replaced,
                        clears, restarts, requestFails>>
        BY <1>2 DEF AnswerClear, pageVars, panelBounds
      <3> QED
        BY <2>1, <3>2, <3>3 DEF PanelTypeOK, IdsCounted
  <1>3. CASE Restart
    <2>1. req' \in [Slots -> Requests]
      BY <1>3, RequestTypes DEF Restart, PanelTypeOK
    <2>2. {clears', restarts', requestFails', clears' + restarts' + requestFails'} \subseteq 0..MaxPageTroubles
      BY <1>3, MoreCounts DEF Restart
    <2>3. <<>> \in Seq([id : Alerts, n : Alerts]) /\ Len(<<>>) = 0
      OBVIOUS
    <2>4. nextId' \in 1..(MaxAlerts + 1) /\ nextId' <= count' + 1 /\ count' \in 0..MaxAlerts
      BY <1>3 DEF Restart, PanelTypeOK
    <2>5. entries' \in Seq([id : Alerts, n : Alerts]) /\ Len(entries') <= StoreCap
      BY <1>3, <2>3 DEF Restart
    <2>6. /\ session' \in BOOLEAN /\ lastAlertId' \in 0..MaxAlerts
          /\ rows' \subseteq ever' /\ ever' \subseteq Alerts /\ replaced' \in BOOLEAN
      BY <1>3 DEF Restart, PanelTypeOK, pageVars
    <2> QED
      BY <2>1, <2>2, <2>4, <2>5, <2>6 DEF PanelTypeOK, IdsCounted
  <1>4. CASE LoadAnswered
    <2>1. req' \in [Slots -> Requests]
      BY <1>0, <1>4, RequestMoves DEF LoadAnswered
    <2>2. req["load"].last \in 0..MaxAlerts /\ req["load"].alerts \subseteq Alerts
      BY <1>0 DEF PanelTypeOK, Requests
    <2>3. rows' \subseteq Alerts
      BY <1>4, <2>2 DEF LoadAnswered, PanelTypeOK
    <2> QED
      BY <1>4, <2>1, <2>2, <2>3 DEF LoadAnswered, PanelTypeOK, IdsCounted, storeVars, panelBounds
  <1>5. CASE ClearAlerts
    <2>1. req' \in [Slots -> Requests]
      BY <1>0, <1>5, RequestTypes DEF ClearAlerts, PanelTypeOK
    <2>2. {clears', restarts', requestFails', clears' + restarts' + requestFails'} \subseteq 0..MaxPageTroubles
      BY <1>5, MoreCounts DEF ClearAlerts
    <2> QED
      BY <1>5, <2>1, <2>2 DEF ClearAlerts, PanelTypeOK, IdsCounted, storeVars, pageVars
  <1>6. CASE ClearAnswered
    <2>1. req' \in [Slots -> Requests]
      BY <1>0, <1>6, RequestMoves DEF ClearAnswered
    <2> QED
      BY <1>6, <2>1 DEF ClearAnswered, PanelTypeOK, IdsCounted, storeVars, panelBounds
  <1>7. CASE Login
    BY <1>7 DEF Login, PanelTypeOK, IdsCounted, storeVars, pageVars, panelBounds
  <1>8. ASSUME NEW s \in Slots, Redirect(s) \/ Ignored(s) PROVE PanelTypeOK' /\ IdsCounted'
    <2>1. req' \in [Slots -> Requests]
      BY <1>8, RequestMoves DEF Redirect, Ignored
    <2> QED
      BY <1>8, <2>1
      DEF Redirect, Ignored, PanelTypeOK, IdsCounted, storeVars, pageVars, panelBounds
  <1>9. ASSUME NEW s \in Slots, Answer(s) PROVE PanelTypeOK' /\ IdsCounted'
    BY <1>9, AnswerType DEF Answer, PanelTypeOK, IdsCounted, storeVars, pageVars, panelBounds
  <1>10. ASSUME NEW s \in Slots, PollTick(s) PROVE PanelTypeOK' /\ IdsCounted'
    <2>1. req' \in [Slots -> Requests]
      BY <1>10, RequestTypes DEF PollTick, PanelTypeOK
    <2> QED
      BY <1>10, <2>1 DEF PollTick, PanelTypeOK, IdsCounted, storeVars, pageVars, panelBounds
  <1>11. ASSUME NEW s \in Slots, PollAnswered(s) PROVE PanelTypeOK' /\ IdsCounted'
    <2>1. req' \in [Slots -> Requests]
      BY <1>11, RequestMoves DEF PollAnswered
    <2>2. req[s].last \in 0..MaxAlerts /\ req[s].alerts \subseteq Alerts
      BY DEF PanelTypeOK, Requests
    <2>3. lastAlertId' \in 0..MaxAlerts /\ rows' \subseteq ever' /\ ever' \subseteq Alerts
          /\ replaced' = replaced
      BY <1>11, <2>2 DEF PollAnswered, pageVars, PanelTypeOK
    <2> QED
      BY <1>11, <2>1, <2>3 DEF PollAnswered, PanelTypeOK, IdsCounted, storeVars, panelBounds
  <1>12. ASSUME NEW s \in Slots, Fail(s) PROVE PanelTypeOK' /\ IdsCounted'
    <2>1. req' \in [Slots -> Requests]
      BY <1>12, RequestMoves DEF Fail
    <2>2. {clears', restarts', requestFails', clears' + restarts' + requestFails'} \subseteq 0..MaxPageTroubles
      BY <1>12, MoreCounts DEF Fail
    <2> QED
      BY <1>12, <2>1, <2>2 DEF Fail, PanelTypeOK, IdsCounted, storeVars, pageVars
  <1>13. CASE UNCHANGED panelVars
    BY <1>13 DEF panelVars, PanelTypeOK, IdsCounted, storeVars, pageVars, panelBounds
  <1> QED
    BY <1>1, <1>2, <1>3, <1>4, <1>5, <1>6, <1>7, <1>8, <1>9, <1>10, <1>11, <1>12, <1>13
    DEF PanelNext

-----------------------------------------------------------------------------
(* The first load and CLEAR ALL.                                           *)

\* Nothing sends the first load again, and CLEAR ALL counts before it is sent.
LEMMA StepOnce ==
  ASSUME PanelTypeOK, LoadOnce, ClearUsed, [PanelNext]_panelVars
  PROVE  LoadOnce' /\ ClearUsed'
  <1>1. "load" \in Slots /\ "clear" \in Slots /\ "load" \notin Polls /\ "clear" \notin Polls
        /\ req \in [Slots -> Requests] /\ "load" # "clear" /\ clears \in Nat
        /\ NoRequest.after = 0 /\ NoRequest.at = "idle"
        /\ req["load"] \in Requests /\ req["clear"] \in Requests
    BY AlertPanelAssumption DEF Slots, PanelTypeOK, NoRequest
  <1>2. CASE Push \/ Login \/ UNCHANGED panelVars
    BY <1>2 DEF Push, Login, panelVars, pageVars, panelBounds, storeVars, LoadOnce, ClearUsed
  <1>3. CASE AnswerClear
    <2>1. req'["load"] = req["load"] /\ req["clear"].at # "idle"
          /\ UNCHANGED <<clears, replaced>>
      BY <1>1, <1>3 DEF AnswerClear, panelBounds, pageVars
    <2> QED
      BY <2>1 DEF LoadOnce, ClearUsed
  <1>4. CASE Restart
    <2>1. /\ req'["load"] \in {NoRequest, req["load"]} /\ req'["clear"] \in {NoRequest, req["clear"]}
          /\ UNCHANGED <<clears, replaced>>
      BY <1>1, <1>4 DEF Restart, pageVars
    <2> QED
      BY <1>1, <2>1 DEF LoadOnce, ClearUsed
  <1>5. CASE LoadAnswered
    <2>1. req'["load"] = NoRequest /\ req'["clear"] = req["clear"] /\ clears' = clears
      BY <1>1, <1>5 DEF LoadAnswered, panelBounds
    <2> QED
      BY <1>1, <2>1 DEF LoadOnce, ClearUsed
  <1>6. CASE ClearAlerts
    <2>1. req'["load"] = req["load"] /\ clears' = clears + 1 /\ replaced' = replaced
      BY <1>1, <1>6 DEF ClearAlerts, pageVars
    <2> QED
      BY <1>1, <2>1 DEF LoadOnce, ClearUsed
  <1>7. CASE ClearAnswered
    <2>1. req'["load"] = req["load"] /\ req'["clear"] = NoRequest /\ UNCHANGED <<clears, replaced>>
      BY <1>1, <1>7 DEF ClearAnswered, panelBounds
    <2> QED
      BY <1>1, <2>1 DEF LoadOnce, ClearUsed
  <1>8. ASSUME NEW s \in Slots, Redirect(s) \/ Answer(s) \/ Ignored(s) \/ Fail(s)
        PROVE  LoadOnce' /\ ClearUsed'
    <2>1. /\ req'["load"].after \in {0, req["load"].after}
          /\ req'["load"].at # "idle" => req["load"].at # "idle"
          /\ req'["clear"].at # "idle" => req["clear"].at # "idle"
          /\ UNCHANGED <<clears, replaced>>
      <3>1. CASE Redirect(s)
        BY <1>1, <3>1 DEF Redirect, Requests, pageVars, panelBounds
      <3>2. CASE Answer(s)
        BY <1>1, <3>2 DEF Answer, Requests, pageVars, panelBounds
      <3>3. CASE Ignored(s) \/ Fail(s)
        BY <1>1, <3>3 DEF Ignored, Fail, pageVars, panelBounds
      <3> QED
        BY <1>8, <3>1, <3>2, <3>3
    <2> QED
      BY <2>1 DEF LoadOnce, ClearUsed
  <1>9. ASSUME NEW s \in Slots, PollTick(s) \/ PollAnswered(s)
        PROVE  LoadOnce' /\ ClearUsed'
    <2>1. /\ req'["load"] = req["load"] /\ req'["clear"] = req["clear"]
          /\ UNCHANGED <<clears, replaced>>
      BY <1>1, <1>9 DEF PollTick, PollAnswered, pageVars, panelBounds
    <2> QED
      BY <2>1 DEF LoadOnce, ClearUsed
  <1> QED
    BY <1>2, <1>3, <1>4, <1>5, <1>6, <1>7, <1>8, <1>9 DEF PanelNext

-----------------------------------------------------------------------------
(* The panel.                                                              *)

\* What is stored under an id the page has passed is none of the new ones, so
\* it was stored before.
OldOrNew == \A i \in 1..Len(entries') :
              \/ \E j \in 1..Len(entries) : entries'[i] = entries[j]
              \/ entries'[i].id = nextId

\* What was ever shown was, and a row goes only with CLEAR ALL or a late first
\* load.
Keeps == /\ ever \subseteq ever'
         /\ clears' = 0 /\ ~replaced' => clears = 0 /\ ~replaced /\ rows \subseteq rows'

\* A panel complete up to an id stays so while it keeps what it shows.
LEMMA ShownStays ==
  ASSUME OldOrNew, Keeps, NEW k, k < nextId, ShownUpTo(k),
         nextId \in Int, k \in Int
  PROVE  \A i \in 1..Len(entries') : entries'[i].id <= k =>
           /\ entries'[i].n \in ever'
           /\ clears' = 0 /\ ~replaced' => entries'[i].n \in rows'
  <1> SUFFICES ASSUME NEW i \in 1..Len(entries'), entries'[i].id <= k
               PROVE  /\ entries'[i].n \in ever'
                      /\ clears' = 0 /\ ~replaced' => entries'[i].n \in rows'
    OBVIOUS
  <1>1. entries'[i].id # nextId
    OBVIOUS
  <1>2. PICK j \in 1..Len(entries) : entries'[i] = entries[j]
    BY <1>1 DEF OldOrNew
  <1> QED
    BY <1>2 DEF ShownUpTo, Keeps

\* A request that a step leaves as it is goes on without a gap.
LEMMA ContinuesStays ==
  ASSUME PanelTypeOK, OldOrNew, Keeps, CursorsBehind, NEW s \in Slots, Continues(s),
         \/ req'[s] = req[s]
         \/ req'[s].at \in {"idle", "redirected"}
  PROVE  Continues(s)'
  <1>1. CASE req'[s].at \in {"idle", "redirected"}
    BY <1>1 DEF Continues
  <1>2. CASE req'[s] = req[s]
    <2>1. /\ req[s].after \in Int /\ req[s].last \in Int /\ nextId \in Int
          /\ req[s].after < nextId /\ req[s].last < nextId
      BY AlertPanelAssumption DEF PanelTypeOK, Requests, CursorsBehind
    <2>2. ASSUME req'[s].at \in {"sent", "answered"} PROVE ShownUpTo(req[s].after)'
      BY <1>2, <2>1, <2>2, ShownStays DEF Continues, ShownUpTo
    <2>3. ASSUME req'[s].at = "answered" PROVE Carries(s)'
      <3>1. Carries(s)
        BY <1>2, <2>3 DEF Continues
      <3>2. ASSUME NEW i \in 1..Len(entries'), req[s].after < entries'[i].id,
                   entries'[i].id <= req[s].last
            PROVE  entries'[i].n \in req[s].alerts
        <4>1. entries'[i].id # nextId
          BY <2>1, <3>2
        <4>2. PICK j \in 1..Len(entries) : entries'[i] = entries[j]
          BY <4>1 DEF OldOrNew
        <4> QED
          BY <3>1, <3>2, <4>2 DEF Carries
      <3> QED
        BY <1>2, <3>2 DEF Carries
    <2> QED
      BY <1>2, <2>2, <2>3 DEF Continues
  <1> QED
    BY <1>1, <1>2

\* No id is passed before it is given.
LEMMA StepCursors ==
  ASSUME PanelTypeOK, CursorsBehind, [PanelNext]_panelVars, ~Restart
  PROVE  CursorsBehind'
  <1>1. nextId \in Nat \ {0} /\ nextId' \in {nextId, nextId + 1}
        /\ lastAlertId \in Int
        /\ \A s \in Slots : req[s] \in Requests
    <2>1. nextId \in Nat \ {0} /\ lastAlertId \in Int /\ \A s \in Slots : req[s] \in Requests
      <3>1. /\ nextId \in 1..(MaxAlerts + 1) /\ lastAlertId \in 0..MaxAlerts
            /\ req \in [Slots -> Requests]
        BY DEF PanelTypeOK
      <3>2. MaxAlerts \in Nat
        BY AlertPanelAssumption
      <3> QED
        BY <3>1, <3>2
    <2>2. nextId' = nextId \/ nextId' = nextId + 1
      <3>1. CASE Push
        BY <3>1 DEF Push
      <3>2. CASE AnswerClear \/ LoadAnswered \/ ClearAlerts \/ ClearAnswered \/ Login
        BY <3>2 DEF AnswerClear, LoadAnswered, ClearAlerts, ClearAnswered, Login, storeVars
      <3>3. ASSUME NEW s \in Slots,
                   \/ Redirect(s) \/ Answer(s) \/ Ignored(s)
                   \/ PollTick(s) \/ PollAnswered(s) \/ Fail(s)
            PROVE  nextId' = nextId
        BY <3>3 DEF Redirect, Answer, Ignored, PollTick, PollAnswered, Fail, storeVars
      <3>4. CASE UNCHANGED panelVars
        BY <3>4 DEF panelVars, storeVars
      <3> QED
        BY <3>1, <3>2, <3>3, <3>4 DEF PanelNext
    <2> QED
      BY <2>1, <2>2
  <1>2. \A s \in Slots : req[s].after \in Int /\ req[s].last \in Int
    BY <1>1, AlertPanelAssumption DEF Requests
  <1>3. \/ lastAlertId' = lastAlertId
        \/ \E s \in Slots : lastAlertId' = req[s].last
    BY DEF PanelNext, Push, AnswerClear, LoadAnswered, ClearAlerts, ClearAnswered, Login, Slots,
           Redirect, Answer, PollTick, PollAnswered, Ignored, Fail, panelVars, pageVars
  <1>4. lastAlertId' < nextId'
    BY <1>1, <1>2, <1>3 DEF CursorsBehind
  <1>5. NoRequest.after = 0 /\ NoRequest.last = 0 /\ \A a : Sent(a).after = a /\ Sent(a).last = 0
    BY SentIs DEF NoRequest
  <1>6. ASSUME NEW s \in Slots
        PROVE  /\ req'[s].after \in {0, lastAlertId, req[s].after}
               /\ req'[s].last \in {0, nextId - 1, req[s].last}
    <2>1. \/ req'[s] \in {req[s], NoRequest, Sent(0), Sent(lastAlertId)}
          \/ req'[s] = [req[s] EXCEPT !.at = "redirected"]
          \/ req'[s] = [req[s] EXCEPT !.at = "answered"]
          \/ req'[s] = [at |-> "answered", after |-> req[s].after,
                        alerts |-> Since(req[s].after), last |-> nextId - 1]
      <3>1. DOMAIN req = Slots
        BY DEF PanelTypeOK
      <3>2. CASE Push \/ Login \/ UNCHANGED panelVars
        BY <3>2 DEF Push, Login, panelVars
      <3>3. CASE AnswerClear \/ LoadAnswered \/ ClearAlerts \/ ClearAnswered
        BY <3>1, <3>3 DEF AnswerClear, LoadAnswered, ClearAlerts, ClearAnswered
      <3>4. CASE \E o \in Slots : Redirect(o) \/ Answer(o) \/ Ignored(o)
        BY <3>1, <3>4 DEF Redirect, Answer, Ignored
      <3>5. CASE \E o \in Slots : PollTick(o) \/ PollAnswered(o) \/ Fail(o)
        BY <3>1, <3>5 DEF PollTick, PollAnswered, Fail
      <3> QED
        BY <3>2, <3>3, <3>4, <3>5 DEF PanelNext
    <2> QED
      BY <1>1, <1>5, <2>1 DEF Requests
  <1>7. ASSUME NEW s \in Slots PROVE req'[s].after < nextId' /\ req'[s].last < nextId'
    BY <1>1, <1>2, <1>6 DEF CursorsBehind
  <1> QED
    BY <1>4, <1>7 DEF CursorsBehind

\* A step that moves no answer to the panel: everything goes on as it was.
LEMMA QuietStep ==
  ASSUME PanelInv, Complete, OldOrNew, Keeps, UNCHANGED lastAlertId, CursorsBehind',
         \A s \in Slots \ {"clear"} :
           req'[s] = req[s] \/ req'[s].at \in {"idle", "redirected"}
  PROVE  Complete'
  <1>1. lastAlertId < nextId /\ lastAlertId \in Int /\ nextId \in Int
    BY AlertPanelAssumption DEF Complete, CursorsBehind, PanelInv, PanelTypeOK
  <1>2. ShownUpTo(lastAlertId)'
    BY <1>1, ShownStays DEF Complete, ShownUpTo
  <1>3. \A s \in Slots \ {"clear"} : Continues(s)'
    BY ContinuesStays DEF Complete, PanelInv
  <1> QED
    BY <1>2, <1>3 DEF Complete

\* The steps of the daemon and of the user move no answer to the panel.
LEMMA StoreSteps ==
  ASSUME PanelInv, Complete, CursorsBehind',
         Push \/ AnswerClear \/ ClearAlerts \/ ClearAnswered \/ Login
  PROVE  Complete'
  <1>1. req \in [Slots -> Requests] /\ "clear" \in Slots
    BY DEF PanelInv, PanelTypeOK, Slots
  <1>2. OldOrNew
    <2>1. CASE Push
      BY <2>1, PushStores DEF OldOrNew, PanelInv
    <2>2. CASE AnswerClear
      BY <2>2 DEF AnswerClear, OldOrNew
    <2>3. CASE UNCHANGED entries
      BY <2>3 DEF OldOrNew
    <2> QED
      BY <2>1, <2>2, <2>3 DEF ClearAlerts, ClearAnswered, Login, storeVars
  <1>3. Keeps
    <2>1. CASE Push \/ AnswerClear \/ Login
      BY <2>1 DEF Push, AnswerClear, Login, Keeps, pageVars, panelBounds
    <2>2. CASE ClearAlerts
      BY <2>2 DEF ClearAlerts, Keeps, pageVars, PanelInv, PanelTypeOK
    <2>3. CASE ClearAnswered
      <3>1. clears' = clears /\ clears # 0 /\ ever' = ever
        BY <2>3 DEF ClearAnswered, panelBounds, PanelInv, ClearUsed, PanelTypeOK
      <3> QED
        BY <3>1 DEF Keeps
    <2> QED
      BY <2>1, <2>2, <2>3
  <1>4. \A s \in Slots \ {"clear"} : req'[s] = req[s]
    BY <1>1 DEF Push, AnswerClear, ClearAlerts, ClearAnswered, Login
  <1>5. UNCHANGED lastAlertId
    BY DEF Push, AnswerClear, ClearAlerts, ClearAnswered, Login, pageVars
  <1> QED
    BY <1>2, <1>3, <1>4, <1>5, QuietStep

\* A request that fails, is redirected or is ignored leaves the panel as it was.
LEMMA LostRequest ==
  ASSUME PanelInv, Complete, CursorsBehind',
         NEW s \in Slots, Redirect(s) \/ Ignored(s) \/ Fail(s)
  PROVE  Complete'
  <1>1. req \in [Slots -> Requests] /\ NoRequest.at = "idle"
    BY DEF PanelInv, PanelTypeOK, NoRequest
  <1>2. OldOrNew
    BY DEF Redirect, Ignored, Fail, storeVars, OldOrNew
  <1>3. Keeps
    BY DEF Redirect, Ignored, Fail, pageVars, panelBounds, Keeps
  <1>4. \A r \in Slots : req'[r] = req[r] \/ req'[r].at \in {"idle", "redirected"}
    <2>1. [req[s] EXCEPT !.at = "redirected"].at = "redirected"
      BY <1>1 DEF Requests
    <2> QED
      BY <1>1, <2>1 DEF Redirect, Ignored, Fail
  <1>5. UNCHANGED lastAlertId
    BY DEF Redirect, Ignored, Fail, pageVars
  <1> QED
    BY <1>2, <1>3, <1>4, <1>5, QuietStep

\* An answer carries what is stored behind the request's cursor, all of it.
LEMMA AnswerStep ==
  ASSUME PanelInv, Complete, CursorsBehind', NEW s \in Slots, Answer(s)
  PROVE  Complete'
  <1>1. /\ req \in [Slots -> Requests] /\ s # "clear" /\ req[s].at = "sent"
        /\ UNCHANGED <<storeVars, pageVars, clears>>
    BY DEF PanelInv, PanelTypeOK, Answer, panelBounds
  <1>2. OldOrNew /\ Keeps
    BY <1>1 DEF storeVars, pageVars, OldOrNew, Keeps
  <1>3. /\ req'[s].at = "answered" /\ req'[s].after = req[s].after
        /\ req'[s].alerts = Since(req[s].after)
        /\ \A r \in Slots \ {s} : req'[r] = req[r]
    BY <1>1 DEF Answer
  <1>4. Continues(s)'
    <2>1. ShownUpTo(req[s].after)
      BY <1>1 DEF Complete, Continues
    <2>2. ShownUpTo(req[s].after)'
      BY <1>1, <1>3, <2>1 DEF ShownUpTo, storeVars, pageVars
    <2>3. Carries(s)'
      BY <1>1, <1>3 DEF Carries, Since, storeVars
    <2> QED
      BY <2>2, <2>3 DEF Continues
  <1>5. \A r \in Slots \ {"clear"} : r # s => Continues(r)'
    BY <1>2, <1>3, ContinuesStays DEF Complete, PanelInv
  <1>6. ShownUpTo(lastAlertId)'
    BY <1>1 DEF Complete, ShownUpTo, storeVars, pageVars
  <1> QED
    BY <1>4, <1>5, <1>6 DEF Complete

\* A poll starts at the page's cursor, up to which the panel is complete.
LEMMA PollStep ==
  ASSUME PanelInv, Complete, CursorsBehind', NEW s \in Slots, PollTick(s)
  PROVE  Complete'
  <1>1. /\ req \in [Slots -> Requests] /\ req'[s] = Sent(lastAlertId)
        /\ \A r \in Slots \ {s} : req'[r] = req[r]
        /\ UNCHANGED <<storeVars, pageVars, clears>>
    BY DEF PanelInv, PanelTypeOK, PollTick, panelBounds
  <1>2. OldOrNew /\ Keeps
    BY <1>1 DEF storeVars, pageVars, OldOrNew, Keeps
  <1>3. ShownUpTo(lastAlertId)'
    BY <1>1 DEF Complete, ShownUpTo, storeVars, pageVars
  <1>4. Continues(s)'
    <2>1. req'[s].at = "sent" /\ req'[s].after = lastAlertId /\ lastAlertId' = lastAlertId
      BY <1>1, SentIs DEF pageVars
    <2> QED
      BY <1>3, <2>1 DEF Continues, ShownUpTo
  <1>5. \A r \in Slots \ {"clear"} : r # s => Continues(r)'
    BY <1>1, <1>2, ContinuesStays DEF Complete, PanelInv
  <1> QED
    BY <1>3, <1>4, <1>5 DEF Complete

\* The cursor an answer brings is one up to which the panel is complete with
\* what the answer brings.
LEMMA AnswerCompletes ==
  ASSUME PanelInv, Complete, NEW s \in Slots \ {"clear"}, req[s].at = "answered",
         NEW i \in 1..Len(entries), entries[i].id <= req[s].last
  PROVE  \/ /\ entries[i].n \in ever
            /\ clears = 0 /\ ~replaced => entries[i].n \in rows
         \/ entries[i].n \in req[s].alerts
  <1>1. entries[i].id \in Int /\ req[s].after \in Int
    <2>1. entries[i] \in [id : Alerts, n : Alerts] /\ req[s] \in Requests
      BY ElementOfSeq DEF PanelInv, PanelTypeOK
    <2> QED
      BY <2>1, AlertPanelAssumption DEF Requests, Alerts
  <1>2. ShownUpTo(req[s].after) /\ Carries(s)
    BY DEF Complete, Continues
  <1>3. CASE entries[i].id <= req[s].after
    BY <1>2, <1>3 DEF ShownUpTo
  <1>4. CASE req[s].after < entries[i].id
    BY <1>2, <1>4 DEF Carries
  <1> QED
    BY <1>1, <1>3, <1>4

\* The answer to a poll is added to the panel.
LEMMA PollAnsweredStep ==
  ASSUME PanelInv, Complete, CursorsBehind', NEW s \in Slots, PollAnswered(s)
  PROVE  Complete'
  <1>1. /\ req \in [Slots -> Requests] /\ s \in Slots \ {"clear"} /\ req[s].at = "answered"
        /\ req'[s] = NoRequest /\ NoRequest.at = "idle"
        /\ \A r \in Slots \ {s} : req'[r] = req[r]
        /\ UNCHANGED <<storeVars, clears>>
    BY AlertPanelAssumption DEF PanelInv, PanelTypeOK, PollAnswered, panelBounds, NoRequest
  <1>2. OldOrNew
    BY <1>1 DEF storeVars, OldOrNew
  <1>3. /\ replaced' = replaced /\ rows \subseteq rows' /\ ever \subseteq ever'
    BY DEF PollAnswered, pageVars
  <1>4. Keeps
    BY <1>1, <1>3 DEF Keeps
  <1>5. CASE req[s].alerts = {}
    <2>1. UNCHANGED lastAlertId
      BY <1>5 DEF PollAnswered, pageVars
    <2> QED
      BY <1>1, <1>2, <1>4, <2>1, QuietStep
  <1>6. CASE req[s].alerts # {}
    <2>1. /\ lastAlertId' = req[s].last /\ rows' = rows \cup req[s].alerts
          /\ ever' = ever \cup rows'
      BY <1>6 DEF PollAnswered
    <2>2. ShownUpTo(lastAlertId)'
      <3>1. ASSUME NEW i \in 1..Len(entries), entries[i].id <= req[s].last
            PROVE  /\ entries[i].n \in ever'
                   /\ clears' = 0 /\ ~replaced' => entries[i].n \in rows'
        <4>1. \/ /\ entries[i].n \in ever
                 /\ clears = 0 /\ ~replaced => entries[i].n \in rows
              \/ entries[i].n \in req[s].alerts
          BY <1>1, <3>1, AnswerCompletes
        <4> QED
          BY <1>1, <1>3, <2>1, <4>1
      <3> QED
        BY <1>1, <2>1, <3>1 DEF ShownUpTo, storeVars
    <2>3. \A r \in Slots \ {"clear"} : Continues(r)'
      BY <1>1, <1>2, <1>4, ContinuesStays DEF Complete, PanelInv
    <2> QED
      BY <2>2, <2>3 DEF Complete
  <1> QED
    BY <1>5, <1>6

\* The answer to the first load takes the place of what is on the panel: with
\* nothing there nothing was complete up to an id that is stored.
LEMMA LoadStep ==
  ASSUME PanelInv, Complete, CursorsBehind', LoadAnswered
  PROVE  Complete'
  <1>1. /\ req \in [Slots -> Requests] /\ "load" \in Slots \ {"clear"}
        /\ req["load"].at = "answered" /\ req'["load"] = NoRequest /\ NoRequest.at = "idle"
        /\ \A r \in Slots \ {"load"} : req'[r] = req[r]
        /\ UNCHANGED <<storeVars, clears>>
        /\ lastAlertId' = req["load"].last
        /\ rows' = (IF req["load"].alerts = {} THEN rows ELSE req["load"].alerts)
        /\ ever' = ever \cup rows' /\ replaced' = (rows # {})
        /\ ~replaced
    BY DEF PanelInv, PanelTypeOK, LoadAnswered, panelBounds, NoRequest, Slots, LoadOnce
  <1>2. OldOrNew
    BY <1>1 DEF storeVars, OldOrNew
  <1>3. Keeps
    BY <1>1 DEF Keeps
  <1>4. req["load"].after = 0 /\ \A i \in 1..Len(entries) : entries[i].id > 0
    <2>1. \A i \in 1..Len(entries) : entries[i] \in [id : Alerts, n : Alerts]
      BY ElementOfSeq DEF PanelInv, PanelTypeOK
    <2> QED
      BY <2>1, AlertPanelAssumption DEF Alerts, PanelInv, LoadOnce
  <1>5. \A i \in 1..Len(entries) : entries[i].id <= req["load"].last =>
          entries[i].n \in req["load"].alerts
    BY <1>1, <1>4 DEF Complete, Continues, Carries
  <1>6. ShownUpTo(lastAlertId)'
    <2>1. ASSUME NEW i \in 1..Len(entries), entries[i].id <= req["load"].last
          PROVE  entries[i].n \in rows' /\ entries[i].n \in ever'
      BY <1>1, <1>5, <2>1
    <2> QED
      BY <1>1, <2>1 DEF ShownUpTo, storeVars
  <1>7. \A r \in Slots \ {"clear"} : Continues(r)'
    BY <1>1, <1>2, <1>3, ContinuesStays DEF Complete, PanelInv
  <1> QED
    BY <1>6, <1>7 DEF Complete

\* While the daemon has not been restarted every step keeps the panel complete.
LEMMA StepComplete ==
  ASSUME PanelInv, [PanelNext]_panelVars, restarts' = 0
  PROVE  Complete'
  <1>1. restarts = 0 /\ ~Restart
    <2>1. restarts \in Nat
      BY AlertPanelAssumption DEF PanelInv, PanelTypeOK
    <2>2. ~Restart
      BY <2>1 DEF Restart
    <2> QED
      BY <2>2 DEF PanelNext, Push, AnswerClear, LoadAnswered, ClearAlerts, ClearAnswered, Login,
                  Redirect, Answer, PollTick, PollAnswered, Ignored, Fail, panelVars, panelBounds
  <1>2. Complete
    BY <1>1 DEF PanelInv
  <1>3. CursorsBehind'
    BY <1>1, <1>2, StepCursors DEF Complete, PanelInv
  <1>4. CASE UNCHANGED panelVars
    <2>1. UNCHANGED <<entries, lastAlertId, rows, ever, replaced, req, clears>>
      BY <1>4 DEF panelVars, storeVars, pageVars, panelBounds
    <2>2. OldOrNew /\ Keeps
      BY <2>1 DEF OldOrNew, Keeps
    <2> QED
      BY <1>2, <1>3, <2>1, <2>2, QuietStep
  <1> QED
    BY <1>1, <1>2, <1>3, <1>4, StoreSteps, LostRequest, AnswerStep, PollStep,
       PollAnsweredStep, LoadStep DEF PanelNext

-----------------------------------------------------------------------------
\* The inductive invariant holds in every reachable state.
LEMMA PanelInvHolds == PanelSpec => []PanelInv
  <1>0. PanelInit => PanelInv
    BY InitPanelInv
  <1>1. PanelInv /\ [PanelNext]_panelVars => PanelInv'
    <2> SUFFICES ASSUME PanelInv, [PanelNext]_panelVars PROVE PanelInv'
      OBVIOUS
    <2>1. PanelTypeOK' /\ IdsCounted'
      BY PanelTypes DEF PanelInv
    <2>2. LoadOnce' /\ ClearUsed'
      BY StepOnce DEF PanelInv
    <2>3. restarts' = 0 => Complete'
      BY StepComplete
    <2> QED
      BY <2>1, <2>2, <2>3 DEF PanelInv
  <1> QED
    BY <1>0, <1>1, PTL DEF PanelSpec

\* The store, the page and its requests are always well typed
\* (PanelTypeOK): above all the store keeps to its capacity, and ids and
\* cursors stay within the alerts pushed although a restart begins them anew.
THEOREM Alerts_TypeCorrect == PanelSpec => []PanelTypeOK
  <1>1. PanelInv => PanelTypeOK
    BY DEF PanelInv
  <1> QED
    BY PanelInvHolds, <1>1, PTL

\* Until the daemon is restarted the panel has shown every stored alert up to
\* the page's cursor, however polls overlap, are reordered or fail.
THEOREM Panel_Complete == PanelSpec => []PanelComplete
  <1>1. PanelInv => PanelComplete
    BY DEF PanelInv, Complete, ShownUpTo, PanelComplete
  <1> QED
    BY PanelInvHolds, <1>1, PTL
=============================================================================
