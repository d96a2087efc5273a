------------------------------ MODULE Firewall ------------------------------
(***************************************************************************)
(* The network firewall: firewall.json (firewall_config.rs), the handler   *)
(* that edits it (web_ui.rs), apply and refresh_allowlist                  *)
(* (network_firewall.rs), which run one external command after the other,  *)
(* and the resolver thread (main.rs) that refreshes the allowlist too.     *)
(* The kernel's chains and sets outlive the daemon; nothing takes turns.   *)
(*                                                                         *)
(* The IN chain gets the same commands as the OUT chain and is not         *)
(* modelled; hosts stand for the addresses they resolve to.                *)
(***************************************************************************)
EXTENDS Integers, Sequences, FiniteSets

CONSTANTS
  Editors,     \* requests to /api/firewall that may be handled at once
  Boot,        \* async_main, which loads and applies before all else starts
  Resolver,    \* the resolver thread
  Hosts,
  Configs,     \* the configurations an editor may send
  MaxEdits,    \* bound: edits
  MaxTroubles  \* bound: commands, writes and look-ups that fail, and ends of
               \* the daemon, together

Modes   == {"off", "blacklist", "whitelist"}
AllConfigs == [mode : Modes, hosts : SUBSET Hosts, rules : BOOLEAN]
\* FirewallConfig::default, also what a file that does not parse is read as.
Default == [mode |-> "off", hosts |-> {}, rules |-> FALSE]

ASSUME FirewallAssumption ==
  /\ IsFiniteSet(Editors)
  /\ Boot \notin Editors /\ Resolver \notin Editors \cup {Boot}
  /\ Configs \subseteq AllConfigs
  /\ {MaxEdits, MaxTroubles} \subseteq Nat

Appliers == Editors \cup {Boot}
Workers  == Appliers \cup {Resolver}
\* What the file holds between its truncation and the write.
Torn     == [Default EXCEPT !.mode = "torn"]
NoSet    == [made |-> FALSE, ips |-> {}]
SetOf(s) == [made |-> TRUE, ips |-> s]

VARIABLES
  file,      \* firewall.json: a configuration, or Torn
  config,    \* SharedFirewallConfig
  work,      \* each worker's next step, the configuration it works on, the
             \* addresses it has still to add, and whether it is an edit that
             \* no other overlapped
  jumps,     \* rules in OUTPUT that jump to the chain
  drops6,    \* rules in OUTPUT of ip6tables that drop the agent's traffic
  chain,     \* PROTECTOR-FW-OUT
  allow,     \* the ipset protector-allow
  tmp,       \* the ipset protector-allow-tmp
  flawed,    \* since the last edit or start: a command failed, or edits overlapped
  overlaps,  \* edits that began while another was under way
  edits, fails, crashes

kernelVars == <<jumps, drops6, chain>>
setVars    == <<allow, tmp>>
boundVars  == <<edits, crashes>>
faultVars  == <<fails, flawed>>
vars == <<file, config, work, kernelVars, setVars, overlaps, boundVars, faultVars>>

ApplySteps   == {"unjump", "unv6", "flush", "jump", "base", "v6", "policy"}
RefreshSteps == {"create", "clear", "add", "swap", "destroy"}
Steps == {"idle", "load", "write", "publish"} \cup ApplySteps \cup RefreshSteps

Idle == [at |-> "idle", cfg |-> Default, ips |-> {}, alone |-> FALSE]
\* A rule of the chain, and the configuration it was made from: its hosts are
\* in the ipset, not in the rule.
Entry(part, c) == [part |-> part, from |-> [c EXCEPT !.hosts = {}]]
Entries == [part : {"base", "match", "rules", "default"}, from : AllConfigs]

TypeOK ==
  /\ file \in AllConfigs \cup {Torn}
  /\ config \in AllConfigs
  /\ work \in [Workers -> [at : Steps, cfg : AllConfigs, ips : SUBSET Hosts,
                           alone : BOOLEAN]]
  /\ work[Resolver].at \in {"idle"} \cup RefreshSteps
  /\ {jumps, drops6, overlaps} \subseteq Nat
  /\ chain \in Seq(Entries)
  /\ allow \subseteq Hosts
  /\ tmp \in [made : BOOLEAN, ips : SUBSET Hosts]
  /\ flawed \in BOOLEAN
  /\ edits \in 0..MaxEdits
  /\ {fails, crashes, fails + crashes} \subseteq 0..MaxTroubles

Init ==
  /\ file = Default /\ config = Default
  /\ work = [w \in Workers |-> IF w = Boot THEN [Idle EXCEPT !.at = "load"] ELSE Idle]
  /\ jumps = 0 /\ drops6 = 0 /\ chain = <<>>
  /\ allow = {} /\ tmp = NoSet
  /\ flawed = FALSE /\ overlaps = 0
  /\ edits = 0 /\ fails = 0 /\ crashes = 0

At(w, step)   == work[w].at = step
Goto(w, step) ==
  work' = [work EXCEPT ![w] = IF step = "idle" THEN Idle ELSE [@ EXCEPT !.at = step]]
Busy(e)  == ~At(e, "idle")
Settled  == \A w \in Appliers : At(w, "idle")
Serving  == At(Boot, "idle")
Filters(c) == c.mode = "whitelist" /\ c.hosts # {}

More == fails + crashes < MaxTroubles

\* A command that exits with an error, a failed write.
Failing == More /\ fails' = fails + 1 /\ flawed' = TRUE
NoFault == UNCHANGED faultVars

-----------------------------------------------------------------------------
(* set_firewall: save, publish, apply.  A start: load, apply.              *)

\* File::create truncates the file.  Editors overlap when their requests do.
Save(e, c) ==
  /\ Serving /\ At(e, "idle") /\ edits < MaxEdits
  /\ edits' = edits + 1
  /\ file' = Torn
  /\ LET others == {o \in Editors \ {e} : Busy(o)}
     IN  /\ work' = [w \in Workers |->
               IF w = e THEN [Idle EXCEPT !.at = "write", !.cfg = c, !.alone = (others = {})]
               ELSE [work[w] EXCEPT !.alone = FALSE]]
         /\ flawed' = (flawed \/ others # {})
         /\ overlaps' = overlaps + Cardinality(others)
  /\ UNCHANGED <<config, kernelVars, setVars, fails, crashes>>

\* An error is answered with 500, and the file stays as the failure left it.
Write(e) ==
  /\ At(e, "write")
  /\ \/ file' = work[e].cfg /\ Goto(e, "publish") /\ NoFault
     \/ Goto(e, "idle") /\ Failing /\ UNCHANGED file
  /\ UNCHANGED <<config, kernelVars, setVars, overlaps, boundVars>>

Publish(e) ==
  /\ At(e, "publish")
  /\ config' = work[e].cfg
  /\ flawed' = ~work[e].alone
  /\ work' = [work EXCEPT ![e].at = "unjump", ![e].alone = FALSE]
  /\ UNCHANGED <<file, kernelVars, setVars, overlaps, boundVars, fails>>

\* FirewallConfig::load_or_default.
Load ==
  /\ At(Boot, "load")
  /\ config' = IF file = Torn THEN Default ELSE file
  /\ flawed' = FALSE
  /\ work' = [work EXCEPT ![Boot].at = "unjump", ![Boot].cfg = config']
  /\ UNCHANGED <<file, kernelVars, setVars, overlaps, boundVars, fails>>

-----------------------------------------------------------------------------
(* apply, command by command.                                              *)

DeleteUnchecked(w, step, next, n) ==
  /\ At(w, step) /\ Goto(w, next)
  /\ \/ n' = n - 1 /\ NoFault
     \/ n > 0 /\ Failing /\ UNCHANGED n

\* iptables -D takes one matching rule away; its result is ignored.
Delete(w, step, next, n) ==
  /\ At(w, step) /\ Goto(w, next)
  /\ \/ n' = (IF n > 0 THEN n - 1 ELSE 0) /\ NoFault
     \/ n > 0 /\ Failing /\ UNCHANGED n

Unjump(w) ==
  /\ Delete(w, "unjump", "unv6", jumps)
  /\ UNCHANGED <<file, config, drops6, chain, setVars, overlaps, boundVars>>

Unv6IfWanted(w) ==
  /\ IF work[w].cfg.mode = "whitelist"
       THEN Delete(w, "unv6", "flush", drops6)
       ELSE At(w, "unv6") /\ Goto(w, "flush") /\ NoFault /\ UNCHANGED drops6
  /\ UNCHANGED <<file, config, jumps, chain, setVars, overlaps, boundVars>>

Unv6(w) ==
  /\ Delete(w, "unv6", "flush", drops6)
  /\ UNCHANGED <<file, config, jumps, chain, setVars, overlaps, boundVars>>

FlushUnlessOff(w) ==
  /\ At(w, "flush")
  /\ IF work[w].cfg.mode = "off"
       THEN Goto(w, "idle") /\ UNCHANGED chain
       ELSE Goto(w, "jump") /\ chain' = <<>>
  /\ NoFault
  /\ UNCHANGED <<file, config, jumps, drops6, setVars, overlaps, boundVars>>

\* With enabled = false nothing more is done.  An error ends apply, here and
\* below; the handler logs it and answers OK.  Each step is a command for this
\* chain and one for the IN chain: either may be the one that failed.
Flush(w) ==
  /\ At(w, "flush")
  /\ \/ /\ chain' = <<>> /\ NoFault
        /\ Goto(w, IF work[w].cfg.mode = "off" THEN "idle" ELSE "jump")
     \/ Goto(w, "idle") /\ Failing /\ chain' \in {chain, <<>>}
  /\ UNCHANGED <<file, config, jumps, drops6, setVars, overlaps, boundVars>>

Jump(w) ==
  /\ At(w, "jump")
  /\ \/ /\ jumps' = jumps + 1 /\ NoFault
        /\ Goto(w, IF work[w].cfg.mode = "whitelist" THEN "base" ELSE "policy")
     \/ Goto(w, "idle") /\ Failing /\ jumps' \in {jumps, jumps + 1}
  /\ UNCHANGED <<file, config, drops6, chain, setVars, overlaps, boundVars>>

\* A group of commands, each of which adds a rule to the end of the chain.  An
\* error of a rule that must be there ends apply, and leaves one of cut; of
\* another it is logged, and the group adds one of less.  (A part of the rules
\* of one kind counts as none or as all.)
Add(w, next, full, cut, less) ==
  /\ \/ chain' = chain \o full /\ Goto(w, next) /\ NoFault
     \/ chain' \in {chain \o c : c \in cut} /\ Goto(w, "idle") /\ Failing
     \/ chain' \in {chain \o c : c \in less} /\ Goto(w, next) /\ Failing
  /\ UNCHANGED <<file, config, jumps, drops6, setVars, overlaps, boundVars>>

\* Loopback, established connections and DNS; then the rule of the ipset, which
\* has no counterpart in the IN chain and is not required.
Base(w) ==
  LET base == <<Entry("base", work[w].cfg)>>
  IN  /\ At(w, "base")
      /\ Add(w, "v6", Append(base, Entry("match", work[w].cfg)), {<<>>, base}, {base})

\* The rules of the configuration, which are not required; then the default
\* policy.
Policy(w) ==
  LET c     == work[w].cfg
      rules == IF c.rules THEN <<Entry("rules", c)>> ELSE <<>>
      last  == <<Entry("default", c)>>
  IN  /\ At(w, "policy")
      /\ Add(w, IF Filters(c) THEN "create" ELSE "idle", rules \o last,
             {rules, rules \o last}, IF c.rules THEN {last, rules \o last} ELSE {})

V6(w) ==
  /\ At(w, "v6") /\ Goto(w, "policy")
  /\ \/ drops6' = drops6 + 1 /\ NoFault
     \/ Failing /\ UNCHANGED drops6
  /\ UNCHANGED <<file, config, jumps, chain, setVars, overlaps, boundVars>>

-----------------------------------------------------------------------------
(* refresh_allowlist, of apply and of the resolver thread.                 *)

\* The resolver thread, every thirty seconds: a copy of the hosts.
Wake ==
  /\ Serving /\ At(Resolver, "idle") /\ Filters(config)
  /\ work' = [work EXCEPT ![Resolver] = [Idle EXCEPT !.at = "create",
                                                      !.cfg.hosts = config.hosts]]
  /\ UNCHANGED <<file, config, kernelVars, setVars, overlaps, boundVars, faultVars>>

\* The look-ups: a name that does not resolve is left out.
Resolve(w, ips) ==
  /\ ips \subseteq work[w].cfg.hosts
  /\ IF ips = work[w].cfg.hosts THEN UNCHANGED fails ELSE More /\ fails' = fails + 1

CreateNew(w) ==
  /\ At(w, "create")
  /\ \E ips \in SUBSET work[w].cfg.hosts :
       /\ Resolve(w, ips)
       /\ IF ~tmp.made
            THEN /\ tmp' = SetOf({})
                 /\ work' = [work EXCEPT ![w] = [Idle EXCEPT !.at = "clear", !.ips = ips]]
            ELSE Goto(w, "idle") /\ UNCHANGED tmp
  /\ UNCHANGED <<file, config, kernelVars, allow, overlaps, boundVars, flawed>>

\* The look-ups, which nothing else bears upon, then ipset create -exist, flush,
\* add for each address, swap, destroy.  The set has one name for all: another
\* worker may destroy it in between, and what fails then is ignored.
Create(w) ==
  /\ At(w, "create")
  /\ \E ips \in SUBSET work[w].cfg.hosts :
       /\ Resolve(w, ips)
       /\ work' = [work EXCEPT ![w] = [Idle EXCEPT !.at = "clear", !.ips = ips]]
  /\ tmp' = IF tmp.made THEN tmp ELSE SetOf({})
  /\ UNCHANGED <<file, config, kernelVars, allow, overlaps, boundVars, flawed>>

Fill(ips) == IF ips = {} THEN "swap" ELSE "add"

Clear(w) ==
  /\ At(w, "clear") /\ Goto(w, Fill(work[w].ips))
  /\ tmp' = IF tmp.made THEN SetOf({}) ELSE tmp
  /\ UNCHANGED <<file, config, kernelVars, allow, overlaps, boundVars, faultVars>>

AddIp(w) ==
  /\ At(w, "add")
  /\ \E h \in work[w].ips :
       /\ work' = [work EXCEPT ![w].ips = @ \ {h},
                                ![w].at = IF work[w].ips = {h} THEN "swap" ELSE "add"]
       /\ tmp' = IF tmp.made THEN SetOf(tmp.ips \cup {h}) ELSE tmp
  /\ UNCHANGED <<file, config, kernelVars, allow, overlaps, boundVars, faultVars>>

Swap(w) ==
  /\ At(w, "swap") /\ Goto(w, "destroy")
  /\ IF tmp.made THEN allow' = tmp.ips /\ tmp' = SetOf(allow) ELSE UNCHANGED setVars
  /\ UNCHANGED <<file, config, kernelVars, overlaps, boundVars, faultVars>>

Destroy(w) ==
  /\ At(w, "destroy") /\ Goto(w, "idle")
  /\ tmp' = NoSet
  /\ UNCHANGED <<file, config, kernelVars, allow, overlaps, boundVars, faultVars>>

-----------------------------------------------------------------------------
\* The daemon ends, at any step, and is started again.  Its end takes no rule
\* away: the resolver thread holds the NetworkFirewall, so it is never dropped.
Crash ==
  /\ More
  /\ crashes' = crashes + 1
  /\ work' = [w \in Workers |-> IF w = Boot THEN [Idle EXCEPT !.at = "load"] ELSE Idle]
  /\ UNCHANGED <<file, config, kernelVars, setVars, overlaps, edits, faultVars>>

Apply(w)   == \/ Unjump(w) \/ Unv6(w) \/ Flush(w) \/ Jump(w)
              \/ Base(w) \/ V6(w) \/ Policy(w)
Refresh(w) == \/ Create(w) \/ Clear(w) \/ AddIp(w) \/ Swap(w) \/ Destroy(w)
Run(w)     == Apply(w) \/ Refresh(w)
Edit(e)    == Write(e) \/ Publish(e) \/ Run(e)

Next ==
  \/ \E e \in Editors : Edit(e) \/ \E c \in Configs : Save(e, c)
  \/ Load \/ Run(Boot) \/ Wake \/ Refresh(Resolver) \/ Crash

Spec == Init /\ [][Next]_vars

\* Every command ends, so a request, the start or the resolver thread goes on;
\* nobody has to edit anything.
FairSpec ==
  /\ Spec
  /\ WF_vars(Load \/ Run(Boot) \/ Wake \/ Refresh(Resolver) \/ \E e \in Editors : Edit(e))
-----------------------------------------------------------------------------
\* The chain apply builds for a configuration.
Built(c) ==
  IF c.mode = "off" THEN <<>>
  ELSE (IF c.mode = "whitelist" THEN <<Entry("base", c), Entry("match", c)>> ELSE <<>>)
       \o (IF c.rules THEN <<Entry("rules", c)>> ELSE <<>>) \o <<Entry("default", c)>>

\* When no apply is under way, the rules in the kernel are those of the
\* configuration the daemon shows and would load again: whatever an earlier
\* edit that failed, overlapped or was cut short by the end of the daemon has
\* left behind, one whole edit or start puts it right.  And no rule of an
\* earlier configuration is left in the system's chains, over any number of
\* edits and restarts, except one for each command that failed and each overlap.
Wanted(b) == IF b THEN 1 ELSE 0
ConfigInForce ==
  Settled =>
    /\ ~flawed => /\ chain = Built(config)
                  /\ config.mode # "off" => jumps > 0
                  /\ config.mode = "whitelist" => drops6 > 0
                  /\ config = IF file = Torn THEN Default ELSE file
    /\ jumps <= Wanted(config.mode # "off") + fails + overlaps
    /\ drops6 <= Wanted(config.mode = "whitelist") + fails + overlaps

\* Whatever the edits and the resolver did to each other's temporary set, and
\* wherever the daemon ended, the allowlist is in the end that of the
\* configuration, and stays so.
AllowlistHeals == <>[](Filters(config) => allow = config.hosts)
=============================================================================
