----------------------------- MODULE MCFirewall -----------------------------
(* Instances of Firewall for TLC.                                          *)
EXTENDS Firewall

CONSTANTS e1, e2, h1, h2

Off       == Default
Block     == [mode |-> "blacklist", hosts |-> {}, rules |-> TRUE]
Closed    == [mode |-> "whitelist", hosts |-> {}, rules |-> FALSE]
Only(s)   == [mode |-> "whitelist", hosts |-> s, rules |-> FALSE]

\* One of each mode.
SomeConfigs == {Off, Block, Only({h1})}
\* A list that is emptied.
Emptied == {Only({h1}), Closed}
=============================================================================
