------------------------------ MODULE SecretVault ------------------------------
(* The store of secrets: tokens are handed out in place of the values of a     *)
(* file and are turned back into them when a request is sent.  Translated, of  *)
(* protector/src, from secret_proxy.rs, handle_event of main.rs and the        *)
(* handler of web_ui.rs that empties the store.                                *)
(*                                                                             *)
(* The main loop and the supervisors mask files, the user changes them and     *)
(* empties the store, the agent keeps the tokens it was given and writes       *)
(* masked text into files of its own, and the daemon is restarted.             *)
EXTENDS Integers, Sequences

CONSTANTS
  SecretPaths, \* files of secrets, all of one format
  FilesOf(_),  \* what the user may write into each
  Hosts,       \* that extract_hosts can find in an address
  Unseen,      \* an address in which it finds none
  Allowlist,   \* those of PROTECTOR_RELAY_ALLOWLIST
  MaxDepth,    \* bound: how often a value can have been masked
  MaxEvents    \* bound: changes of files and ends of the store's content

\* A text after a key: a string and how often it has been turned into a token.
\* The token of a text is a hash of it, so it is the same at any time, and two
\* texts do not share one.
Texts    == (0..MaxDepth) \X STRING
Token(v) == <<v[1] + 1, v[2]>>
IsToken(v) == v[1] > 0

\* A line: a key with a text or an opening bracket after it, a key with
\* nothing, or a line without a key.  The key is one of SECRET_KEYS or not.
Forms == {"pair", "open", "bare", "note"}
Lines == [form : Forms, secret : BOOLEAN, val : Texts]

\* What the user writes holds no token.
ASSUME VaultAssumption ==
  /\ \A p \in SecretPaths : FilesOf(p) \subseteq Seq({l \in Lines : ~IsToken(l.val)})
  /\ Allowlist \subseteq Hosts /\ Unseen \notin Hosts
  /\ MaxDepth \in Nat \ {0} /\ MaxEvents \in Nat

VARIABLES
  format,    \* of the files
  files,     \* their lines
  store,     \* the texts whose token has an entry
  pending,   \* of each file, the masked text on its way to the agent
  shown,     \* of each file, the masked text the agent was given last
  held,      \* the tokens the agent has been given
  current,   \* those that were made since the store was emptied
  last,      \* the last request sent: what went out, for which token
  changes

vaultVars == <<format, files, store, pending, shown, held, current, last, changes>>

Formats == {"env", "yaml", "json", "pem"}
Nothing == [lines |-> <<>>, kept |-> FALSE]
NoRequest == [arg |-> <<0, "">>]

VaultTypeOK ==
  /\ format \in Formats
  /\ files \in [SecretPaths -> Seq(Lines)]
  /\ \A v \in store : v \in (0..MaxDepth - 1) \X STRING
  /\ pending \in [SecretPaths -> [lines : Seq(Lines), kept : BOOLEAN]]
  /\ shown \in [SecretPaths -> Seq(Lines)]
  /\ \A x \in held : x \in Texts /\ IsToken(x)
  /\ current \subseteq held /\ current \subseteq {Token(v) : v \in store}
  /\ last = NoRequest \/ last \in [arg : held, out : Texts, made : BOOLEAN, relayed : BOOLEAN]
  /\ changes \in 0..MaxEvents

\* A key or certificate is masked as a whole: its text is one line here.
Fits(lines) == format = "pem" => Len(lines) = 1

VaultInit ==
  /\ format \in Formats
  /\ files \in {f \in [SecretPaths -> UNION {FilesOf(p) : p \in SecretPaths}] :
                  \A p \in SecretPaths : f[p] \in FilesOf(p) /\ Fits(f[p])}
  /\ store = {} /\ pending = [p \in SecretPaths |-> Nothing]
  /\ shown = [p \in SecretPaths |-> <<>>]
  /\ held = {} /\ current = {} /\ last = NoRequest /\ changes = 0

-----------------------------------------------------------------------------
(* Masking.                                                                *)

\* KEY=VALUE, of .env files, credentials and terraform variables.
mask_env(l)  == l.secret /\ l.form \in {"pair", "open"}

\* key: value, but neither a block that follows nor a list or map.
mask_yaml(l) == l.secret /\ l.form = "pair"

\* "key": value, a brace included.
mask_json(l) == l.secret /\ l.form \in {"pair", "open"}

Masks(l) == \/ format = "env"  /\ mask_env(l)
            \/ format = "yaml" /\ mask_yaml(l)
            \/ format = "json" /\ mask_json(l)
            \/ format = "pem"

\* Mutant: what one pass has masked is masked by the next as well.
MaskedTwice(l) == IF Masks(l)
  THEN [l EXCEPT !.form = "pair", !.val = Token(Token(l.val))] ELSE l

Masked(l) == IF Masks(l) THEN [l EXCEPT !.form = "pair", !.val = Token(l.val)]
             ELSE l

LinesOf(lines) == {lines[i] : i \in 1..Len(lines)}
Maskable(p) == {l \in LinesOf(files[p]) : Masks(l)}
mask_file(p) == [i \in DOMAIN files[p] |-> Masked(files[p][i])]

\* Mutant: a file whose masked text is known is not gone through again.
tokenizeOnce(p) == IF mask_file(p) = shown[p] THEN store
                   ELSE store \cup {l.val : l \in Maskable(p)}

\* An entry is made for each text, if there is none.
tokenize(p) == store \cup {l.val : l \in Maskable(p)}

-----------------------------------------------------------------------------
\* A reader of the file is stopped: it is masked under the mutex (one reader
\* of a file at a time here) ...
Mask(p) ==
  /\ pending[p] = Nothing /\ files[p] # <<>>
  /\ store' = tokenize(p)
  /\ pending' = [pending EXCEPT ![p] = [lines |-> mask_file(p), kept |-> TRUE]]
  /\ UNCHANGED <<format, files, shown, held, current, last, changes>>

TokensOf(lines) == {l.val : l \in {m \in LinesOf(lines) : IsToken(m.val)}}

\* ... and its masked text is written into its pipe, or given to it as a file.
Deliver(p) ==
  /\ pending[p] # Nothing
  /\ pending' = [pending EXCEPT ![p] = Nothing]
  /\ shown' = [shown EXCEPT ![p] = pending[p].lines]
  /\ held' = held \cup TokensOf(pending[p].lines)
  /\ current' = IF pending[p].kept THEN current \cup TokensOf(pending[p].lines)
                ELSE current
  /\ UNCHANGED <<format, files, store, last, changes>>

Event == changes < MaxEvents /\ changes' = changes + 1

\* The store is emptied, and nothing that was handed out can be resolved until
\* its file is masked again.
Emptied ==
  /\ store' = {} /\ current' = {}
  /\ UNCHANGED <<format, files, shown, held, last>>

\* clear_secrets.
clear == /\ Event /\ Emptied
         /\ pending' = [p \in SecretPaths |-> [pending[p] EXCEPT !.kept = FALSE]]

\* The daemon ends and begins again.
VaultRestart == /\ Event /\ Emptied
                /\ pending' = [p \in SecretPaths |-> Nothing]

\* The user writes a file.
Edit(p, lines) ==
  /\ Event /\ Fits(lines) /\ files[p] # lines
  /\ files' = [files EXCEPT ![p] = lines]
  /\ UNCHANGED <<format, store, pending, shown, held, current, last>>

\* The agent writes the masked text of one file into another.
Copy(p, q) ==
  /\ Event /\ shown[p] # <<>> /\ files[q] # shown[p]
  /\ \A x \in TokensOf(shown[p]) : x[1] < MaxDepth
  /\ files' = [files EXCEPT ![q] = shown[p]]
  /\ UNCHANGED <<format, store, pending, shown, held, current, last>>

-----------------------------------------------------------------------------
(* Requests.                                                               *)

\* Mutant: a token is replaced by what its own entry holds, and no further.
detokenizeFirst(x) ==
  IF <<x[1] - 1, x[2]>> \in store THEN {<<x[1] - 1, x[2]>>} ELSE {x}

\* What may become of a token: every entry of the map is tried once, in the
\* order the map has them.  If it has an entry it is replaced, and so is the text
\* in its place, if that is the token of an entry that is tried after it.
detokenize(x) ==
  {<<d, x[2]>> : d \in {e \in 0..x[1] :
                          /\ \A k \in e..x[1] - 1 : <<k, x[2]>> \in store
                          /\ e = x[1] => <<e - 1, x[2]>> \notin store}}

Sent(x, y, relayed) ==
  /\ last' = [arg |-> x, out |-> y, made |-> x \in current, relayed |-> relayed]
  /\ UNCHANGED <<format, files, store, pending, shown, held, current, changes>>

\* What extract_hosts finds in each address of the arguments.  It is the host the
\* request goes to in http://host/path; it finds none where no scheme is written,
\* and in the second address of an argument; and where an @ comes later in the
\* text, it takes for the host what follows the last one.
Addresses == Hosts \cup {Unseen}
extract_hosts(urls) == urls \ {Unseen}

\* Some host is found, and each one found is on the list.
relay_allowed(urls) == /\ extract_hosts(urls) # {}
                       /\ extract_hosts(urls) \subseteq Allowlist

\* The agent's command names a token: it is sent again with what the token
\* stands for (the mutex is held until the request has ended) ...
Relay(x, urls) == relay_allowed(urls)
                  /\ \E y \in detokenize(x) : Sent(x, y, TRUE)

\* ... or runs on as it is: it is not allowed, or the relay fails.
Release(x) == Sent(x, x, FALSE)

-----------------------------------------------------------------------------
VaultNext ==
  \/ \E p \in SecretPaths : \/ Mask(p) \/ Deliver(p)
                            \/ \E lines \in FilesOf(p) : Edit(p, lines)
                            \/ \E q \in SecretPaths : Copy(p, q)
  \/ clear \/ VaultRestart
  \/ \E x \in held : Release(x) \/ \E urls \in SUBSET Addresses : Relay(x, urls)

VaultSpec == VaultInit /\ [][VaultNext]_vaultVars

-----------------------------------------------------------------------------
\* A token made since the store was last emptied is resolved when its request
\* is relayed, whatever has become of its file and whichever files hold the same
\* secret (to the text it was made of, or further if that is a token); one of a
\* time before is resolved as well or sent as it is, never into another secret.
SentIsMeant ==
  last # NoRequest =>
    /\ last.out[2] = last.arg[2] /\ last.out[1] <= last.arg[1]
    /\ last.made /\ last.relayed => last.out[1] < last.arg[1]
=============================================================================
