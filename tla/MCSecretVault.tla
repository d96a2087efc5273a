---------------------------- MODULE MCSecretVault ----------------------------
(* Instances of SecretVault for TLC.                                       *)
EXTENDS SecretVault, SequencesExt

Line(form, secret, text) == [form |-> form, secret |-> secret, val |-> <<0, text>>]

\* A file holds one secret, which the user changes once: after a key that opens
\* a map and before an ordinary one, or alone.
SomeFiles(p) ==
  {<<Line("open", TRUE, "{"), Line("pair", TRUE, v), Line("pair", FALSE, "x")>> :
     v \in {"a", "b"}}
  \cup {<<Line("note", FALSE, v)>> : v \in {"a", "b"}}

\* A token is resolved as the loop over the store's entries resolves it
\* (SecretVault::detokenize), in one of the orders the map may have them: how
\* deep it goes depends on the order, and nothing else does.
TriedInAnyOrder ==
  LET Replace(s, v) == IF s = Token(v) THEN v ELSE s
  IN  \A x \in held :
        LET entries == {v \in store : v[2] = x[2]}
        IN  detokenize(x) = {FoldLeft(Replace, x, order) : order \in SetToSeqs(entries)}
=============================================================================
