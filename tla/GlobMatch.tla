------------------------------ MODULE GlobMatch ------------------------------
(* The matcher of the path rules of a data policy, from                       *)
(* protector/src/data_policy.rs.  The loop of glob_match_inner is a state      *)
(* machine of one turn per step over sequences of characters.                 *)
EXTENDS Naturals, Sequences

CONSTANTS
  Patterns,   \* non-empty sequences of characters
  Texts       \* sequences of characters

VARIABLES
  pat, text,   \* the pattern of the rule and the path
  pi, ti,      \* how much of each has been consumed
  starPi,      \* where the last star was met in the pattern, or None
  starTi,      \* and in the path
  result

vars == <<pat, text, pi, ti, starPi, starTi, result>>

None == 1000
Results == {"none", "match", "differ"}
Verdict(b) == IF b THEN "match" ELSE "differ"

TypeOK ==
  /\ pat \in Patterns /\ text \in Texts
  /\ pi \in 0..Len(pat) /\ ti \in 0..Len(text)
  /\ starPi \in (0..Len(pat) - 1) \cup {None} /\ starTi \in 0..Len(text)
  /\ result \in Results

StartsWith(s, prefix) == Len(prefix) <= Len(s) /\ SubSeq(s, 1, Len(prefix)) = prefix

\* glob_match: a pattern that ends with a slash is a prefix of the path, or the
\* directory itself.
IsPrefix(p)    == p[Len(p)] = "/"
PrefixMatch(p, t) == StartsWith(t, p) \/ t = SubSeq(p, 1, Len(p) - 1)

Init ==
  /\ pat \in Patterns /\ text \in Texts
  /\ pi = 0 /\ ti = 0 /\ starPi = None /\ starTi = 0
  /\ result = IF IsPrefix(pat) THEN Verdict(PrefixMatch(pat, text)) ELSE "none"

\* The pattern has c at its position, or i places after it.
Has(i, c) == pi + i < Len(pat) /\ pat[pi + i + 1] = c

Looping == result = "none" /\ ti < Len(text)
Equal   == Has(0, text[ti + 1]) \/ Has(0, "?")
Double  == Has(0, "*") /\ Has(1, "*")
Slash   == text[ti + 1] = "/"

Consume ==
  /\ Looping /\ Equal
  /\ pi' = pi + 1 /\ ti' = ti + 1
  /\ UNCHANGED <<pat, text, starPi, starTi, result>>

Star(width) ==
  /\ starPi' = pi /\ starTi' = ti /\ pi' = pi + width
  /\ UNCHANGED <<pat, text, ti, result>>

DoubleStar == Looping /\ ~Equal /\ Double /\ Star(2)

SingleStar == Looping /\ ~Equal /\ ~Double /\ Has(0, "*") /\ ~Slash /\ Star(1)

Fail == result' = "differ" /\ UNCHANGED <<pat, text, pi, ti, starPi, starTi>>

\* A star met at a slash goes back to the last star, itself maybe.
StarAtSlash ==
  /\ Looping /\ ~Equal /\ ~Double /\ Has(0, "*") /\ Slash
  /\ \/ starPi # None /\ pi' = starPi
        /\ UNCHANGED <<pat, text, ti, starPi, starTi, result>>
     \/ starPi = None /\ Fail

\* The last star takes one character more, whatever it is.
Backtrack ==
  /\ Looping /\ ~Equal /\ ~Has(0, "*")
  /\ \/ /\ starPi # None
        /\ pi' = starPi + 1 /\ starTi' = starTi + 1 /\ ti' = starTi + 1
        /\ UNCHANGED <<pat, text, starPi, result>>
     \/ starPi = None /\ Fail

\* The path is consumed: only stars may be left in the pattern.
Finish ==
  /\ result = "none" /\ ti = Len(text)
  /\ result' = Verdict(\A i \in pi + 1..Len(pat) : pat[i] = "*")
  /\ UNCHANGED <<pat, text, pi, ti, starPi, starTi>>

Next == Consume \/ DoubleStar \/ SingleStar \/ StarAtSlash \/ Backtrack \/ Finish

\* The loop runs.
Spec == Init /\ [][Next]_vars /\ WF_vars(Next)

-----------------------------------------------------------------------------
\* What the comments say: "`*` (matches any chars except `/`) and `**` (matches
\* any chars including `/`)", "* does not cross directory boundaries".
Documented(p, t) ==
  LET agrees[i \in 0..Len(p), j \in 0..Len(t)] ==
        IF i = Len(p) THEN j = Len(t)
        ELSE IF p[i + 1] = "*" /\ i + 1 < Len(p) /\ p[i + 2] = "*"
          THEN \E k \in j..Len(t) : agrees[i + 2, k]
        ELSE IF p[i + 1] = "*"
          THEN \E k \in j..Len(t) : /\ \A m \in j + 1..k : t[m] # "/"
                                    /\ agrees[i + 1, k]
        ELSE /\ j < Len(t) /\ p[i + 1] \in {t[j + 1], "?"}
             /\ agrees[i + 1, j + 1]
  IN IF IsPrefix(p) THEN PrefixMatch(p, t) ELSE agrees[0, 0]

\* The matcher answers, and what its comments say.
AsDocumented == <>(result = Verdict(Documented(pat, text)))
=============================================================================
