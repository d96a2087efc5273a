----------------------------- MODULE MCGlobMatch -----------------------------
(* Instances of GlobMatch for TLC.                                         *)
EXTENDS GlobMatch

\* "**/s*": any path to a name that begins with an s.
OnePattern == {<<"*", "*", "/", "s", "*">>}

\* "/a/s/b", "/a/s" and "/a/b".
SomeTexts == {<<"/", "a", "/", "s", "/", "b">>, <<"/", "a", "/", "s">>,
              <<"/", "a", "/", "b">>}
=============================================================================
