------------------------------- MODULE MCGlob -------------------------------
(* All names of up to 4 characters and patterns of up to 4, over two        *)
(* letters and the two wildcards.                                           *)
EXTENDS Glob

Letters == {"a", "b"}
UpTo(n, S) == UNION {[1..k -> S] : k \in 0..n}
AllInputs == UpTo(4, Letters)
AllPatterns == UpTo(4, Letters \union {"*", "?"})
=============================================================================
