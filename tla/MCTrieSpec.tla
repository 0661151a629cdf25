----------------------------- MODULE MCTrieSpec -----------------------------
(* TrieSpec over all paths of a two-letter alphabet up to a length.        *)
EXTENDS TrieSpec

Chars == {97, 98}
PathsUpTo(n) == UNION {[1 .. k -> Chars] : k \in 0 .. n}

\* The root path "" is what a half-received registration adds.
MCRegistrable == {<<>>, <<97>>, <<97, 98>>, <<97, 98, 97>>, <<98, 98>>}
MCNames == MCRegistrable \ {<<>>}
MCQueries == PathsUpTo(4)
=============================================================================
