--------------------------- MODULE MCNamingServer ---------------------------
(* Small instances of NamingServer for TLC, with the hash of the source.   *)
EXTENDS NamingServer, PathHash, TLC

CONSTANTS ss1, ss2, ss3

\* ss2 lists a path below the one of ss1, one that clients ask for, and, like
\* ss3, another branch.
MCPathsIn == (ss1 :> {<<97>>})
             @@ (ss2 :> {<<97, 98, 97>>, <<97, 97, 98>>, <<98>>})
             @@ (ss3 :> {<<98>>})
MCStorageServers2 == {ss1, ss2}
MCStorageServers3 == {ss1, ss2, ss3}

\* With Capacity 2 the buckets of "aba", "aaba", "ba" are 0, 1 and 1.
MCQueries3 == {<<97, 98, 97>>, <<97, 97, 98, 97>>, <<98, 97>>}
MCHash == [p \in Queries |-> HashFunction(p, Capacity)]

Symmetry == Permutations(Nodes) \cup Permutations(Handlers)
=============================================================================
