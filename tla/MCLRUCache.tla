----------------------------- MODULE MCLRUCache -----------------------------
(* A small instance of LRUCache for TLC, with the hash of the source.      *)
EXTENDS LRUCache, PathHash, TLC

\* "a", "b", "c", "aa" in ASCII.  With Capacity 3, 97 % 3 = 1, 98 % 3 = 2,
\* 99 % 3 = 0 and (97 * 31 + 97) % 3 = 2: "b" and "aa" share a bucket.
MCPaths == {<<97>>, <<98>>, <<99>>, <<97, 97>>}
MCHash == [p \in Paths |-> HashFunction(p, Capacity)]
\* Addresses and servers are interchangeable.
Symmetry == Permutations(Nodes) \cup Permutations(Servers)
=============================================================================
