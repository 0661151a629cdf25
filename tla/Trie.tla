--------------------------------- MODULE Trie ---------------------------------
(***************************************************************************)
(* The trie of registered paths of the naming server                       *)
(* (src/init_naming_server.c: TrieNode, createTrieNode, addPathToTrie,     *)
(* findInTrie) as operators on values.                                     *)
(*                                                                         *)
(* A node is named by the characters that lead to it, so a trie is a       *)
(* function from a prefix-closed set of paths to what the node says:       *)
(* NotEnd, or the server of a path registered there (isEndOfPath and       *)
(* server are only ever set together).  A path is a sequence of characters *)
(* and <<>> is the root.                                                   *)
(*                                                                         *)
(* A definition whose name extends that of the one after it is a faulty    *)
(* variant of it that nothing uses.                                        *)
(***************************************************************************)
EXTENDS Naturals, SequencesExt

CONSTANT NotEnd     \* isEndOfPath is false

EmptyTrie == [node \in {<<>>} |-> NotEnd]

IsEndOfPath(trie, node) == trie[node] # NotEnd

\* The nodes on the way to path, path itself included.
Spine(path) == {SubSeq(path, 1, i) : i \in 0 .. Len(path)}

AddPathToTrieClobbering(trie, path, server) ==
    [node \in DOMAIN trie \cup Spine(path) |->
        IF node = path THEN server
        ELSE IF node \in Spine(path) THEN NotEnd ELSE trie[node]]

AddPathToTrieMarkingAll(trie, path, server) ==
    [node \in DOMAIN trie \cup Spine(path) |->
        IF node \in Spine(path) THEN server ELSE trie[node]]

AddPathToTrieKeeping(trie, path, server) ==
    [node \in DOMAIN trie \cup Spine(path) |->
        IF node \in DOMAIN trie /\ trie[node] # NotEnd THEN trie[node]
        ELSE IF node = path THEN server ELSE NotEnd]

\* addPathToTrie: missing nodes are created and the last one is marked.
AddPathToTrie(trie, path, server) ==
    [node \in DOMAIN trie \cup Spine(path) |->
        IF node = path THEN server
        ELSE IF node \in DOMAIN trie THEN trie[node] ELSE NotEnd]

\* The loop of a registration over the paths of its struct.
AddPaths(trie, paths, server) ==
    FoldSet(LAMBDA path, t : AddPathToTrie(t, path, server), trie, paths)

\* One pass of the loop of findInTrie: the node reached so far is looked at
\* before the child for the next character is taken.  Once a child is missing
\* current is NULL and the loop ends; here it stays outside the trie, which is
\* prefix-closed.
FindStepKeepingFirst(trie, at, char) ==
    [current |-> Append(at.current, char),
     lastMatch |-> IF /\ at.current \in DOMAIN trie /\ IsEndOfPath(trie, at.current)
                      /\ at.lastMatch = NotEnd
                   THEN trie[at.current] ELSE at.lastMatch]
FindStep(trie, at, char) ==
    [current |-> Append(at.current, char),
     lastMatch |-> IF at.current \in DOMAIN trie /\ IsEndOfPath(trie, at.current)
                   THEN trie[at.current] ELSE at.lastMatch]

\* findInTrie: the server of the last match, or NULL (here: NotEnd).
FindInTrie(trie, path) ==
    FoldLeft(LAMBDA at, char : FindStep(trie, at, char),
             [current |-> <<>>, lastMatch |-> NotEnd], path).lastMatch
=============================================================================
