------------------------------- MODULE LRUCache -------------------------------
(***************************************************************************)
(* The cache of resolved paths of the naming server at pointer level       *)
(* (src/init_naming_server.c: LRUNode, LRUCache, initLRUCache, addToCache, *)
(* getFromCache): nodes from malloc, a doubly linked list in order of use, *)
(* and one pointer per hash bucket.                                        *)
(*                                                                         *)
(* Both functions hold cache_mutex from their first to their last access,  *)
(* so each call is one step.  Who calls them, and when, is the business of *)
(* NamingServer; on its own this module allows any order of calls, as      *)
(* handler threads produce that look a path up and add it in two separate  *)
(* critical sections.                                                      *)
(*                                                                         *)
(* A definition whose name extends that of the one after it is a faulty    *)
(* variant of it that no action uses.                                      *)
(***************************************************************************)
EXTENDS Naturals, FiniteSets

CONSTANTS
    Paths,
    Servers,    \* what a path resolves to
    Nodes,      \* addresses malloc can return
    Capacity,   \* LRU_CACHE_SIZE, the length of the list and of hashmap
    Hash,       \* hashFunction(path, Capacity) of every path
    NULL

Buckets == 0 .. Capacity - 1

ASSUME CapacityAssumption == Capacity \in Nat \ {0}
ASSUME HashAssumption == Hash \in [Paths -> Buckets]
\* malloc finds a block for the node that is linked before the last is freed.
ASSUME NodesAssumption == IsFiniteSet(Nodes) /\ Cardinality(Nodes) > Capacity
ASSUME NULLAssumption == NULL \notin Nodes /\ NULL \notin Paths /\ NULL \notin Servers

VARIABLES
    allocated,      \* nodes that malloc returned and free has not taken back
    path, server, prev, next,   \* the fields of the nodes; NULL once freed
    head, tail, size,
    hashmap

fields == <<path, server>>
vars == <<allocated, path, server, prev, next, head, tail, size, hashmap>>

Init ==
    /\ allocated = {}
    /\ path = [n \in Nodes |-> NULL]
    /\ server = [n \in Nodes |-> NULL]
    /\ prev = [n \in Nodes |-> NULL]
    /\ next = [n \in Nodes |-> NULL]
    /\ head = NULL
    /\ tail = NULL
    /\ size = 0
    /\ hashmap = [h \in Buckets |-> NULL]

-----------------------------------------------------------------------------
(* addToCache.                                                             *)

\* Links after node n is put in front of the list, before any eviction.
NextWithNew(n) == [next EXCEPT ![n] = head]
PrevWithNewForgotten(n) == [prev EXCEPT ![n] = NULL]
PrevWithNew(n) == [x \in Nodes |-> IF x = n THEN NULL
                                   ELSE IF x = head THEN n ELSE prev[x]]

BucketsWithNewIfEmpty(n, p) ==
    [hashmap EXCEPT ![Hash[p]] = IF @ = NULL THEN n ELSE @]
BucketsWithNew(n, p) == [hashmap EXCEPT ![Hash[p]] = n]

FitsOffByOne == size <= Capacity
FitsLeavingRoom == size + 1 < Capacity
Fits == size < Capacity

\* The node malloc returned for (p, s) is written and becomes the first one
\* and the one its bucket points to, whatever the bucket pointed to before.
AddBelowCapacity(p, s) ==
    /\ Fits
    /\ \E n \in Nodes \ allocated :
          /\ allocated' = allocated \cup {n}
          /\ path' = [path EXCEPT ![n] = p]
          /\ server' = [server EXCEPT ![n] = s]
          /\ hashmap' = BucketsWithNew(n, p)
          /\ next' = NextWithNew(n)
          /\ prev' = PrevWithNew(n)
          /\ head' = n
          /\ tail' = IF tail = NULL THEN n ELSE tail
    /\ size' = size + 1

\* Buckets after an addition that evicts: the new node's is set first, then
\* the one of the evicted path is cleared, whichever node it points to.
BucketsAfterEvictionStale(n, p) == BucketsWithNew(n, p)
BucketsAfterEviction(n, p) ==
    [BucketsWithNew(n, p) EXCEPT ![Hash[path[tail]]] = NULL]

\* The same with a full list: its last node is unlinked and freed.
AddEvicting(p, s) ==
    /\ ~Fits
    /\ \E n \in Nodes \ allocated :
          LET last == PrevWithNew(n)[tail]
          IN  /\ allocated' = (allocated \cup {n}) \ {tail}
              /\ path' = [path EXCEPT ![n] = p, ![tail] = NULL]
              /\ server' = [server EXCEPT ![n] = s, ![tail] = NULL]
              /\ hashmap' = BucketsAfterEviction(n, p)
              /\ next' = [NextWithNew(n) EXCEPT ![last] = NULL]
              /\ prev' = [PrevWithNew(n) EXCEPT ![tail] = NULL]
              /\ head' = n
              /\ tail' = last
    /\ UNCHANGED size

AddToCache(p, s) == AddBelowCapacity(p, s) \/ AddEvicting(p, s)

-----------------------------------------------------------------------------
(* getFromCache.                                                           *)

\* The node a lookup of p finds: whatever node the bucket points to.  The
\* path of the node is not compared with p.
Found(p) == hashmap[Hash[p]]

\* Links after node n, which is not the first, is unlinked and put in front.
NextWithMoved(n) == [x \in Nodes |-> IF x = n THEN head
                                     ELSE IF x = prev[n] THEN next[n] ELSE next[x]]
PrevWithMoved(n) == [x \in Nodes |-> IF x = n THEN NULL
                                     ELSE IF x = head THEN n
                                     ELSE IF x = next[n] THEN prev[n] ELSE prev[x]]

MoveToFront(n) ==
    /\ n # head
    /\ next' = NextWithMoved(n)
    /\ prev' = PrevWithMoved(n)
    /\ tail' = IF n = tail THEN prev[n] ELSE tail
    /\ head' = n
    /\ UNCHANGED <<allocated, fields, size, hashmap>>

\* The call returns "result": NULL, or the server of the node it found.
GetMiss(p, result) ==
    /\ Found(p) = NULL
    /\ result = NULL
    /\ UNCHANGED vars

GetHit(p, result) ==
    /\ Found(p) # NULL
    /\ result = server[Found(p)]
    /\ MoveToFront(Found(p)) \/ (Found(p) = head /\ UNCHANGED vars)

GetFromCache(p, result) == GetMiss(p, result) \/ GetHit(p, result)

Next ==
    \/ \E p \in Paths, s \in Servers : AddBelowCapacity(p, s) \/ AddEvicting(p, s)
    \/ \E p \in Paths, result \in Servers \cup {NULL} : GetFromCache(p, result)

Spec == Init /\ [][Next]_vars

-----------------------------------------------------------------------------
(* Properties.                                                             *)

TypeOK ==
    /\ allocated \subseteq Nodes
    /\ path \in [Nodes -> Paths \cup {NULL}]
    /\ server \in [Nodes -> Servers \cup {NULL}]
    /\ prev \in [Nodes -> Nodes \cup {NULL}]
    /\ next \in [Nodes -> Nodes \cup {NULL}]
    /\ head \in Nodes \cup {NULL}
    /\ tail \in Nodes \cup {NULL}
    /\ size \in 0 .. Capacity
    /\ hashmap \in [Buckets -> Nodes \cup {NULL}]

\* No pointer the code follows leads to memory that was freed: not from the
\* list (lines 210-230, 257-266), and not from a bucket, although the eviction
\* clears a bucket without looking at the node it points to (lines 224-232).
NoDangling ==
    /\ {head, tail} \subseteq allocated \cup {NULL}
    /\ \A n \in allocated : {next[n], prev[n]} \subseteq allocated \cup {NULL}
    /\ \A h \in Buckets : hashmap[h] \in allocated \cup {NULL}

\* The list by following next from head, and its reverse by prev from tail.
Walk(first, link) ==
    LET node[i \in 1 .. size] ==
            IF i = 1 THEN first
            ELSE IF node[i - 1] = NULL THEN NULL ELSE link[node[i - 1]]
    IN  [i \in 1 .. size |-> node[i]]
Forward == Walk(head, next)
Backward == Walk(tail, prev)

\* size steps in either direction visit every live node once, in opposite
\* orders, and stop at the other end (addToCache and the move of getFromCache).
ListConsistent ==
    /\ size = Cardinality(allocated)
    /\ {Forward[i] : i \in 1 .. size} = allocated
    /\ \A i \in 1 .. size : Backward[i] = Forward[size + 1 - i]
    /\ size = 0 => head = NULL /\ tail = NULL
    /\ size > 0 => next[tail] = NULL /\ prev[head] = NULL

\* A bucket that points anywhere points to the most recently used of the nodes
\* with its hash, so that a node whose bucket was taken by a later path is not
\* found again before it is evicted (lines 207, 225, 246).
BucketIsMostRecent ==
    \A i, j \in 1 .. size :
        i < j => hashmap[Hash[path[Forward[i]]]] # Forward[j]

\* The contents of the cache, most recently used first, behave as those of a
\* least-recently-used cache.
LRU == INSTANCE LRUOrder WITH
    Entries <- [path : Paths, server : Servers],
    order <- [i \in 1 .. size |->
                 [path |-> path[Forward[i]], server |-> server[Forward[i]]]]

EvictsLeastRecent == LRU!Spec
=============================================================================
