--------------------------- MODULE LRUCacheProofs ---------------------------
(***************************************************************************)
(* Pointers, order and contents of LRUCache, for any capacity, paths,      *)
(* servers and hash function.                                              *)
(*                                                                         *)
(* For pointers the invariant is local: it relates a node to its           *)
(* neighbours, never to its position.  The order of the list, and what     *)
(* following it computes, is a second invariant on top of that, from which *)
(* the refinement of LRUOrder follows.                                     *)
(***************************************************************************)
EXTENDS LRUCache, Sequences, FiniteSetTheorems, WellFoundedInduction, TLAPS

\* head and tail are the live nodes without predecessor and successor.
EndsInv ==
    /\ head = NULL <=> allocated = {}
    /\ tail = NULL <=> allocated = {}
    /\ \A n \in allocated : /\ prev[n] = NULL <=> n = head
                            /\ next[n] = NULL <=> n = tail

\* next and prev are inverse to each other.
LinksInv ==
    \A n \in allocated : /\ next[n] # NULL => prev[next[n]] = n
                         /\ prev[n] # NULL => next[prev[n]] = n

\* A live node has a path, and a bucket holds nodes of that bucket.
PathsInv ==
    /\ \A n \in allocated : path[n] \in Paths
    /\ \A h \in Buckets : hashmap[h] # NULL => Hash[path[hashmap[h]]] = h

\* size counts the live nodes.
SizeExact == size = Cardinality(allocated)

IInv == TypeOK /\ NoDangling /\ EndsInv /\ LinksInv /\ PathsInv /\ SizeExact

-----------------------------------------------------------------------------

LEMMA InitInvariant == Init => IInv
<1> SUFFICES ASSUME Init PROVE IInv
    OBVIOUS
<1> USE DEF Init
<1>1. TypeOK
    BY CapacityAssumption DEF TypeOK, Buckets
<1>2. NoDangling
    BY DEF NoDangling
<1>3. EndsInv /\ LinksInv /\ PathsInv
    BY DEF EndsInv, LinksInv, PathsInv
<1>4. SizeExact
    BY FS_EmptySet DEF SizeExact
<1> QED
    BY <1>1, <1>2, <1>3, <1>4 DEF IInv

LEMMA AllocatedFinite == TypeOK => IsFiniteSet(allocated)
BY NodesAssumption, FS_Subset DEF TypeOK

LEMMA AddBelowCapacityInvariant ==
    ASSUME IInv, NEW p \in Paths, NEW s \in Servers, AddBelowCapacity(p, s)
    PROVE  IInv'
<1> USE DEF IInv, Fits
<1>1. PICK n \in Nodes \ allocated :
          /\ allocated' = allocated \cup {n}
          /\ path' = [path EXCEPT ![n] = p]
          /\ server' = [server EXCEPT ![n] = s]
          /\ hashmap' = [hashmap EXCEPT ![Hash[p]] = n]
          /\ next' = [next EXCEPT ![n] = head]
          /\ prev' = [x \in Nodes |-> IF x = n THEN NULL
                                      ELSE IF x = head THEN n ELSE prev[x]]
          /\ head' = n
          /\ tail' = IF tail = NULL THEN n ELSE tail
    BY DEF AddBelowCapacity, BucketsWithNew, NextWithNew, PrevWithNew
<1>2. size < Capacity /\ size' = size + 1
    BY DEF AddBelowCapacity
<1>3. Hash[p] \in Buckets /\ n # NULL
    BY HashAssumption, NULLAssumption
<1>4. TypeOK'
    <2>1. size' \in 0 .. Capacity
        BY <1>2, CapacityAssumption DEF TypeOK
    <2> QED
        BY <1>1, <1>3, <2>1 DEF TypeOK
<1>5. NoDangling'
    BY <1>1, <1>3 DEF NoDangling, TypeOK
<1>6. EndsInv'
    BY <1>1, <1>3, NULLAssumption DEF EndsInv, NoDangling, TypeOK
<1>7. LinksInv'
    BY <1>1, <1>3, NULLAssumption DEF LinksInv, EndsInv, NoDangling, TypeOK
<1>8. PathsInv'
    BY <1>1, <1>3, NULLAssumption DEF PathsInv, NoDangling, TypeOK
<1>9. SizeExact'
    BY <1>1, <1>2, AllocatedFinite, FS_AddElement DEF SizeExact
<1> QED
    BY <1>4, <1>5, <1>6, <1>7, <1>8, <1>9

LEMMA AddEvictingInvariant ==
    ASSUME IInv, NEW p \in Paths, NEW s \in Servers, AddEvicting(p, s)
    PROVE  IInv'
<1> USE DEF IInv, Fits
<1> DEFINE old == Hash[path[tail]]
<1>1. PICK n \in Nodes \ allocated :
          LET last == PrevWithNew(n)[tail]
          IN  /\ allocated' = (allocated \cup {n}) \ {tail}
              /\ path' = [path EXCEPT ![n] = p, ![tail] = NULL]
              /\ server' = [server EXCEPT ![n] = s, ![tail] = NULL]
              /\ hashmap' = BucketsAfterEviction(n, p)
              /\ next' = [NextWithNew(n) EXCEPT ![last] = NULL]
              /\ prev' = [PrevWithNew(n) EXCEPT ![tail] = NULL]
              /\ head' = n
              /\ tail' = last
    BY DEF AddEvicting
<1> DEFINE last == IF tail = head THEN n ELSE prev[tail]
<1>2. size >= Capacity /\ size' = size
    BY CapacityAssumption DEF AddEvicting, TypeOK
<1>3. allocated # {}
    BY <1>2, CapacityAssumption, FS_EmptySet DEF SizeExact
<1>4. /\ head \in allocated /\ tail \in allocated
      /\ tail # n /\ head # n /\ n # NULL /\ tail # NULL /\ head # NULL
    BY <1>3, NULLAssumption DEF EndsInv, NoDangling, TypeOK
<1>5. /\ last \in (allocated \cup {n}) \ {tail}
      /\ last # NULL
      /\ last # n => prev[tail] = last /\ next[last] = tail
    BY <1>4, NULLAssumption DEF EndsInv, LinksInv, NoDangling, TypeOK
<1>6. PrevWithNew(n)[tail] = last
    BY <1>4 DEF PrevWithNew, TypeOK
<1>7. /\ allocated' = (allocated \cup {n}) \ {tail}
      /\ path' = [path EXCEPT ![n] = p, ![tail] = NULL]
      /\ server' = [server EXCEPT ![n] = s, ![tail] = NULL]
      /\ hashmap' = [hashmap EXCEPT ![Hash[p]] = n, ![old] = NULL]
      /\ head' = n
      /\ tail' = last
    BY <1>1, <1>6 DEF BucketsAfterEviction, BucketsWithNew
<1>8. next' = [[next EXCEPT ![n] = head] EXCEPT ![last] = NULL]
    BY <1>1, <1>6 DEF NextWithNew
<1>9. prev' = [[x \in Nodes |-> IF x = n THEN NULL
                                ELSE IF x = head THEN n ELSE prev[x]]
                EXCEPT ![tail] = NULL]
    BY <1>1 DEF PrevWithNew
<1>10. Hash[p] \in Buckets /\ old \in Buckets
    BY <1>4, HashAssumption DEF PathsInv
<1>11. TypeOK'
    BY <1>2, <1>4, <1>5, <1>7, <1>8, <1>9, <1>10 DEF TypeOK
<1>12. \A x \in Nodes :
          /\ next'[x] = IF x = last THEN NULL ELSE IF x = n THEN head ELSE next[x]
          /\ prev'[x] = IF x = tail \/ x = n THEN NULL
                        ELSE IF x = head THEN n ELSE prev[x]
    BY <1>4, <1>5, <1>8, <1>9 DEF TypeOK
<1>13. \A x \in allocated \ {tail} :
          /\ x \in Nodes /\ x # n
          /\ x # last => next[x] # tail
          /\ prev[x] # tail
    <2> SUFFICES ASSUME NEW x \in allocated \ {tail}
                 PROVE  /\ x \in Nodes /\ x # n /\ x # NULL
                        /\ x # last => next[x] # tail
                        /\ prev[x] # tail
        OBVIOUS
    <2>1. x \in Nodes /\ x # n /\ x # NULL
        BY NULLAssumption DEF TypeOK
    <2>2. next[x] = tail => x = last
        BY <1>4, <2>1 DEF EndsInv, LinksInv
    <2>3. next[tail] = NULL
        BY <1>4 DEF EndsInv
    <2>4. prev[x] # tail
        BY <1>4, <2>1, <2>3 DEF LinksInv
    <2> QED
        BY <2>1, <2>2, <2>4
<1>14. NoDangling'
    <2>1. \A h \in Buckets : hashmap'[h] \in allocated' \cup {NULL}
        BY <1>4, <1>7, <1>10 DEF NoDangling, PathsInv, TypeOK
    <2>2. {head', tail'} \subseteq allocated' \cup {NULL}
        BY <1>4, <1>5, <1>7
    <2>3. \A x \in allocated' : {next'[x], prev'[x]} \subseteq allocated' \cup {NULL}
        BY <1>4, <1>5, <1>7, <1>12, <1>13 DEF NoDangling, EndsInv
    <2> QED
        BY <2>1, <2>2, <2>3 DEF NoDangling
<1>15. EndsInv'
    BY <1>4, <1>5, <1>7, <1>12, <1>13 DEF EndsInv
<1>16. LinksInv'
    BY <1>4, <1>5, <1>7, <1>12, <1>13 DEF LinksInv, EndsInv, NoDangling, TypeOK
<1>17. PathsInv'
    BY <1>4, <1>7, <1>10, NULLAssumption DEF PathsInv, NoDangling, TypeOK
<1>18. SizeExact'
    <2>1. Cardinality(allocated \cup {n}) = Cardinality(allocated) + 1
        BY AllocatedFinite, FS_AddElement
    <2>2. Cardinality((allocated \cup {n}) \ {tail})
             = Cardinality(allocated \cup {n}) - 1
        BY <1>4, AllocatedFinite, FS_AddElement, FS_RemoveElement
    <2> QED
        BY <1>2, <1>7, <2>1, <2>2 DEF SizeExact, TypeOK
<1> QED
    BY <1>11, <1>14, <1>15, <1>16, <1>17, <1>18

LEMMA MoveToFrontInvariant ==
    ASSUME IInv, NEW n \in allocated, MoveToFront(n)
    PROVE  IInv'
<1> USE DEF IInv
<1>1. /\ n # head
      /\ head' = n
      /\ tail' = IF n = tail THEN prev[n] ELSE tail
      /\ UNCHANGED <<allocated, path, server, size, hashmap>>
    BY DEF MoveToFront, fields
<1>2. \A x \in Nodes :
          /\ next'[x] = IF x = n THEN head
                        ELSE IF x = prev[n] THEN next[n] ELSE next[x]
          /\ prev'[x] = IF x = n THEN NULL ELSE IF x = head THEN n
                        ELSE IF x = next[n] THEN prev[n] ELSE prev[x]
    BY DEF MoveToFront, NextWithMoved, PrevWithMoved
<1>3. /\ head \in allocated /\ tail \in allocated
      /\ n # NULL /\ prev[n] # NULL
      /\ prev[n] \in allocated /\ next[prev[n]] = n
      /\ allocated \subseteq Nodes
    BY <1>1, NULLAssumption DEF EndsInv, LinksInv, NoDangling, TypeOK
<1>4. TypeOK'
    BY <1>1, <1>3 DEF TypeOK, MoveToFront, NextWithMoved, PrevWithMoved
<1>5. NoDangling'
    BY <1>1, <1>2, <1>3 DEF NoDangling
<1>6. EndsInv'
    BY <1>1, <1>2, <1>3, NULLAssumption DEF EndsInv, LinksInv, NoDangling
<1>7. LinksInv'
    BY <1>1, <1>2, <1>3, NULLAssumption DEF EndsInv, LinksInv, NoDangling
<1>8. PathsInv'
    BY <1>1 DEF PathsInv
<1>9. SizeExact'
    BY <1>1 DEF SizeExact
<1> QED
    BY <1>4, <1>5, <1>6, <1>7, <1>8, <1>9

LEMMA StutterInvariant == IInv /\ UNCHANGED vars => IInv'
BY DEF vars, fields, IInv, TypeOK, NoDangling, EndsInv, LinksInv, PathsInv, SizeExact

LEMMA NextInvariant == IInv /\ [Next]_vars => IInv'
<1> SUFFICES ASSUME IInv, Next PROVE IInv'
    BY StutterInvariant
<1>1. CASE \E p \in Paths, s \in Servers : AddBelowCapacity(p, s) \/ AddEvicting(p, s)
    BY <1>1, AddBelowCapacityInvariant, AddEvictingInvariant
<1>2. CASE \E p \in Paths, result \in Servers \cup {NULL} : GetFromCache(p, result)
    <2>1. PICK p \in Paths, result \in Servers \cup {NULL} : GetFromCache(p, result)
        BY <1>2
    <2>2. CASE UNCHANGED vars
        BY <2>2, StutterInvariant
    <2>3. CASE Found(p) # NULL /\ MoveToFront(Found(p))
        <3>1. Found(p) \in allocated
            BY <2>3, HashAssumption DEF Found, IInv, NoDangling
        <3> QED
            BY <2>3, <3>1, MoveToFrontInvariant
    <2> QED
        BY <2>1, <2>2, <2>3 DEF GetFromCache, GetMiss, GetHit
<1> QED
    BY <1>1, <1>2 DEF Next

\* Live nodes are linked among themselves, in both directions, from head to tail.
THEOREM Invariance == Spec => []IInv
BY InitInvariant, NextInvariant, PTL DEF Spec

\* The fields keep their types; the list never outgrows the capacity.
THEOREM TypeCorrect == Spec => []TypeOK
BY Invariance, PTL DEF IInv

\* No list pointer and no bucket leads to a freed node, whatever the hash
\* function and the order of calls.
THEOREM NoPointerDangles == Spec => []NoDangling
BY Invariance, PTL DEF IInv
-----------------------------------------------------------------------------
(***************************************************************************)
(* The order of the list.  The nodes in the order of their use are a       *)
(* sequence o that next follows and that has every live node once; which   *)
(* sequence it is changes with the steps, so that the invariant says that  *)
(* there is one, and each step is shown to make the next from the last.    *)
(***************************************************************************)

\* o lists the live nodes, each once, from head along next; a bucket that the
\* node at i belongs to does not point to a later one.
IsOrder(o) ==
    /\ o \in [1 .. size -> allocated]
    /\ \A n \in allocated : \E i \in 1 .. size : o[i] = n
    /\ \A i, j \in 1 .. size : o[i] = o[j] => i = j
    /\ size > 0 => o[1] = head
    /\ \A i \in 1 .. size : i < size => next[o[i]] = o[i + 1]
    /\ \A i, j \in 1 .. size : i < j => hashmap[Hash[path[o[i]]]] # o[j]

OrderInv == \E o \in [1 .. size -> Nodes] : IsOrder(o)

\* What is cached in a node.
Entry(n) == [path |-> path[n], server |-> server[n]]

LEMMA InitOrder == Init => OrderInv
<1> SUFFICES ASSUME Init PROVE OrderInv
    OBVIOUS
<1> DEFINE o == [i \in 1 .. size |-> NULL]
<1>1. size = 0 /\ allocated = {} /\ 1 .. size = {}
    BY DEF Init
<1>2. o \in [1 .. size -> Nodes] /\ IsOrder(o)
    BY <1>1 DEF IsOrder
<1> QED
    BY <1>2 DEF OrderInv

\* The last node of the order is tail.
LEMMA TailIsLast ==
    ASSUME IInv, NEW o, IsOrder(o), size > 0
    PROVE  o[size] = tail /\ tail \in allocated
<1>1. size \in Nat /\ size \in 1 .. size
    BY CapacityAssumption DEF IInv, TypeOK
<1>2. o[size] \in allocated
    BY <1>1 DEF IsOrder
<1>3. tail \in allocated
    BY <1>2 DEF IInv, EndsInv, NoDangling
<1>4. PICK j \in 1 .. size : o[j] = tail
    BY <1>3 DEF IsOrder
<1>5. CASE j < size
    <2>1. next[o[j]] = o[j + 1] /\ j + 1 \in 1 .. size
        BY <1>1, <1>5 DEF IsOrder
    <2>2. o[j + 1] \in allocated
        BY <2>1 DEF IsOrder
    <2>3. next[tail] = NULL
        BY <1>3 DEF IInv, EndsInv
    <2> QED
        BY <1>4, <2>1, <2>2, <2>3, NULLAssumption DEF IInv, TypeOK
<1>6. CASE j = size
    BY <1>3, <1>4, <1>6
<1> QED
    BY <1>1, <1>5, <1>6

LEMMA AddBelowCapacityOrder ==
    ASSUME IInv, NEW o, IsOrder(o),
           NEW p \in Paths, NEW s \in Servers, AddBelowCapacity(p, s)
    PROVE  /\ size' = size + 1
           /\ \E q \in [1 .. size' -> Nodes] :
                 /\ IsOrder(q)'
                 /\ \A i \in 1 .. size' :
                       Entry(q[i])' = IF i = 1 THEN [path |-> p, server |-> s]
                                      ELSE Entry(o[i - 1])
<1>1. PICK n \in Nodes \ allocated :
          /\ allocated' = allocated \cup {n}
          /\ path' = [path EXCEPT ![n] = p]
          /\ server' = [server EXCEPT ![n] = s]
          /\ hashmap' = [hashmap EXCEPT ![Hash[p]] = n]
          /\ next' = [next EXCEPT ![n] = head]
          /\ head' = n
    BY DEF AddBelowCapacity, BucketsWithNew, NextWithNew
<1>2. IsOrder(o)
    OBVIOUS
<1>3. size' = size + 1 /\ size \in Nat
    BY CapacityAssumption DEF AddBelowCapacity, IInv, TypeOK
<1>4. PICK q : q = [i \in 1 .. size' |-> IF i = 1 THEN n ELSE o[i - 1]]
    OBVIOUS
<1>5. /\ q[1] = n
      /\ \A i \in 1 .. size' : i # 1 => q[i] = o[i - 1] /\ i - 1 \in 1 .. size
      /\ \A i \in 1 .. size : q[i + 1] = o[i] /\ i + 1 \in 1 .. size'
      /\ DOMAIN q = 1 .. size' /\ 1 \in 1 .. size'
      /\ q = [i \in 1 .. size' |-> q[i]]
    BY <1>3, <1>4
<1>6. /\ \A i \in 1 .. size : o[i] \in allocated /\ o[i] \in Nodes /\ o[i] # n
      /\ allocated \subseteq Nodes
    BY <1>2 DEF IsOrder, IInv, TypeOK
<1>7. /\ \A i \in 1 .. size' : q[i] \in allocated'
      /\ q \in [1 .. size' -> Nodes] /\ q \in [1 .. size' -> allocated']
    <2>1. \A i \in 1 .. size' : q[i] \in allocated' /\ q[i] \in Nodes
        BY <1>1, <1>5, <1>6
    <2> QED
        BY <1>5, <2>1
<1>8. \A x \in allocated' : \E i \in 1 .. size' : q[i] = x
    <2> SUFFICES ASSUME NEW x \in allocated', x # n
                 PROVE  \E i \in 1 .. size' : q[i] = x
        BY <1>5
    <2>1. PICK i \in 1 .. size : o[i] = x
        BY <1>1, <1>2 DEF IsOrder
    <2> QED
        BY <1>5, <2>1
<1>9. \A i, j \in 1 .. size' : q[i] = q[j] => i = j
    <2> SUFFICES ASSUME NEW i \in 1 .. size', NEW j \in 1 .. size', q[i] = q[j]
                 PROVE  i = j
        OBVIOUS
    <2>1. CASE i = 1 \/ j = 1
        BY <1>5, <1>6, <2>1
    <2>2. CASE i # 1 /\ j # 1
        <3>1. i - 1 = j - 1
            BY <1>2, <1>5, <2>2 DEF IsOrder
        <3> QED
            BY <1>3, <3>1
    <2> QED
        BY <2>1, <2>2
<1>10. \A i \in 1 .. size' : i < size' => next'[q[i]] = q[i + 1]
    <2> SUFFICES ASSUME NEW i \in 1 .. size', i < size'
                 PROVE  next'[q[i]] = q[i + 1]
        OBVIOUS
    <2>1. CASE i = 1
        <3>1. 1 \in 1 .. size /\ size > 0
            BY <1>3, <2>1
        <3>2. q[i + 1] = head
            BY <1>2, <1>5, <2>1, <3>1 DEF IsOrder
        <3> QED
            BY <1>1, <1>5, <2>1, <3>2 DEF IInv, TypeOK
    <2>2. CASE i # 1
        <3>1. /\ i - 1 \in 1 .. size /\ i - 1 < size /\ i - 1 + 1 = i
              /\ i \in 1 .. size
            BY <1>3, <2>2
        <3>2. next[o[i - 1]] = o[i]
            BY <1>2, <3>1 DEF IsOrder
        <3> QED
            BY <1>1, <1>5, <1>6, <2>2, <3>1, <3>2 DEF IInv, TypeOK
    <2> QED
        BY <2>1, <2>2
<1>11. \A i, j \in 1 .. size' : i < j => hashmap'[Hash[path'[q[i]]]] # q[j]
    <2> SUFFICES ASSUME NEW i \in 1 .. size', NEW j \in 1 .. size', i < j
                 PROVE  hashmap'[Hash[path'[q[i]]]] # q[j]
        OBVIOUS
    <2>1. j # 1 /\ q[j] = o[j - 1] /\ j - 1 \in 1 .. size /\ q[j] # n
        BY <1>3, <1>5, <1>6
    <2>2. hashmap \in [Buckets -> Nodes \cup {NULL}] /\ path \in [Nodes -> Paths \cup {NULL}]
        BY DEF IInv, TypeOK
    <2>3. CASE i = 1
        <3>1. path'[q[i]] = p
            BY <1>1, <1>5, <2>2, <2>3
        <3> QED
            BY <1>1, <2>1, <2>2, <3>1, HashAssumption
    <2>4. CASE i # 1
        <3>1. q[i] = o[i - 1] /\ i - 1 \in 1 .. size /\ i - 1 < j - 1
            BY <1>3, <1>5, <2>4
        <3>2. path'[q[i]] = path[o[i - 1]]
            BY <1>1, <1>6, <2>2, <3>1
        <3>3. hashmap[Hash[path[o[i - 1]]]] # o[j - 1]
            BY <1>2, <2>1, <3>1 DEF IsOrder
        <3>4. path[o[i - 1]] \in Paths
            BY <1>6, <3>1 DEF IInv, PathsInv
        <3> QED
            BY <1>1, <2>1, <2>2, <3>2, <3>3, <3>4, HashAssumption
    <2> QED
        BY <2>3, <2>4
<1>12. IsOrder(q)'
    BY <1>1, <1>5, <1>7, <1>8, <1>9, <1>10, <1>11 DEF IsOrder
<1>13. ASSUME NEW i \in 1 .. size'
       PROVE  Entry(q[i])' = IF i = 1 THEN [path |-> p, server |-> s]
                             ELSE Entry(o[i - 1])
    <2>1. path \in [Nodes -> Paths \cup {NULL}] /\ server \in [Nodes -> Servers \cup {NULL}]
        BY DEF IInv, TypeOK
    <2>2. CASE i = 1
        BY <1>1, <1>5, <2>1, <2>2 DEF Entry
    <2>3. CASE i # 1
        BY <1>1, <1>5, <1>6, <2>1, <2>3 DEF Entry
    <2> QED
        BY <2>2, <2>3
<1> QED
    BY <1>3, <1>7, <1>12, <1>13

LEMMA AddEvictingOrder ==
    ASSUME IInv, NEW o, IsOrder(o),
           NEW p \in Paths, NEW s \in Servers, AddEvicting(p, s)
    PROVE  /\ size' = size /\ size = Capacity
           /\ \E q \in [1 .. size' -> Nodes] :
                 /\ IsOrder(q)'
                 /\ \A i \in 1 .. size' :
                       Entry(q[i])' = IF i = 1 THEN [path |-> p, server |-> s]
                                      ELSE Entry(o[i - 1])
<1>1. PICK n \in Nodes \ allocated :
          LET last == PrevWithNew(n)[tail]
          IN  /\ allocated' = (allocated \cup {n}) \ {tail}
              /\ path' = [path EXCEPT ![n] = p, ![tail] = NULL]
              /\ server' = [server EXCEPT ![n] = s, ![tail] = NULL]
              /\ hashmap' = BucketsAfterEviction(n, p)
              /\ next' = [NextWithNew(n) EXCEPT ![last] = NULL]
              /\ head' = n
    BY DEF AddEvicting
<1>2. IsOrder(o)
    OBVIOUS
<1>3. size' = size /\ size \in Nat /\ size > 0 /\ 1 \in 1 .. size /\ size \in 1 .. size
    BY CapacityAssumption DEF AddEvicting, Fits, IInv, TypeOK
<1>4. PICK q : q = [i \in 1 .. size' |-> IF i = 1 THEN n ELSE o[i - 1]]
    OBVIOUS
<1>5. /\ q[1] = n
      /\ \A i \in 1 .. size : i # 1 => /\ q[i] = o[i - 1]
                                       /\ i - 1 \in 1 .. size /\ i - 1 < size
      /\ \A i \in 1 .. size : i < size => q[i + 1] = o[i] /\ i + 1 \in 1 .. size
      /\ DOMAIN q = 1 .. size
      /\ q = [i \in 1 .. size |-> q[i]]
    BY <1>3, <1>4
<1>6. /\ \A i \in 1 .. size : o[i] \in allocated /\ o[i] \in Nodes /\ o[i] # n
      /\ allocated \subseteq Nodes
    BY <1>2 DEF IsOrder, IInv, TypeOK
<1>7. o[size] = tail /\ tail \in allocated /\ tail # n
    BY <1>2, <1>3, TailIsLast
<1>8. \A i \in 1 .. size : i < size => o[i] # tail
    BY <1>2, <1>3, <1>7 DEF IsOrder
<1> DEFINE last == IF tail = head THEN n ELSE prev[tail]
<1>9. /\ PrevWithNew(n)[tail] = last
      /\ last # n => next[last] = tail
      /\ last = n => tail = head
    BY <1>7, NULLAssumption DEF PrevWithNew, IInv, TypeOK, EndsInv, LinksInv, NoDangling
<1>10. next' = [[next EXCEPT ![n] = head] EXCEPT ![last] = NULL]
    BY <1>1, <1>9 DEF NextWithNew
<1> HIDE DEF last
<1>11. /\ next \in [Nodes -> Nodes \cup {NULL}] /\ path \in [Nodes -> Paths \cup {NULL}]
       /\ hashmap \in [Buckets -> Nodes \cup {NULL}]
    BY DEF IInv, TypeOK
<1>12. \A i \in 1 .. size : q[i] \in allocated' /\ q[i] \in Nodes
    <2> SUFFICES ASSUME NEW i \in 1 .. size PROVE q[i] \in allocated' /\ q[i] \in Nodes
        OBVIOUS
    <2>1. CASE i = 1
        BY <1>1, <1>5, <1>7, <2>1
    <2>2. CASE i # 1
        BY <1>1, <1>5, <1>6, <1>8, <2>2
    <2> QED
        BY <2>1, <2>2
<1>13. q \in [1 .. size -> Nodes] /\ q \in [1 .. size -> allocated']
    BY <1>5, <1>12
<1>14. \A x \in allocated' : \E i \in 1 .. size : q[i] = x
    <2> SUFFICES ASSUME NEW x \in allocated', x # n
                 PROVE  \E i \in 1 .. size : q[i] = x
        BY <1>3, <1>5
    <2>1. x \in allocated /\ x # tail
        BY <1>1
    <2>2. PICK i \in 1 .. size : o[i] = x
        BY <1>2, <2>1 DEF IsOrder
    <2>3. i < size
        BY <1>3, <1>7, <2>1, <2>2
    <2> QED
        BY <1>5, <2>2, <2>3
<1>15. \A i, j \in 1 .. size : q[i] = q[j] => i = j
    <2> SUFFICES ASSUME NEW i \in 1 .. size, NEW j \in 1 .. size, q[i] = q[j]
                 PROVE  i = j
        OBVIOUS
    <2>1. CASE i = 1 \/ j = 1
        BY <1>5, <1>6, <2>1
    <2>2. CASE i # 1 /\ j # 1
        <3>1. i - 1 = j - 1
            BY <1>2, <1>5, <2>2 DEF IsOrder
        <3> QED
            BY <1>3, <3>1
    <2> QED
        BY <2>1, <2>2
<1>16. \A i \in 1 .. size : i < size => next'[q[i]] = q[i + 1]
    <2> SUFFICES ASSUME NEW i \in 1 .. size, i < size
                 PROVE  next'[q[i]] = o[i]
        BY <1>5
    <2>1. o[i] # tail
        BY <1>8
    <2>2. CASE i = 1
        <3>1. o[1] = head /\ last # n
            BY <1>2, <1>3, <1>9, <2>1, <2>2 DEF IsOrder
        <3> QED
            BY <1>5, <1>10, <1>11, <2>2, <3>1
    <2>3. CASE i # 1
        <3>1. /\ q[i] = o[i - 1] /\ i - 1 \in 1 .. size /\ i - 1 < size
              /\ i - 1 + 1 = i
            BY <1>3, <1>5, <2>3
        <3>2. next[o[i - 1]] = o[i]
            BY <1>2, <3>1 DEF IsOrder
        <3>3. q[i] # n /\ q[i] \in Nodes /\ q[i] # last
            BY <1>6, <1>9, <2>1, <3>1, <3>2
        <3> QED
            BY <1>10, <1>11, <3>1, <3>2, <3>3
    <2> QED
        BY <2>2, <2>3
<1>17. \A i, j \in 1 .. size : i < j => hashmap'[Hash[path'[q[i]]]] # q[j]
    <2> SUFFICES ASSUME NEW i \in 1 .. size, NEW j \in 1 .. size, i < j
                 PROVE  hashmap'[Hash[path'[q[i]]]] # q[j]
        OBVIOUS
    <2>1. /\ j # 1 /\ q[j] = o[j - 1] /\ j - 1 \in 1 .. size
          /\ q[j] # n /\ q[j] # NULL
        BY <1>3, <1>5, <1>6, NULLAssumption
    <2>2. path[tail] \in Paths
        BY <1>7 DEF IInv, PathsInv
    <2>3. hashmap' = [hashmap EXCEPT ![Hash[p]] = n, ![Hash[path[tail]]] = NULL]
        BY <1>1 DEF BucketsAfterEviction, BucketsWithNew
    <2>4. \A h \in Buckets : hashmap'[h] \in {n, NULL, hashmap[h]}
        BY <1>11, <2>2, <2>3, HashAssumption
    <2>5. CASE i = 1
        <3>1. path'[q[i]] = p
            BY <1>1, <1>5, <1>7, <1>11, <2>5
        <3>2. hashmap'[Hash[p]] \in {n, NULL}
            BY <1>11, <2>2, <2>3, HashAssumption
        <3> QED
            BY <2>1, <3>1, <3>2
    <2>6. CASE i # 1
        <3>1. q[i] = o[i - 1] /\ i - 1 \in 1 .. size /\ i - 1 < j - 1 /\ i - 1 < size
            BY <1>3, <1>5, <2>6
        <3>2. path'[q[i]] = path[o[i - 1]]
            BY <1>1, <1>6, <1>8, <1>11, <3>1
        <3>3. hashmap[Hash[path[o[i - 1]]]] # o[j - 1]
            BY <1>2, <2>1, <3>1 DEF IsOrder
        <3>4. Hash[path[o[i - 1]]] \in Buckets
            BY <1>6, <3>1, HashAssumption DEF IInv, PathsInv
        <3> QED
            BY <2>1, <2>4, <3>2, <3>3, <3>4
    <2> QED
        BY <2>5, <2>6
<1>18. IsOrder(q)'
    BY <1>1, <1>3, <1>5, <1>13, <1>14, <1>15, <1>16, <1>17 DEF IsOrder
<1>19. ASSUME NEW i \in 1 .. size
       PROVE  Entry(q[i])' = IF i = 1 THEN [path |-> p, server |-> s]
                             ELSE Entry(o[i - 1])
    <2>1. server \in [Nodes -> Servers \cup {NULL}]
        BY DEF IInv, TypeOK
    <2>2. CASE i = 1
        BY <1>1, <1>5, <1>7, <1>11, <2>1, <2>2 DEF Entry
    <2>3. CASE i # 1
        BY <1>1, <1>5, <1>6, <1>8, <1>11, <2>1, <2>3 DEF Entry
    <2> QED
        BY <2>2, <2>3
<1>20. size = Capacity
    BY CapacityAssumption DEF AddEvicting, Fits, IInv, TypeOK
<1> QED
    BY <1>3, <1>13, <1>18, <1>19, <1>20

\* A node that its bucket points to is moved to the front.
LEMMA MoveToFrontOrder ==
    ASSUME IInv, NEW o, IsOrder(o), NEW n \in allocated, MoveToFront(n),
           hashmap[Hash[path[n]]] = n
    PROVE  /\ size' = size
           /\ \E k \in 1 .. size, q \in [1 .. size' -> Nodes] :
                 /\ IsOrder(q)'
                 /\ \A i \in 1 .. size' :
                       Entry(q[i])' = Entry(o[IF i = 1 THEN k
                                              ELSE IF i <= k THEN i - 1 ELSE i])
<1>1. /\ n # head /\ head' = n
      /\ UNCHANGED <<allocated, path, server, size, hashmap>>
      /\ \A x \in Nodes : next'[x] = IF x = n THEN head
                                     ELSE IF x = prev[n] THEN next[n] ELSE next[x]
    BY DEF MoveToFront, fields, NextWithMoved
<1>2. IsOrder(o)
    OBVIOUS
<1>3. PICK k \in 1 .. size : o[k] = n
    BY <1>2 DEF IsOrder
<1>4. size \in Nat /\ k # 1 /\ 1 \in 1 .. size
    <2>1. size \in Nat
        BY CapacityAssumption DEF IInv, TypeOK
    <2> QED
        BY <1>1, <1>2, <1>3, <2>1 DEF IsOrder
<1>5. /\ \A i \in 1 .. size : o[i] \in allocated /\ o[i] \in Nodes
      /\ allocated \subseteq Nodes
    BY <1>2 DEF IsOrder, IInv, TypeOK
<1> DEFINE from(i) == IF i = 1 THEN k ELSE IF i <= k THEN i - 1 ELSE i
<1>6. /\ \A i \in 1 .. size : from(i) \in 1 .. size
      /\ \A i, j \in 1 .. size : from(i) = from(j) => i = j
      /\ \A i \in 1 .. size : \E j \in 1 .. size : from(j) = i
      /\ \A i, j \in 1 .. size : i < j => from(j) # k
      /\ \A i, j \in 1 .. size : i < j /\ i # 1 => from(i) < from(j)
    <2>1. \A i \in 1 .. size : from(i) \in 1 .. size
        BY <1>3, <1>4
    <2>2. \A i, j \in 1 .. size : from(i) = from(j) => i = j
        BY <1>3, <1>4
    <2>3. ASSUME NEW i \in 1 .. size PROVE \E j \in 1 .. size : from(j) = i
        <3>1. CASE i = k
            BY <1>4, <3>1
        <3>2. CASE i < k
            <4>1. i + 1 \in 1 .. size /\ from(i + 1) = i
                BY <1>3, <1>4, <3>2
            <4> QED
                BY <4>1
        <3>3. CASE i > k
            <4>1. from(i) = i
                BY <1>3, <1>4, <3>3
            <4> QED
                BY <4>1
        <3> QED
            BY <1>3, <1>4, <3>1, <3>2, <3>3
    <2>4. \A i, j \in 1 .. size : i < j => from(j) # k
        BY <1>3, <1>4
    <2>5. \A i, j \in 1 .. size : i < j /\ i # 1 => from(i) < from(j)
        BY <1>3, <1>4
    <2> QED
        BY <2>1, <2>2, <2>3, <2>4, <2>5
<1>7. PICK q : q = [i \in 1 .. size |-> o[from(i)]]
    OBVIOUS
<1>8. /\ \A i \in 1 .. size : q[i] = o[from(i)]
      /\ DOMAIN q = 1 .. size /\ q = [i \in 1 .. size |-> q[i]]
    BY <1>7
<1>9. q[1] = n
    BY <1>3, <1>4, <1>8
<1>10. q \in [1 .. size -> Nodes] /\ q \in [1 .. size -> allocated]
    <2> HIDE DEF from
    <2>1. \A i \in 1 .. size : q[i] \in allocated /\ q[i] \in Nodes
        BY <1>5, <1>6, <1>8
    <2> QED
        BY <1>8, <2>1
<1>11. \A x \in allocated : \E i \in 1 .. size : q[i] = x
    <2> HIDE DEF from
    <2> SUFFICES ASSUME NEW x \in allocated PROVE \E i \in 1 .. size : q[i] = x
        OBVIOUS
    <2>1. PICK i \in 1 .. size : o[i] = x
        BY <1>2 DEF IsOrder
    <2>2. PICK j \in 1 .. size : from(j) = i
        BY <1>6
    <2> QED
        BY <1>8, <2>1, <2>2
<1>12. \A i, j \in 1 .. size : q[i] = q[j] => i = j
    <2> HIDE DEF from
    <2> QED
        BY <1>2, <1>6, <1>8 DEF IsOrder
<1>13. \A i \in 1 .. size : i < size => next'[q[i]] = q[i + 1]
    <2> SUFFICES ASSUME NEW i \in 1 .. size, i < size
                 PROVE  next'[o[from(i)]] = o[from(i + 1)]
        BY <1>4, <1>8
    <2>1. next[o[k - 1]] = n /\ k - 1 \in 1 .. size
        <3>1. k - 1 \in 1 .. size /\ k - 1 < size /\ k - 1 + 1 = k
            BY <1>3, <1>4
        <3> QED
            BY <1>2, <1>3, <3>1 DEF IsOrder
    <2>2. prev[n] = o[k - 1]
        <3>1. next[o[k - 1]] # NULL /\ o[k - 1] \in allocated
            BY <1>5, <2>1, NULLAssumption
        <3> QED
            BY <2>1, <3>1 DEF IInv, LinksInv
    <2>3. \A j \in 1 .. size : (j # k => o[j] # n) /\ (j # k - 1 => o[j] # prev[n])
        BY <1>2, <1>3, <2>1, <2>2 DEF IsOrder
    <2>4. \A j \in 1 .. size : j < size => next[o[j]] = o[j + 1]
        BY <1>2 DEF IsOrder
    <2>5. CASE i = 1
        <3>1. o[1] = head
            BY <1>2, <1>4 DEF IsOrder
        <3>2. from(i) = k /\ from(i + 1) = 1
            BY <1>3, <1>4, <2>5
        <3> QED
            BY <1>1, <1>3, <1>5, <3>1, <3>2
    <2>6. CASE i # 1 /\ i < k
        <3>1. /\ from(i) = i - 1 /\ from(i + 1) = i /\ i - 1 \in 1 .. size
              /\ i - 1 < size /\ i - 1 # k /\ i - 1 # k - 1 /\ i - 1 + 1 = i
            BY <1>3, <1>4, <2>6
        <3>2. next[o[i - 1]] = o[i]
            BY <2>4, <3>1
        <3>3. next'[o[i - 1]] = next[o[i - 1]]
            BY <1>1, <1>5, <2>3, <3>1
        <3> QED
            BY <3>1, <3>2, <3>3
    <2>7. CASE i = k
        <3>1. from(i) = k - 1 /\ from(i + 1) = k + 1 /\ k - 1 # k
            BY <1>3, <1>4, <2>7
        <3>2. next'[o[k - 1]] = next[n]
            BY <1>1, <1>5, <2>1, <2>2, <2>3, <3>1
        <3>3. next[n] = o[k + 1]
            BY <1>3, <2>4, <2>7
        <3> QED
            BY <3>1, <3>2, <3>3
    <2>8. CASE i > k
        <3>1. from(i) = i /\ from(i + 1) = i + 1 /\ i # k /\ i # k - 1
            BY <1>3, <1>4, <2>8
        <3>2. next'[o[i]] = next[o[i]]
            BY <1>1, <1>5, <2>3, <3>1
        <3> QED
            BY <2>4, <3>1, <3>2
    <2> QED
        BY <1>3, <1>4, <2>5, <2>6, <2>7, <2>8
<1>14. \A i, j \in 1 .. size : i < j => hashmap[Hash[path[q[i]]]] # q[j]
    <2> SUFFICES ASSUME NEW i \in 1 .. size, NEW j \in 1 .. size, i < j
                 PROVE  hashmap[Hash[path[q[i]]]] # q[j]
        OBVIOUS
    <2>1. CASE i = 1
        <3> HIDE DEF from
        <3>1. q[j] # n
            BY <1>2, <1>3, <1>6, <1>8 DEF IsOrder
        <3> QED
            BY <1>9, <2>1, <3>1
    <2>2. CASE i # 1
        <3> HIDE DEF from
        <3>1. from(i) \in 1 .. size /\ from(j) \in 1 .. size /\ from(i) < from(j)
            BY <1>6, <2>2
        <3>2. hashmap[Hash[path[o[from(i)]]]] # o[from(j)]
            BY <1>2, <3>1 DEF IsOrder
        <3> QED
            BY <1>8, <3>2
    <2> QED
        BY <2>1, <2>2
<1> HIDE DEF from
<1>15. IsOrder(q)'
    BY <1>1, <1>8, <1>9, <1>10, <1>11, <1>12, <1>13, <1>14 DEF IsOrder
<1>16. \A i \in 1 .. size : Entry(q[i])' = Entry(o[from(i)])
    BY <1>1, <1>8 DEF Entry
<1> QED
    BY <1>1, <1>3, <1>10, <1>15, <1>16 DEF from

LEMMA StutterOrder ==
    ASSUME NEW o, IsOrder(o), UNCHANGED vars
    PROVE  IsOrder(o)'
BY DEF vars, IsOrder

LEMMA NextOrder == IInv /\ OrderInv /\ [Next]_vars => OrderInv'
<1> SUFFICES ASSUME IInv, OrderInv, [Next]_vars PROVE OrderInv'
    OBVIOUS
<1> PICK o \in [1 .. size -> Nodes] : IsOrder(o)
    BY DEF OrderInv
<1>1. CASE UNCHANGED vars
    BY <1>1, StutterOrder DEF vars, OrderInv
<1>2. CASE \E p \in Paths, s \in Servers : AddBelowCapacity(p, s) \/ AddEvicting(p, s)
    BY <1>2, AddBelowCapacityOrder, AddEvictingOrder DEF OrderInv
<1>3. CASE \E p \in Paths, result \in Servers \cup {NULL} : GetFromCache(p, result)
    <2>1. PICK p \in Paths : UNCHANGED vars \/ (Found(p) # NULL /\ MoveToFront(Found(p)))
        BY <1>3 DEF GetFromCache, GetMiss, GetHit
    <2>2. CASE Found(p) # NULL /\ MoveToFront(Found(p))
        <3>1. Found(p) \in allocated /\ hashmap[Hash[path[Found(p)]]] = Found(p)
            BY <2>2, HashAssumption DEF Found, IInv, NoDangling, PathsInv
        <3> QED
            BY <2>2, <3>1, MoveToFrontOrder DEF OrderInv
    <2> QED
        BY <1>1, <2>1, <2>2
<1> QED
    BY <1>1, <1>2, <1>3 DEF Next

\* The live nodes always have an order that next follows and buckets respect.
THEOREM OrderInvariance == Spec => [](IInv /\ OrderInv)
BY InitInvariant, NextInvariant, InitOrder, NextOrder, PTL DEF Spec

-----------------------------------------------------------------------------
(***************************************************************************)
(* What the walks of the list compute.  Walk is defined by a recursive     *)
(* function, which is some function that satisfies its equation: the order *)
(* does, and two that do cannot differ, for want of a least place where.   *)
(***************************************************************************)

\* Some number of a nonempty set of numbers up to n is the least.
LEMMA LeastNumber ==
    ASSUME NEW n \in Nat, NEW D, D \subseteq 1 .. n, D # {}
    PROVE  \E m \in D : \A k \in D : k >= m
<1> DEFINE upTo(m) == {k \in D : k <= m}
           T == {upTo(m) : m \in D}
<1>1. IsFiniteSet(D) /\ \A k \in D : k \in Nat
    <2>1. IsFiniteSet(1 .. n)
        BY FS_Interval
    <2>2. IsFiniteSet(D)
        BY <2>1, FS_Subset
    <2>3. \A k \in 1 .. n : k \in Nat
        OBVIOUS
    <2> QED
        BY <2>2, <2>3
<1>2. IsWellFoundedOn(StrictSubsetOrdering(D), FiniteSubsetsOf(D))
    BY FS_StrictSubsetOrderingWellFounded
<1>3. T \subseteq FiniteSubsetsOf(D) /\ T # {}
    <2>1. \A m \in D : upTo(m) \in SUBSET D
        OBVIOUS
    <2>2. FiniteSubsetsOf(D) = SUBSET D
        BY <1>1, FS_FiniteSubsetsOfFinite
    <2> HIDE DEF upTo
    <2>3. T \subseteq SUBSET D
        BY <2>1
    <2>4. T # {}
        OBVIOUS
    <2> QED
        BY <2>2, <2>3, <2>4
<1>4. PICK t \in T : \A s \in T : ~ (<<s, t>> \in StrictSubsetOrdering(D))
    <2> HIDE DEF T
    <2> QED
        BY <1>2, <1>3, WFMin
<1>5. PICK m \in D : t = upTo(m)
    OBVIOUS
<1>6. ASSUME NEW k \in D, ~(k >= m) PROVE FALSE
    <2>1. k \in Nat /\ m \in Nat /\ k < m
        BY <1>1, <1>6
    <2>2. upTo(k) \subseteq upTo(m) /\ m \in upTo(m) /\ m \notin upTo(k)
        <3>1. \A x \in D : x <= k => x <= m
            BY <1>1, <2>1
        <3>2. m <= m /\ ~(m <= k)
            BY <2>1
        <3> QED
            BY <3>1, <3>2
    <2>3. upTo(k) \in T /\ upTo(k) \in SUBSET D /\ upTo(m) \in SUBSET D
        OBVIOUS
    <2> HIDE DEF upTo
    <2>4. <<upTo(k), upTo(m)>> \in StrictSubsetOrdering(D)
        BY <2>2, <2>3 DEF StrictSubsetOrdering
    <2> QED
        BY <1>4, <1>5, <2>3, <2>4
<1> QED
    BY <1>6

\* The size nodes of o start with first and are linked by link.
Follows(o, first, link) ==
    /\ o = [i \in 1 .. size |-> o[i]]
    /\ \A i \in 1 .. size : o[i] # NULL
    /\ size > 0 => o[1] = first
    /\ \A i \in 1 .. size : i < size => link[o[i]] = o[i + 1]

LEMMA WalkFollows ==
    ASSUME size \in Nat, NEW o, NEW first, NEW link, Follows(o, first, link)
    PROVE  Walk(first, link) = o
<1> USE DEF Follows
<1> DEFINE step(f, i) == IF i = 1 THEN first
                         ELSE IF f[i - 1] = NULL THEN NULL ELSE link[f[i - 1]]
           Walks(f) == f = [i \in 1 .. size |-> step(f, i)]
           node == CHOOSE f : Walks(f)
<1>1. \A i \in 1 .. size : o[i] = step(o, i)
    <2> SUFFICES ASSUME NEW i \in 1 .. size, i # 1 PROVE o[i] = link[o[i - 1]] /\ o[i - 1] # NULL
        OBVIOUS
    <2>1. i - 1 \in 1 .. size /\ i - 1 < size /\ i - 1 + 1 = i
        OBVIOUS
    <2> QED
        BY <2>1
<1>2. Walks(o)
    BY <1>1
<1>3. Walks(node)
    BY <1>2
<1>4. Walk(first, link) = [i \in 1 .. size |-> node[i]]
    BY DEF Walk
<1>5. \A i \in 1 .. size : node[i] = step(node, i)
    BY <1>3
<1> HIDE DEF node
<1> DEFINE D == {i \in 1 .. size : node[i] # o[i]}
<1>6. CASE D # {}
    <2>1. PICK m \in D : \A k \in D : k >= m
        <3>1. D \subseteq 1 .. size
            OBVIOUS
        <3> HIDE DEF D
        <3> QED
            BY <1>6, <3>1, LeastNumber
    <2>2. m \in 1 .. size /\ node[m] # o[m]
        BY <2>1
    <2>3. m # 1
        BY <1>1, <1>5, <2>2
    <2>4. m - 1 \in 1 .. size /\ ~(m - 1 >= m)
        BY <2>2, <2>3
    <2>5. node[m - 1] = o[m - 1]
        BY <2>1, <2>4
    <2> QED
        BY <1>1, <1>5, <2>2, <2>5
<1>7. CASE D = {}
    BY <1>4, <1>7
<1> QED
    BY <1>6, <1>7

\* Following next from head lists the nodes in their order, and following prev
\* from tail in the reverse one.
LEMMA WalksAreOrder ==
    \A o : IInv /\ IsOrder(o) =>
        /\ Forward = o
        /\ Backward = [i \in 1 .. size |-> o[size + 1 - i]]
<1> SUFFICES ASSUME NEW o, IInv, IsOrder(o)
             PROVE  /\ Forward = o
                    /\ Backward = [i \in 1 .. size |-> o[size + 1 - i]]
    OBVIOUS
<1>1. size \in Nat
    BY CapacityAssumption DEF IInv, TypeOK
<1>2. /\ o = [i \in 1 .. size |-> o[i]]
      /\ \A i \in 1 .. size : o[i] # NULL /\ o[i] \in allocated
      /\ \A i \in 1 .. size : i < size => next[o[i]] = o[i + 1]
    BY NULLAssumption DEF IInv, TypeOK, IsOrder
<1>3. Forward = o
    <2>1. size > 0 => o[1] = head
        BY DEF IsOrder
    <2>2. Follows(o, head, next)
        BY <1>2, <2>1 DEF Follows
    <2> QED
        BY <1>1, <2>2, WalkFollows DEF Forward
<1> DEFINE b == [i \in 1 .. size |-> o[size + 1 - i]]
<1>4. \A i \in 1 .. size : size + 1 - i \in 1 .. size
    BY <1>1
<1>5. b = [i \in 1 .. size |-> b[i]] /\ \A i \in 1 .. size : b[i] # NULL
    BY <1>2, <1>4
<1>6. size > 0 => b[1] = tail
    <2> SUFFICES ASSUME size > 0 PROVE o[size + 1 - 1] = tail
        BY <1>1
    <2>1. size + 1 - 1 = size
        BY <1>1
    <2> QED
        BY <2>1, TailIsLast
<1>7. ASSUME NEW i \in 1 .. size, i < size PROVE prev[b[i]] = b[i + 1]
    <2>1. PICK j \in 1 .. size : j = size - i /\ j < size /\ j + 1 = size + 1 - i
        BY <1>1, <1>7
    <2>2. j = size + 1 - (i + 1) /\ i + 1 \in 1 .. size
        BY <1>1, <1>7, <2>1
    <2>3. b[i] = o[j + 1] /\ b[i + 1] = o[j]
        BY <2>1, <2>2
    <2>4. j + 1 \in 1 .. size
        BY <1>1, <2>1
    <2>5. next[o[j]] = o[j + 1] /\ o[j] \in allocated /\ o[j + 1] # NULL
        BY <1>2, <2>1, <2>4
    <2>6. prev[o[j + 1]] = o[j]
        BY <2>5 DEF IInv, LinksInv
    <2> QED
        BY <2>3, <2>6
<1>8. Walk(tail, prev) = b
    <2> HIDE DEF b
    <2>1. Follows(b, tail, prev)
        BY <1>5, <1>6, <1>7 DEF Follows
    <2> QED
        BY <1>1, <2>1, WalkFollows
<1> QED
    BY <1>3, <1>8 DEF Backward

LEMMA ListOfOrder == IInv /\ OrderInv => ListConsistent
<1> SUFFICES ASSUME IInv, OrderInv PROVE ListConsistent
    OBVIOUS
<1>1. PICK o : IsOrder(o)
    BY DEF OrderInv
<1>2. /\ Forward = o
      /\ Backward = [i \in 1 .. size |-> o[size + 1 - i]]
    BY <1>1, WalksAreOrder
<1>3. size = Cardinality(allocated) /\ size \in Nat
    BY CapacityAssumption DEF IInv, SizeExact, TypeOK
<1>4. {Forward[i] : i \in 1 .. size} = allocated
    BY <1>1, <1>2 DEF IsOrder
<1>5. \A i \in 1 .. size : Backward[i] = Forward[size + 1 - i]
    BY <1>2
<1>6. size = 0 => head = NULL /\ tail = NULL
    <2>1. size = 0 => allocated = {}
        BY <1>3, AllocatedFinite, FS_EmptySet DEF IInv
    <2> QED
        BY <2>1 DEF IInv, EndsInv
<1>7. size > 0 => next[tail] = NULL /\ prev[head] = NULL
    <2> SUFFICES ASSUME size > 0 PROVE next[tail] = NULL /\ prev[head] = NULL
        OBVIOUS
    <2>1. tail \in allocated
        BY <1>1, TailIsLast
    <2>2. head \in allocated
        BY <2>1 DEF IInv, EndsInv, NoDangling
    <2> QED
        BY <2>1, <2>2 DEF IInv, EndsInv
<1> QED
    BY <1>3, <1>4, <1>5, <1>6, <1>7 DEF ListConsistent

LEMMA BucketsOfOrder == IInv /\ OrderInv => BucketIsMostRecent
<1> SUFFICES ASSUME IInv, OrderInv PROVE BucketIsMostRecent
    OBVIOUS
<1>1. PICK o : IsOrder(o)
    BY DEF OrderInv
<1>2. Forward = o
    BY <1>1, WalksAreOrder
<1> QED
    BY <1>1, <1>2 DEF IsOrder, BucketIsMostRecent

\* Following next from head passes every live node once and ends at tail, and
\* following prev from tail passes them in the reverse order, for any number
\* of additions, evictions and moves from any place of the list.
THEOREM ListStaysConsistent == Spec => []ListConsistent
BY OrderInvariance, ListOfOrder, PTL

\* A bucket never leads to a node while a more recently used one has its hash.
THEOREM BucketsFindMostRecent == Spec => []BucketIsMostRecent
BY OrderInvariance, BucketsOfOrder, PTL

-----------------------------------------------------------------------------
(***************************************************************************)
(* The linked list implements the list of entries of LRUOrder.             *)
(***************************************************************************)

\* The value that LRU gives to the variable order of LRUOrder.
Contents ==
    [i \in 1 .. size |->
        [path |-> path[Forward[i]], server |-> server[Forward[i]]]]

OrderGivesContents ==
    \A o : IsOrder(o) => Contents = [i \in 1 .. size |-> Entry(o[i])]

LEMMA ContentsOfOrder == IInv => OrderGivesContents
BY WalksAreOrder DEF OrderGivesContents, Contents, Entry

LEMMA InitRefines == Init => LRU!Init
<1> SUFFICES ASSUME Init PROVE LRU!Init
    OBVIOUS
<1>1. 1 .. size = {}
    BY DEF Init
<1>2. Contents = <<>>
    BY <1>1 DEF Contents
<1> QED
    BY <1>2 DEF LRU!Init, Contents

\* A new entry in front of those that are kept.
LEMMA InsertRefines ==
    ASSUME NEW S, NEW n \in Nat, NEW k \in 0 .. n, NEW f \in [1 .. n -> S],
           NEW e, NEW g, g = [i \in 1 .. k + 1 |-> IF i = 1 THEN e ELSE f[i - 1]]
    PROVE  g = <<e>> \o SubSeq(f, 1, k)
<1>1. f \in Seq(S) /\ Len(f) = n
    OBVIOUS
<1>2. /\ SubSeq(f, 1, k) \in Seq(S) /\ Len(SubSeq(f, 1, k)) = k
      /\ \A i \in 1 .. k : SubSeq(f, 1, k)[i] = f[i]
    BY <1>1
<1> DEFINE kept == SubSeq(f, 1, k)
<1> HIDE DEF kept
<1>3. /\ DOMAIN (<<e>> \o kept) = 1 .. k + 1
      /\ \A i \in 1 .. k + 1 : (<<e>> \o kept)[i] = g[i]
    BY <1>2 DEF kept
<1> QED
    BY <1>3 DEF kept

\* The elements of two sequences joined.
LEMMA Concatenation ==
    ASSUME NEW S, NEW a \in Seq(S), NEW b \in Seq(S)
    PROVE  /\ a \o b \in Seq(S)
           /\ Len(a \o b) = Len(a) + Len(b)
           /\ \A i \in 1 .. Len(a) : (a \o b)[i] = a[i]
           /\ \A i \in Len(a) + 1 .. Len(a) + Len(b) : (a \o b)[i] = b[i - Len(a)]
OBVIOUS

\* The entry at k in front of the others.
LEMMA TouchRefines ==
    ASSUME NEW S, NEW n \in Nat, NEW k \in 1 .. n, NEW f \in [1 .. n -> S],
           NEW g, g = [i \in 1 .. n |-> f[IF i = 1 THEN k
                                          ELSE IF i <= k THEN i - 1 ELSE i]]
    PROVE  g = <<f[k]>> \o SubSeq(f, 1, k - 1) \o SubSeq(f, k + 1, n)
<1>1. f \in Seq(S) /\ Len(f) = n
    OBVIOUS
<1>2. /\ SubSeq(f, 1, k - 1) \in Seq(S) /\ Len(SubSeq(f, 1, k - 1)) = k - 1
      /\ \A i \in 1 .. k - 1 : SubSeq(f, 1, k - 1)[i] = f[i]
    BY <1>1
<1>3. /\ SubSeq(f, k + 1, n) \in Seq(S) /\ Len(SubSeq(f, k + 1, n)) = n - k
      /\ \A i \in 1 .. n - k : SubSeq(f, k + 1, n)[i] = f[i + k]
    BY <1>1
<1> DEFINE left == SubSeq(f, 1, k - 1)
           right == SubSeq(f, k + 1, n)
           front == <<f[k]>> \o left
<1> HIDE DEF left, right
<1>4. /\ left \in Seq(S) /\ Len(left) = k - 1
      /\ \A i \in 1 .. k - 1 : left[i] = f[i]
      /\ right \in Seq(S) /\ Len(right) = n - k
      /\ \A i \in 1 .. n - k : right[i] = f[i + k]
    BY <1>2, <1>3 DEF left, right
<1>5. /\ front \in Seq(S) /\ Len(front) = k /\ front[1] = f[k]
      /\ \A i \in 2 .. k : front[i] = f[i - 1]
    BY <1>4
<1> HIDE DEF front
<1>6. /\ front \o right \in Seq(S) /\ Len(front \o right) = n
      /\ \A i \in 1 .. k : (front \o right)[i] = front[i]
      /\ \A i \in k + 1 .. n : (front \o right)[i] = right[i - k]
    <2>1. /\ front \o right \in Seq(S)
          /\ Len(front \o right) = Len(front) + Len(right)
          /\ \A i \in 1 .. Len(front) : (front \o right)[i] = front[i]
          /\ \A i \in Len(front) + 1 .. Len(front) + Len(right) :
                (front \o right)[i] = right[i - Len(front)]
        <3>1. front \in Seq(S) /\ right \in Seq(S)
            BY <1>4, <1>5
        <3> QED
            BY <3>1, Concatenation
    <2>2. Len(front) = k /\ Len(right) = n - k /\ k + (n - k) = n
        BY <1>4, <1>5
    <2> HIDE DEF left, right, front
    <2> QED
        BY <2>1, <2>2
<1>7. ASSUME NEW i \in 1 .. n PROVE (front \o right)[i] = g[i]
    <2>1. CASE i = 1
        <3>1. 1 \in 1 .. k
            OBVIOUS
        <3> QED
            BY <1>5, <1>6, <2>1, <3>1
    <2>2. CASE i # 1 /\ i <= k
        <3>1. i \in 1 .. k /\ i \in 2 .. k
            BY <2>2
        <3>2. g[i] = f[i - 1]
            BY <2>2
        <3> QED
            BY <1>5, <1>6, <3>1, <3>2
    <2>3. CASE i > k
        <3>1. g[i] = f[i]
            BY <2>3
        <3>2. PICK j \in 1 .. n - k : j = i - k /\ j + k = i
            BY <2>3
        <3>3. right[i - k] = f[i]
            BY <1>4, <3>2
        <3>4. i \in k + 1 .. n
            BY <2>3
        <3> QED
            BY <1>6, <3>1, <3>3, <3>4
    <2>4. i \in Int /\ k \in Int
        OBVIOUS
    <2> HIDE DEF left, right, front
    <2>5. i <= k \/ i > k
        BY <2>4
    <2> QED
        BY <2>1, <2>2, <2>3, <2>5
<1>8. front \o right = g
    <2> DEFINE h == front \o right
    <2>1. h \in Seq(S) /\ Len(h) = n /\ \A i \in 1 .. n : h[i] = g[i]
        BY <1>6, <1>7
    <2>2. DOMAIN g = 1 .. n /\ g = [i \in 1 .. n |-> g[i]]
        OBVIOUS
    <2> HIDE DEF h
    <2>3. h = [i \in 1 .. n |-> h[i]]
        BY <2>1
    <2>4. h = g
        BY <2>1, <2>2, <2>3
    <2> QED
        BY <2>4 DEF h
<1> QED
    BY <1>8 DEF left, right, front

\* Every step of the list is a step of the entries, or none.
LEMMA NextRefines ==
    IInv /\ OrderInv /\ IInv' /\ [Next]_vars => [LRU!Next]_Contents
<1> SUFFICES ASSUME IInv, OrderInv, IInv', [Next]_vars
             PROVE  LRU!Next \/ UNCHANGED Contents
    OBVIOUS
<1>1. PICK o \in [1 .. size -> Nodes] : IsOrder(o)
    BY DEF OrderInv
<1>2. size \in Nat /\ Capacity \in Nat \ {0}
    BY CapacityAssumption DEF IInv, TypeOK
<1>3. Contents = [i \in 1 .. size |-> Entry(o[i])]
    BY <1>1, ContentsOfOrder DEF OrderGivesContents
<1>4. \A q : IsOrder(q)' => Contents' = [i \in 1 .. size' |-> Entry(q[i])']
    <2>1. OrderGivesContents'
        BY ContentsOfOrder, PTL
    <2> QED
        BY <2>1 DEF OrderGivesContents
<1> DEFINE f == [i \in 1 .. size |-> Entry(o[i])]
           S == {Entry(x) : x \in Nodes}
<1>5. f \in [1 .. size -> S] /\ f \in Seq(S) /\ Len(f) = size
    <2>1. f \in [1 .. size -> S]
        BY <1>1
    <2> HIDE DEF f, S
    <2> QED
        BY <1>2, <2>1
<1>6. ASSUME NEW p \in Paths, NEW s \in Servers, AddToCache(p, s)
      PROVE  LRU!Next
    <2> DEFINE e == [path |-> p, server |-> s]
               k == IF size < Capacity THEN size ELSE Capacity - 1
    <2>1. /\ k \in 0 .. size /\ size' = k + 1
          /\ \E q : /\ IsOrder(q)'
                    /\ \A i \in 1 .. size' :
                          Entry(q[i])' = IF i = 1 THEN e ELSE Entry(o[i - 1])
        <3>1. CASE AddBelowCapacity(p, s)
            <4>1. size < Capacity
                BY <3>1 DEF AddBelowCapacity, Fits
            <4> QED
                BY <1>1, <1>2, <3>1, <4>1, AddBelowCapacityOrder
        <3>2. CASE AddEvicting(p, s)
            <4>1. size' = size /\ size = Capacity
                BY <1>1, <3>2, AddEvictingOrder
            <4> QED
                BY <1>1, <1>2, <3>2, <4>1, AddEvictingOrder
        <3> QED
            BY <1>6, <3>1, <3>2 DEF AddToCache
    <2>2. PICK q : /\ IsOrder(q)'
                   /\ \A i \in 1 .. size' :
                         Entry(q[i])' = IF i = 1 THEN e ELSE Entry(o[i - 1])
        BY <2>1
    <2>3. Contents' = [i \in 1 .. k + 1 |-> IF i = 1 THEN e ELSE f[i - 1]]
        <3>1. \A i \in 1 .. k + 1 : i # 1 => i - 1 \in 1 .. size
            BY <1>2, <2>1
        <3>2. \A i \in 1 .. k + 1 : Entry(q[i])' = IF i = 1 THEN e ELSE f[i - 1]
            BY <2>1, <2>2, <3>1
        <3> QED
            BY <1>4, <2>1, <2>2, <3>2
    <2>4. Contents' = <<e>> \o SubSeq(f, 1, k)
        <3> HIDE DEF f, S, k, e
        <3> QED
            BY <1>2, <1>5, <2>1, <2>3, InsertRefines
    <2>5. (IF Len(f) < Capacity THEN f ELSE SubSeq(f, 1, Capacity - 1)) = SubSeq(f, 1, k)
        <3>1. CASE size < Capacity
            <4>1. SubSeq(f, 1, size) = f
                <5> HIDE DEF f, S
                <5> QED
                    BY <1>2, <1>5
            <4> QED
                BY <1>5, <3>1, <4>1
        <3>2. CASE ~(size < Capacity)
            BY <1>5, <3>2
        <3> QED
            BY <3>1, <3>2
    <2>6. e \in [path : Paths, server : Servers]
        OBVIOUS
    <2> HIDE DEF e, k, f, S
    <2>7. LRU!Insert
        BY <1>3, <2>4, <2>5, <2>6 DEF LRU!Insert, LRU!Kept, Contents, f
    <2> QED
        BY <2>7 DEF LRU!Next
<1>7. ASSUME NEW n \in allocated, MoveToFront(n), hashmap[Hash[path[n]]] = n
      PROVE  LRU!Next
    <2>1. PICK k \in 1 .. size, q \in [1 .. size' -> Nodes] :
              /\ size' = size
              /\ IsOrder(q)'
              /\ \A i \in 1 .. size' :
                    Entry(q[i])' = Entry(o[IF i = 1 THEN k
                                           ELSE IF i <= k THEN i - 1 ELSE i])
        BY <1>1, <1>7, MoveToFrontOrder
    <2>2. Contents' = [i \in 1 .. size |-> f[IF i = 1 THEN k
                                             ELSE IF i <= k THEN i - 1 ELSE i]]
        <3> DEFINE from(i) == IF i = 1 THEN k ELSE IF i <= k THEN i - 1 ELSE i
        <3>1. \A i \in 1 .. size : from(i) \in 1 .. size
            BY <1>2
        <3>2. \A i \in 1 .. size : Entry(q[i])' = f[from(i)]
            BY <2>1, <3>1
        <3>3. Contents' = [i \in 1 .. size |-> f[from(i)]]
            <4>1. Contents' = [i \in 1 .. size |-> Entry(q[i])']
                BY <1>4, <2>1
            <4> HIDE DEF f, from
            <4> QED
                BY <3>2, <4>1
        <3> QED
            BY <3>3
    <2>3. Contents' = <<f[k]>> \o SubSeq(f, 1, k - 1) \o SubSeq(f, k + 1, size)
        <3> HIDE DEF f, S
        <3> QED
            BY <1>2, <1>5, <2>2, TouchRefines
    <2> HIDE DEF f, S
    <2>4. LRU!Touch
        BY <1>3, <1>5, <2>3 DEF LRU!Touch, Contents, f
    <2> QED
        BY <2>4 DEF LRU!Next
<1>8. CASE UNCHANGED vars
    <2>1. Contents' = [i \in 1 .. size' |-> Entry(o[i])']
        BY <1>1, <1>4, <1>8, StutterOrder
    <2> QED
        BY <1>3, <1>8, <2>1 DEF vars, Entry
<1>9. CASE \E p \in Paths, s \in Servers : AddBelowCapacity(p, s) \/ AddEvicting(p, s)
    BY <1>6, <1>9 DEF AddToCache
<1>10. CASE \E p \in Paths, result \in Servers \cup {NULL} : GetFromCache(p, result)
    <2>1. PICK p \in Paths : UNCHANGED vars \/ (Found(p) # NULL /\ MoveToFront(Found(p)))
        BY <1>10 DEF GetFromCache, GetMiss, GetHit
    <2>2. CASE Found(p) # NULL /\ MoveToFront(Found(p))
        <3>1. Found(p) \in allocated /\ hashmap[Hash[path[Found(p)]]] = Found(p)
            BY <2>2, HashAssumption DEF Found, IInv, NoDangling, PathsInv
        <3> QED
            BY <1>7, <2>2, <3>1
    <2> QED
        BY <1>8, <2>1, <2>2
<1> QED
    BY <1>8, <1>9, <1>10 DEF Next

\* What the cache holds behaves as the list of entries of a least-recently-used
\* cache: an addition puts its entry first and drops the last one if the cache
\* is full, a lookup that finds an entry puts it first, and nothing else moves.
THEOREM ListImplementsLRU == Spec => EvictsLeastRecent
<1>1. IInv /\ OrderInv /\ IInv' /\ [Next]_vars => [LRU!Next]_Contents
    BY NextRefines
<1>2. Init => LRU!Init
    BY InitRefines
<1>3. EvictsLeastRecent <=> LRU!Init /\ [][LRU!Next]_Contents
    BY DEF EvictsLeastRecent, LRU!Spec, Contents
<1> QED
    BY <1>1, <1>2, <1>3, OrderInvariance, PTL DEF Spec
=============================================================================
