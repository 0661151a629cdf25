------------------------------ MODULE TrieProofs ------------------------------
(***************************************************************************)
(* What adding many paths to a trie, and looking one up, come to: the      *)
(* recursion of the folds is replaced by what it computes, for any trie    *)
(* and paths of any length.                                                *)
(*                                                                         *)
(* A fold is a function that CHOOSE defines by its own equation.  That it  *)
(* satisfies the equation follows from a function that does, and that it   *)
(* is the only one from a minimal set on which two would differ.           *)
(***************************************************************************)
EXTENDS TrieSpec, FiniteSetTheorems, SequenceTheorems, WellFoundedInduction, TLAPS

\* A set of subsets of a finite set has a minimal element.
LEMMA MinimalSubset ==
    \A S, T : IsFiniteSet(S) /\ T \subseteq SUBSET S /\ T # {} =>
                  \E s \in T : \A t \in T : t \subseteq s => t = s
<1> SUFFICES ASSUME NEW S, IsFiniteSet(S), NEW T, T \subseteq SUBSET S, T # {}
             PROVE  \E s \in T : \A t \in T : t \subseteq s => t = s
    OBVIOUS
<1>1. FiniteSubsetsOf(S) = SUBSET S
    BY FS_FiniteSubsetsOfFinite
<1>2. IsWellFoundedOn(StrictSubsetOrdering(S), SUBSET S)
    BY <1>1, FS_StrictSubsetOrderingWellFounded
<1>3. PICK s \in T : \A t \in T : ~ (<<t, s>> \in StrictSubsetOrdering(S))
    BY <1>2, WFMin
<1>4. ASSUME NEW t \in T, t \subseteq s, t # s PROVE FALSE
    <2>1. <<t, s>> \in (SUBSET S) \X (SUBSET S)
        OBVIOUS
    <2>2. <<t, s>> \in StrictSubsetOrdering(S)
        BY <1>4, <2>1 DEF StrictSubsetOrdering
    <2> QED
        BY <1>3, <2>2
<1> QED
    BY <1>3, <1>4

-----------------------------------------------------------------------------
(* Adding paths.                                                           *)

\* The nodes that the paths need, marked at the ends.
WithPaths(tree, paths, server) ==
    [node \in DOMAIN tree \cup UNION {Spine(p) : p \in paths} |->
        IF node \in paths THEN server
        ELSE IF node \in DOMAIN tree THEN tree[node] ELSE NotEnd]

\* A path is the last of the nodes that lead to it.
LEMMA PathInSpine ==
    ASSUME NEW Chars, NEW path \in Seq(Chars)
    PROVE  path \in Spine(path)
<1>1. Len(path) \in 0 .. Len(path)
    OBVIOUS
<1>2. SubSeq(path, 1, Len(path)) = path
    BY SubSeqFull
<1> QED
    BY <1>1, <1>2 DEF Spine

LEMMA WithOnePathMore ==
    ASSUME NEW tree, NEW server, NEW Chars, NEW s \in SUBSET Seq(Chars), NEW x \in s,
           tree = [n \in DOMAIN tree |-> tree[n]]
    PROVE  AddPathToTrie(WithPaths(tree, s \ {x}, server), x, server)
           = WithPaths(tree, s, server)
<1> DEFINE less == WithPaths(tree, s \ {x}, server)
<1>1. DOMAIN less \cup Spine(x) = DOMAIN tree \cup UNION {Spine(p) : p \in s}
    <2>1. DOMAIN less = DOMAIN tree \cup UNION {Spine(p) : p \in s \ {x}}
        BY DEF WithPaths
    <2> QED
        BY <2>1
<1>2. ASSUME NEW node \in DOMAIN less \cup Spine(x)
      PROVE  (IF node = x THEN server ELSE IF node \in DOMAIN less THEN less[node] ELSE NotEnd)
             = IF node \in s THEN server
               ELSE IF node \in DOMAIN tree THEN tree[node] ELSE NotEnd
    <2>1. CASE node = x
        BY <2>1
    <2>2. CASE node # x /\ node \notin DOMAIN less
        <3>1. node \notin DOMAIN tree
            BY <2>2 DEF WithPaths
        <3>2. node \notin s
            <4>1. node \in s => node \in Spine(node)
                BY PathInSpine
            <4> QED
                BY <2>2, <4>1 DEF WithPaths
        <3> QED
            BY <2>2, <3>1, <3>2
    <2>3. CASE node # x /\ node \in DOMAIN less
        BY <2>3 DEF WithPaths
    <2> QED
        BY <2>1, <2>2, <2>3
<1>3. AddPathToTrie(less, x, server)
      = [node \in DOMAIN less \cup Spine(x) |->
            IF node \in s THEN server
            ELSE IF node \in DOMAIN tree THEN tree[node] ELSE NotEnd]
    <2> HIDE DEF less
    <2> QED
        BY <1>2 DEF AddPathToTrie
<1> QED
    BY <1>1, <1>3 DEF WithPaths

\* What the order in which a registration adds its paths comes to: nothing.
LEMMA AddingPaths ==
    ASSUME NEW tree, NEW server, NEW Chars, NEW paths \in SUBSET Seq(Chars),
           IsFiniteSet(paths), tree = [n \in DOMAIN tree |-> tree[n]]
    PROVE  AddPaths(tree, paths, server) = WithPaths(tree, paths, server)
<1> DEFINE some(s) == CHOOSE x \in s : TRUE
           Iterates(g) == g = [s \in SUBSET paths |->
                                  IF s = {} THEN tree
                                  ELSE AddPathToTrie(g[s \ {some(s)}], some(s), server)]
           closed == [s \in SUBSET paths |-> WithPaths(tree, s, server)]
           iter == CHOOSE g : Iterates(g)
<1>1. ASSUME NEW s \in SUBSET paths, s # {}
      PROVE  AddPathToTrie(WithPaths(tree, s \ {some(s)}, server), some(s), server)
             = WithPaths(tree, s, server)
    <2>1. some(s) \in s /\ s \in SUBSET Seq(Chars)
        BY <1>1
    <2> HIDE DEF some
    <2> QED
        BY <2>1, WithOnePathMore
<1>2. WithPaths(tree, {}, server) = tree
    BY DEF WithPaths
<1>3. Iterates(closed)
    <2>1. ASSUME NEW s \in SUBSET paths
          PROVE  closed[s] = IF s = {} THEN tree
                             ELSE AddPathToTrie(closed[s \ {some(s)}], some(s), server)
        <3>1. CASE s = {}
            BY <1>2, <3>1
        <3>2. CASE s # {}
            <4>1. closed[s \ {some(s)}] = WithPaths(tree, s \ {some(s)}, server)
                OBVIOUS
            <4> QED
                BY <1>1, <3>2, <4>1
        <3> QED
            BY <3>1, <3>2
    <2> QED
        BY <2>1
<1>4. Iterates(iter)
    BY <1>3
<1>5. AddPaths(tree, paths, server) = iter[paths]
    BY DEF AddPaths, FoldSet, MapThenFoldSet
<1> HIDE DEF iter
<1> DEFINE differ == {s \in SUBSET paths : iter[s] # WithPaths(tree, s, server)}
<1>6. ASSUME differ # {} PROVE FALSE
    <2>1. PICK s \in differ : \A t \in differ : t \subseteq s => t = s
        <3>1. differ \subseteq SUBSET paths
            OBVIOUS
        <3> HIDE DEF differ
        <3> QED
            BY <1>6, <3>1, MinimalSubset
    <2>2. s \in SUBSET paths /\ iter[s] # WithPaths(tree, s, server)
        BY <2>1
    <2>3. CASE s = {}
        BY <1>2, <1>4, <2>2, <2>3
    <2>4. CASE s # {}
        <3>1. some(s) \in s /\ s \ {some(s)} \in SUBSET paths
            BY <2>2, <2>4
        <3> HIDE DEF some
        <3>2. s \ {some(s)} \notin differ
            BY <2>1, <3>1
        <3>3. iter[s \ {some(s)}] = WithPaths(tree, s \ {some(s)}, server)
            BY <3>1, <3>2
        <3>4. iter[s] = AddPathToTrie(iter[s \ {some(s)}], some(s), server)
            BY <1>4, <2>2, <2>4
        <3> QED
            BY <1>1, <2>2, <2>4, <3>3, <3>4
    <2> QED
        BY <2>3, <2>4
<1> QED
    BY <1>5, <1>6

-----------------------------------------------------------------------------
(* Looking a path up.                                                      *)

\* Of finitely many sets, some has no other among its subsets.
LEMMA MinimalImage ==
    ASSUME NEW S, IsFiniteSet(S), S # {}, NEW f \in [S -> SUBSET S]
    PROVE  \E x \in S : \A y \in S : f[y] \subseteq f[x] => f[y] = f[x]
<1> DEFINE T == {f[x] : x \in S}
<1>1. T \subseteq SUBSET S /\ T # {}
    OBVIOUS
<1>2. PICK s \in T : \A t \in T : t \subseteq s => t = s
    <2> HIDE DEF T
    <2> QED
        BY <1>1, MinimalSubset
<1> QED
    BY <1>2

\* Some number of a finite set is the greatest.
LEMMA MaxOfNumbers ==
    ASSUME NEW S, IsFiniteSet(S), S # {}, \A x \in S : x \in Int
    PROVE  Max(S) \in S /\ \A y \in S : y <= Max(S)
<1> DEFINE from == [x \in S |-> {y \in S : y >= x}]
<1>1. from \in [S -> SUBSET S]
    OBVIOUS
<1>2. PICK x \in S : \A y \in S : from[y] \subseteq from[x] => from[y] = from[x]
    <2> HIDE DEF from
    <2> QED
        BY <1>1, MinimalImage
<1>3. ASSUME NEW y \in S, ~(y <= x) PROVE FALSE
    <2>1. y > x
        BY <1>3
    <2>2. from[y] \subseteq from[x]
        BY <2>1
    <2>3. x \in from[x] /\ x \notin from[y]
        BY <2>1
    <2> HIDE DEF from
    <2> QED
        BY <1>2, <2>2, <2>3
<1>4. \A y \in S : x >= y
    BY <1>3
<1>5. Max(S) \in S /\ \A y \in S : Max(S) >= y
    BY <1>4 DEF Max
<1> QED
    BY <1>5

\* Some number of a set of numbers up to n is the least.
LEMMA LeastNumber ==
    ASSUME NEW n \in Nat, NEW S, S \subseteq 0 .. n, S # {}
    PROVE  \E x \in S : \A y \in S : x <= y
<1> DEFINE T == {0 - x : x \in S}
           I == (0 - n) .. 0
<1>1. T \subseteq I /\ T # {} /\ \A t \in I : t \in Int
    <2>1. \A x \in S : x \in 0 .. n
        OBVIOUS
    <2>2. \A x \in 0 .. n : 0 - x \in I
        OBVIOUS
    <2> HIDE DEF I
    <2>3. T \subseteq I /\ T # {}
        BY <2>1, <2>2
    <2>4. \A t \in I : t \in Int
        BY DEF I
    <2> QED
        BY <2>3, <2>4
<1>2. IsFiniteSet(T) /\ T # {} /\ \A t \in T : t \in Int
    <2>1. IsFiniteSet(I)
        <3>1. 0 - n \in Int
            OBVIOUS
        <3> QED
            BY <3>1, FS_Interval
    <2> HIDE DEF T, I
    <2> QED
        BY <1>1, <2>1, FS_Subset
<1>3. PICK m \in T : \A t \in T : t <= m
    <2> HIDE DEF T
    <2> QED
        BY <1>2, MaxOfNumbers
<1>4. PICK x \in S : m = 0 - x
    BY <1>3
<1>5. ASSUME NEW y \in S PROVE x <= y
    <2>1. 0 - y <= m
        BY <1>3
    <2> QED
        BY <1>4, <2>1
<1> QED
    BY <1>5

\* Where the way to a path passes a registered path: the lengths of the
\* registered strict prefixes.
Marked(tree, path, k) ==
    {j \in 0 .. k - 1 : LET node == SubSeq(path, 1, j)
                        IN  node \in DOMAIN tree /\ IsEndOfPath(tree, node)}

LastMarked(tree, path, k) ==
    IF Marked(tree, path, k) = {} THEN NotEnd
    ELSE tree[SubSeq(path, 1, Max(Marked(tree, path, k)))]

Start == [current |-> <<>>, lastMatch |-> NotEnd]

\* The equation of the function that FoldLeft chooses: the state of findInTrie
\* after the characters at a set of places.
FindEquation(tree, path, g) ==
    g = [s \in SUBSET DOMAIN path |->
            IF s = {} THEN Start
            ELSE FindStep(tree, g[s \ {Max(s)}], path[Max(s)])]

\* The function by which FoldLeft is defined exists.
LEMMA FindIterates ==
    ASSUME NEW tree, NEW Chars, NEW path \in Seq(Chars)
    PROVE  \E g : FindEquation(tree, path, g)
<1> DEFINE n == Len(path)
           D == DOMAIN path
           Level(k) == {s \in SUBSET D : Cardinality(s) <= k}
           One(g, s) == IF s = {} THEN Start
                         ELSE FindStep(tree, g[s \ {Max(s)}], path[Max(s)])
           Solves(g, k) == g = [s \in Level(k) |-> One(g, s)]
           bad == {k \in 0 .. n : ~ \E g : Solves(g, k)}
<1>1. n \in Nat /\ D = 1 .. n
    OBVIOUS
<1>2. IsFiniteSet(D) /\ Cardinality(D) = n
    BY <1>1, FS_Interval
<1>3. ASSUME NEW s \in SUBSET D
      PROVE  IsFiniteSet(s) /\ Cardinality(s) \in Int /\ 0 <= Cardinality(s)
             /\ Cardinality(s) <= n
    <2>1. IsFiniteSet(s) /\ Cardinality(s) <= n
        BY <1>2, FS_Subset
    <2>2. Cardinality(s) \in Nat
        BY <2>1, FS_CardinalityType
    <2> QED
        BY <2>1, <2>2
<1>4a. ASSUME NEW s \in SUBSET D, s # {}
      PROVE  Max(s) \in s /\ s \ {Max(s)} \in SUBSET D
             /\ Cardinality(s \ {Max(s)}) = Cardinality(s) - 1
    <2>1. \A x \in s : x \in Int
        BY <1>1
    <2>2. Max(s) \in s
        BY <1>3, <1>4a, <2>1, MaxOfNumbers
    <2> QED
        BY <1>3, <2>2, FS_RemoveElement
<1> HIDE DEF D, n
<1>4. ASSUME bad # {} PROVE FALSE
    <2>1. PICK k \in bad : \A j \in bad : k <= j
        <3>1. bad \in SUBSET (0 .. n)
            OBVIOUS
        <3> HIDE DEF bad
        <3> QED
            BY <1>1, <1>4, <3>1, LeastNumber
    <2>2. k \in 0 .. n /\ ~ \E g : Solves(g, k)
        BY <2>1
    <2>3. CASE k = 0
        <3>1. \A s \in Level(0) : s = {}
            <4> SUFFICES ASSUME NEW s \in Level(0) PROVE s = {}
                OBVIOUS
            <4>1. /\ s \in SUBSET D /\ IsFiniteSet(s) /\ Cardinality(s) \in Int
                  /\ 0 <= Cardinality(s) /\ Cardinality(s) <= 0
                BY <1>3
            <4>2. Cardinality(s) = 0
                BY <4>1
            <4> QED
                BY <4>1, <4>2, FS_EmptySet
        <3>2. Solves([s \in Level(0) |-> Start], 0)
            BY <3>1
        <3> QED
            BY <2>2, <2>3, <3>2
    <2>4. CASE k > 0
        <3>1. k - 1 \in 0 .. n /\ k - 1 \notin bad
            <4>1. n \in Nat /\ k \in 0 .. n /\ k - 1 \in 0 .. n /\ ~(k <= k - 1)
                BY <1>1, <2>2, <2>4
            <4> HIDE DEF bad
            <4> QED
                BY <2>1, <4>1
        <3>2. PICK g : Solves(g, k - 1)
            BY <3>1
        <3> DEFINE h == [s \in Level(k) |-> One(g, s)]
        <3>3. ASSUME NEW s \in Level(k - 1) PROVE g[s] = h[s]
            <4>1. g[s] = One(g, s)
                BY <3>2
            <4>2. s \in Level(k)
                <5>1. s \in SUBSET D /\ Cardinality(s) <= k - 1
                    OBVIOUS
                <5>2. Cardinality(s) \in Int /\ k \in Int
                    BY <1>1, <1>3, <2>2, <5>1
                <5>3. Cardinality(s) <= k
                    BY <5>1, <5>2
                <5> QED
                    BY <5>1, <5>3
            <4> HIDE DEF Level
            <4> QED
                BY <4>1, <4>2
        <3>4. ASSUME NEW s \in Level(k) PROVE One(g, s) = One(h, s)
            <4>1. CASE s = {}
                BY <4>1
            <4>2. CASE s # {}
                <5>1. s \ {Max(s)} \in Level(k - 1)
                    <6>1. s \in SUBSET D /\ Cardinality(s) <= k
                        OBVIOUS
                    <6>2. Cardinality(s) \in Int /\ k \in Int
                        BY <1>1, <1>3, <2>2, <6>1
                    <6>3. Cardinality(s) - 1 <= k - 1
                        BY <6>1, <6>2
                    <6> QED
                        BY <1>4a, <4>2, <6>1, <6>3
                <5>2. g[s \ {Max(s)}] = h[s \ {Max(s)}]
                    BY <3>3, <5>1
                <5> QED
                    BY <4>2, <5>2
            <4> QED
                BY <4>1, <4>2
        <3>5. Solves(h, k)
            BY <3>4
        <3> QED
            BY <2>2, <3>5
    <2> QED
        BY <1>1, <2>2, <2>3, <2>4
<1>5. PICK g : Solves(g, n)
    <2>1. n \in 0 .. n
        BY <1>1
    <2> QED
        BY <1>4, <2>1
<1>6. Level(n) = SUBSET D
    <2>1. \A s \in SUBSET D : Cardinality(s) <= n
        BY <1>3
    <2> QED
        BY <2>1
<1>7. g = [s \in SUBSET D |-> One(g, s)]
    BY <1>5, <1>6
<1> QED
    BY <1>7 DEF D, FindEquation

\* One more step on the way.
LEMMA LastMarkedStep ==
    ASSUME NEW tree, NEW path, NEW k \in Nat
    PROVE  LastMarked(tree, path, k + 1)
           = LET node == SubSeq(path, 1, k)
             IN  IF node \in DOMAIN tree /\ IsEndOfPath(tree, node) THEN tree[node]
                 ELSE LastMarked(tree, path, k)
<1> DEFINE node == SubSeq(path, 1, k)
           here == node \in DOMAIN tree /\ IsEndOfPath(tree, node)
           M == Marked(tree, path, k)
           N == Marked(tree, path, k + 1)
<1>1. 0 .. (k + 1) - 1 = (0 .. k - 1) \cup {k}
    OBVIOUS
<1>2. CASE here
    <2>1. k \in N /\ \A j \in N : j \in 0 .. k
        BY <1>2 DEF Marked
    <2>2. Max(N) = k
        <3> HIDE DEF N
        <3>1. \A x \in N : (\A y \in N : x >= y) <=> x = k
            BY <2>1
        <3> QED
            BY <2>1, <3>1 DEF Max
    <2>3. N # {}
        BY <2>1
    <2> QED
        BY <1>2, <2>2, <2>3 DEF LastMarked
<1>3. CASE ~here
    <2>1. N = M
        BY <1>1, <1>3 DEF Marked
    <2> QED
        BY <1>3, <2>1 DEF LastMarked
<1> QED
    BY <1>2, <1>3

\* findInTrie finds the longest registered strict prefix.
LEMMA LookingUp ==
    ASSUME NEW tree, NEW Chars, NEW path \in Seq(Chars)
    PROVE  FindInTrie(tree, path) = LastMarked(tree, path, Len(path))
<1> DEFINE iter == CHOOSE g : FindEquation(tree, path, g)
           n == Len(path)
           At(k) == [current |-> SubSeq(path, 1, k), lastMatch |-> LastMarked(tree, path, k)]
           bad == {k \in 0 .. n : iter[1 .. k] # At(k)}
<1>1. FindEquation(tree, path, iter)
    BY FindIterates
<1>2. FindInTrie(tree, path) = iter[DOMAIN path].lastMatch
    BY DEF FindInTrie, FoldLeft, MapThenFoldSet, Start, FindEquation
<1> HIDE DEF iter
<1>3. ASSUME NEW s \in SUBSET DOMAIN path
      PROVE  iter[s] = IF s = {} THEN Start
                       ELSE FindStep(tree, iter[s \ {Max(s)}], path[Max(s)])
    BY <1>1 DEF FindEquation
<1>4. n \in Nat /\ DOMAIN path = 1 .. n
    OBVIOUS
<1>5. ASSUME bad # {} PROVE FALSE
    <2>1. PICK k \in bad : \A j \in bad : k <= j
        <3>1. bad \subseteq 0 .. n
            OBVIOUS
        <3>2. n \in Nat
            BY <1>4
        <3> HIDE DEF bad, n
        <3> QED
            BY <1>5, <3>1, <3>2, LeastNumber
    <2>2. k \in 0 .. n /\ iter[1 .. k] # At(k)
        BY <2>1
    <2>3. CASE k = 0
        <3>1. 1 .. 0 = {} /\ iter[{}] = Start
            <4>1. iter[{}] = Start
                <5>1. {} \in SUBSET DOMAIN path
                    OBVIOUS
                <5> QED
                    BY <1>3, <5>1
            <4> QED
                BY <4>1
        <3>2. SubSeq(path, 1, 0) = <<>>
            BY SubSeqEmpty
        <3>3. LastMarked(tree, path, 0) = NotEnd
            BY DEF LastMarked, Marked
        <3> QED
            BY <2>2, <2>3, <3>1, <3>2, <3>3 DEF Start
    <2>4. CASE k > 0
        <3> DEFINE j == k - 1
        <3>1. j \in 0 .. n /\ j \in Nat /\ ~(k <= j) /\ k = j + 1 /\ k \in 1 .. n /\ k \in Nat
            BY <1>4, <2>2, <2>4
        <3>2. iter[1 .. j] = At(j)
            <4> HIDE DEF j
            <4>1. j \notin bad
                <5> HIDE DEF bad
                <5> QED
                    BY <2>1, <3>1
            <4> QED
                BY <3>1, <4>1
        <3>3. Max(1 .. k) = k
            <4>1. \A x \in 1 .. k : (\A y \in 1 .. k : x >= y) <=> x = k
                BY <3>1
            <4>2. k \in 1 .. k
                BY <3>1
            <4> QED
                BY <4>1, <4>2 DEF Max
        <3>4. 1 .. k \in SUBSET DOMAIN path /\ 1 .. k # {} /\ (1 .. k) \ {k} = 1 .. j
            <4>1. \A i \in 1 .. k : i \in 1 .. n
                BY <1>4, <3>1
            <4>2. k \in 1 .. k /\ (1 .. k) \ {k} = 1 .. j
                BY <3>1
            <4>3. DOMAIN path = 1 .. n
                BY <1>4
            <4> HIDE DEF n, j
            <4> QED
                BY <4>1, <4>2, <4>3
        <3>5. iter[1 .. k] = FindStep(tree, At(j), path[k])
            BY <1>3, <3>2, <3>3, <3>4
        <3>6. Append(SubSeq(path, 1, j), path[k]) = SubSeq(path, 1, k)
            <4>1. 1 \in 1 .. Len(path) /\ k \in 1 .. Len(path) /\ k - 1 = j
                BY <1>4, <3>1
            <4>2. SubSeq(path, 1, k) = SubSeq(path, 1, j) \o <<path[k]>>
                BY <4>1, SubSeqRecursiveSecond
            <4>3. SubSeq(path, 1, j) \in Seq(Chars) /\ path[k] \in Chars
                <5>1. \A i \in 1 .. j : path[i] \in Chars
                    BY <1>4, <3>1
                <5> QED
                    BY <3>1, <4>1, <5>1, SubSeqProperties
            <4> QED
                BY <4>2, <4>3, AppendIsConcat
        <3>7. LastMarked(tree, path, k)
              = IF SubSeq(path, 1, j) \in DOMAIN tree /\ IsEndOfPath(tree, SubSeq(path, 1, j))
                THEN tree[SubSeq(path, 1, j)] ELSE LastMarked(tree, path, j)
            <4> HIDE DEF j
            <4> QED
                BY <3>1, LastMarkedStep
        <3>8. FindStep(tree, At(j), path[k]) = At(k)
            <4> HIDE DEF j
            <4> QED
                BY <3>6, <3>7 DEF FindStep
        <3> QED
            BY <2>2, <3>5, <3>8
    <2> QED
        BY <1>4, <2>2, <2>3, <2>4
<1>6. iter[1 .. n] = At(n)
    <2>1. n \in 0 .. n
        BY <1>4
    <2> QED
        BY <1>5, <2>1
<1> QED
    BY <1>2, <1>4, <1>6

\* A lookup that finds something finds a mark on a strict prefix of the path.
LEMMA LookupFindsMark ==
    ASSUME NEW tree, NEW Chars, NEW path \in Seq(Chars), FindInTrie(tree, path) # NotEnd
    PROVE  \E q \in DOMAIN tree : /\ FindInTrie(tree, path) = tree[q]
                                  /\ IsStrictPrefix(q, path)
<1> DEFINE M == Marked(tree, path, Len(path))
           m == Max(M)
           q == SubSeq(path, 1, m)
<1>1. M # {} /\ FindInTrie(tree, path) = tree[q]
    BY LookingUp DEF LastMarked
<1>2. IsFiniteSet(M) /\ \A x \in M : x \in Int
    <2>1. Len(path) - 1 \in Int /\ M \subseteq 0 .. Len(path) - 1
        BY DEF Marked
    <2>2. IsFiniteSet(0 .. Len(path) - 1)
        BY <2>1, FS_Interval
    <2>3. IsFiniteSet(M)
        BY <2>1, <2>2, FS_Subset
    <2> QED
        BY <2>1, <2>3
<1>3. m \in M
    <2> HIDE DEF M
    <2> QED
        BY <1>1, <1>2, MaxOfNumbers
<1>4. m \in 0 .. Len(path) - 1 /\ q \in DOMAIN tree
    BY <1>3 DEF Marked
<1> HIDE DEF m
<1>5. q \in Seq(Chars) /\ Len(q) = m
    <2>1. \A i \in 1 .. m : path[i] \in Chars
        BY <1>4
    <2>2. Len(q) = IF 1 <= m THEN m - 1 + 1 ELSE 0
        BY <1>4, <2>1, SubSeqProperties
    <2>3. q \in Seq(Chars)
        BY <1>4, <2>1, SubSeqProperties
    <2> HIDE DEF q
    <2> QED
        BY <1>4, <2>2, <2>3
<1>6. IsStrictPrefix(q, path)
    <2>1. SubSeq(q, 1, Len(q)) = SubSeq(path, 1, Len(q))
        <3>1. SubSeq(q, 1, Len(q)) = q
            BY <1>5, SubSeqFull
        <3> QED
            BY <1>5, <3>1
    <2> HIDE DEF q
    <2>2. Len(q) <= Len(path) /\ Len(q) # Len(path)
        <3>1. m <= Len(path) /\ m # Len(path)
            BY <1>4
        <3> QED
            BY <1>5, <3>1
    <2> QED
        BY <2>1, <2>2 DEF IsStrictPrefix, IsPrefix
<1> QED
    BY <1>1, <1>4, <1>6

-----------------------------------------------------------------------------
(* What a lookup finds after any sequence of registrations.                *)

\* The marked nodes are the registered paths, with their servers.
RegisteredInv ==
    /\ trie = [node \in DOMAIN trie |-> trie[node]]
    /\ registered \in [Registrable -> Servers \cup {NotEnd}]
    /\ \A node \in DOMAIN trie : trie[node] # NotEnd =>
          node \in Registrable /\ registered[node] = trie[node]
    /\ \A q \in Registrable : registered[q] # NotEnd =>
          q \in DOMAIN trie /\ trie[q] = registered[q]

LEMMA RegisteredInit == Init => RegisteredInv
BY DEF Init, EmptyTrie, RegisteredInv

LEMMA RegisteredNext == RegisteredInv /\ [Next]_vars => RegisteredInv'
<1> SUFFICES ASSUME RegisteredInv, [Next]_vars PROVE RegisteredInv'
    OBVIOUS
<1>1. CASE UNCHANGED vars
    BY <1>1 DEF vars, RegisteredInv
<1>2. ASSUME NEW p \in Registrable, NEW s \in Servers, Add(p, s) PROVE RegisteredInv'
    <2>1. /\ trie' = [node \in DOMAIN trie \cup Spine(p) |->
                        IF node = p THEN s
                        ELSE IF node \in DOMAIN trie THEN trie[node] ELSE NotEnd]
          /\ registered' = [registered EXCEPT ![p] = s]
        BY <1>2 DEF Add, AddPathToTrie
    <2>2. p \in Spine(p)
        BY PathsAssumption, PathInSpine
    <2>3. s # NotEnd
        BY NotEndAssumption
    <2> QED
        BY <2>1, <2>2, <2>3 DEF RegisteredInv
<1> QED
    BY <1>1, <1>2 DEF Next

\* The server that registered the longest STRICT prefix of p last, if any.
StrictPrefixes(p) ==
    {q \in Registrable : registered[q] # NotEnd /\ IsStrictPrefix(q, p)}
LongestStrictPrefix(p) ==
    IF StrictPrefixes(p) = {} THEN NotEnd
    ELSE registered[CHOOSE q \in StrictPrefixes(p) :
                        \A r \in StrictPrefixes(p) : Len(r) <= Len(q)]

FindsLongestStrictPrefix ==
    \A p \in Queries : FindInTrie(trie, p) = LongestStrictPrefix(p)

\* The lengths at which a lookup passes a marked node are those of the
\* registered strict prefixes.
LEMMA MarkedArePrefixes ==
    ASSUME RegisteredInv, NEW p \in Seq(Nat)
    PROVE  /\ \A j \in Marked(trie, p, Len(p)) :
                 SubSeq(p, 1, j) \in StrictPrefixes(p) /\ Len(SubSeq(p, 1, j)) = j
           /\ \A q \in StrictPrefixes(p) :
                 Len(q) \in Marked(trie, p, Len(p)) /\ SubSeq(p, 1, Len(q)) = q
<1>1. ASSUME NEW j \in Marked(trie, p, Len(p))
      PROVE  SubSeq(p, 1, j) \in StrictPrefixes(p) /\ Len(SubSeq(p, 1, j)) = j
    <2> DEFINE node == SubSeq(p, 1, j)
    <2>1. j \in 0 .. Len(p) - 1 /\ node \in DOMAIN trie /\ trie[node] # NotEnd
        BY DEF Marked, IsEndOfPath
    <2>2. node \in Seq(Nat) /\ Len(node) = j
        <3>1. \A i \in 1 .. j : p[i] \in Nat
            BY <2>1
        <3>2. Len(node) = IF 1 <= j THEN j - 1 + 1 ELSE 0
            BY <2>1, <3>1, SubSeqProperties
        <3>3. node \in Seq(Nat)
            BY <2>1, <3>1, SubSeqProperties
        <3> HIDE DEF node
        <3> QED
            BY <2>1, <3>2, <3>3
    <2>3. SubSeq(node, 1, j) = node
        <3>1. SubSeq(node, 1, Len(node)) = node
            BY <2>2, SubSeqFull
        <3> QED
            BY <2>2, <3>1
    <2>4. IsStrictPrefix(node, p)
        <3>1. j <= Len(p) /\ j # Len(p)
            BY <2>1
        <3> HIDE DEF node
        <3>2. Len(node) <= Len(p) /\ node # p
            BY <2>2, <3>1
        <3>3. SubSeq(node, 1, Len(node)) = SubSeq(p, 1, Len(node))
            BY <2>2, <2>3 DEF node
        <3> QED
            BY <3>2, <3>3 DEF IsStrictPrefix, IsPrefix
    <2>5. node \in Registrable /\ registered[node] # NotEnd
        BY <2>1 DEF RegisteredInv
    <2> QED
        BY <2>2, <2>4, <2>5 DEF StrictPrefixes
<1>2. ASSUME NEW q \in StrictPrefixes(p)
      PROVE  Len(q) \in Marked(trie, p, Len(p)) /\ SubSeq(p, 1, Len(q)) = q
    <2>1. q \in Registrable /\ registered[q] # NotEnd /\ IsStrictPrefix(q, p)
        BY DEF StrictPrefixes
    <2>2. q \in Seq(Nat)
        BY <2>1, PathsAssumption
    <2>3. Len(q) <= Len(p) /\ SubSeq(p, 1, Len(q)) = q
        <3>1. Len(q) <= Len(p) /\ SubSeq(q, 1, Len(q)) = SubSeq(p, 1, Len(q))
            BY <2>1 DEF IsStrictPrefix, IsPrefix
        <3>2. SubSeq(q, 1, Len(q)) = q
            BY <2>2, SubSeqFull
        <3> QED
            BY <3>1, <3>2
    <2>4. Len(q) # Len(p)
        <3>1. SubSeq(p, 1, Len(p)) = p /\ q # p
            BY <2>1, SubSeqFull DEF IsStrictPrefix
        <3> QED
            BY <2>3, <3>1
    <2>5. Len(q) \in 0 .. Len(p) - 1
        <3>1. Len(q) \in Nat /\ Len(p) \in Nat
            BY <2>2
        <3> QED
            BY <2>3, <2>4, <3>1
    <2>6. q \in DOMAIN trie /\ trie[q] # NotEnd
        BY <2>1 DEF RegisteredInv
    <2> QED
        BY <2>3, <2>5, <2>6 DEF Marked, IsEndOfPath
<1> QED
    BY <1>1, <1>2

LEMMA FindsAncestor ==
    ASSUME RegisteredInv, NEW p \in Seq(Nat)
    PROVE  FindInTrie(trie, p) = LongestStrictPrefix(p)
<1> DEFINE M == Marked(trie, p, Len(p))
           longest == CHOOSE q \in StrictPrefixes(p) :
                          \A r \in StrictPrefixes(p) : Len(r) <= Len(q)
<1>1. FindInTrie(trie, p) = LastMarked(trie, p, Len(p))
    BY LookingUp
<1>2. CASE M = {}
    <2>1. StrictPrefixes(p) = {}
        BY <1>2, MarkedArePrefixes
    <2> QED
        BY <1>1, <1>2, <2>1 DEF LastMarked, LongestStrictPrefix
<1>3. CASE M # {}
    <2>1. IsFiniteSet(M) /\ \A x \in M : x \in Int
        <3>1. Len(p) - 1 \in Int /\ M \subseteq 0 .. Len(p) - 1
            BY DEF Marked
        <3>2. IsFiniteSet(0 .. Len(p) - 1)
            BY <3>1, FS_Interval
        <3>3. IsFiniteSet(M)
            BY <3>1, <3>2, FS_Subset
        <3> QED
            BY <3>1, <3>3
    <2> DEFINE m == Max(M)
    <2>2. m \in M /\ \A j \in M : j <= m
        <3> HIDE DEF M
        <3> QED
            BY <1>3, <2>1, MaxOfNumbers
    <2>3. SubSeq(p, 1, m) \in StrictPrefixes(p) /\ Len(SubSeq(p, 1, m)) = m
        BY <2>2, MarkedArePrefixes
    <2>4. \A r \in StrictPrefixes(p) : Len(r) <= m
        BY <2>2, MarkedArePrefixes
    <2>5. longest \in StrictPrefixes(p) /\ \A r \in StrictPrefixes(p) : Len(r) <= Len(longest)
        BY <2>3, <2>4
    <2> HIDE DEF m, longest
    <2>6. Len(longest) = m
        <3>1. Len(longest) <= m /\ m <= Len(longest)
            BY <2>3, <2>4, <2>5
        <3>2. m \in Int
            BY <2>1, <2>2
        <3>3. Len(longest) \in Int
            BY <2>1, <2>5, MarkedArePrefixes
        <3> QED
            BY <3>1, <3>2, <3>3
    <2>7. longest = SubSeq(p, 1, m)
        BY <2>5, <2>6, MarkedArePrefixes
    <2>8. FindInTrie(trie, p) = trie[longest]
        BY <1>1, <1>3, <2>7 DEF LastMarked, m
    <2>9. trie[longest] = registered[longest]
        BY <2>5 DEF StrictPrefixes, RegisteredInv
    <2> QED
        BY <2>3, <2>8, <2>9 DEF LongestStrictPrefix, longest
<1> QED
    BY <1>2, <1>3

\* What findInTrie computes, for any paths and after any registrations: the server
\* that registered the longest strict prefix last.
THEOREM LookupFindsAncestor == Spec => []FindsLongestStrictPrefix
<1>1. Spec => []RegisteredInv
    BY RegisteredInit, RegisteredNext, PTL DEF Spec
<1>2. RegisteredInv => FindsLongestStrictPrefix
    BY FindsAncestor, PathsAssumption DEF FindsLongestStrictPrefix
<1> QED
    BY <1>1, <1>2, PTL

\* For a path that is not registered itself that is the longest matching prefix,
\* which the comment of findInTrie promises for all (lines 178-193).
THEOREM LookupFindsMatch == Spec => []FindsLongestUnlessRegistered
<1>1. FindsLongestStrictPrefix => FindsLongestUnlessRegistered
    <2> SUFFICES ASSUME FindsLongestStrictPrefix, NEW p \in Queries,
                        p \notin MatchingPrefixes(p)
                 PROVE  FindInTrie(trie, p) = LongestMatchingPrefix(p)
        BY DEF FindsLongestUnlessRegistered
    <2>1. MatchingPrefixes(p) = StrictPrefixes(p)
        BY DEF MatchingPrefixes, StrictPrefixes, IsStrictPrefix
    <2> QED
        BY <2>1 DEF FindsLongestStrictPrefix, LongestStrictPrefix, LongestMatchingPrefix
<1> QED
    BY <1>1, LookupFindsAncestor, PTL

\* The answer for a path is that of its longest registered strict prefix, which
\* is the only one of its length.
LongestAnswers ==
    \A p \in Queries :
        \/ StrictPrefixes(p) = {} /\ LongestStrictPrefix(p) = NotEnd
        \/ \E q \in StrictPrefixes(p) :
              /\ LongestStrictPrefix(p) = registered[q]
              /\ \A r \in StrictPrefixes(p) \ {q} : Len(r) < Len(q)

LEMMA LongestIsUnique == RegisteredInv => LongestAnswers
<1> SUFFICES ASSUME RegisteredInv, NEW p \in Queries, StrictPrefixes(p) # {}
             PROVE  \E q \in StrictPrefixes(p) :
                        /\ LongestStrictPrefix(p) = registered[q]
                        /\ \A r \in StrictPrefixes(p) \ {q} : Len(r) < Len(q)
    BY DEF LongestAnswers, LongestStrictPrefix
<1> DEFINE M == Marked(trie, p, Len(p))
           Longest(q) == \A r \in StrictPrefixes(p) : Len(r) <= Len(q)
           longest == CHOOSE q \in StrictPrefixes(p) : Longest(q)
<1>1. p \in Seq(Nat)
    BY PathsAssumption
<1>2. /\ \A q \in StrictPrefixes(p) : Len(q) \in M /\ SubSeq(p, 1, Len(q)) = q
      /\ \A j \in M : SubSeq(p, 1, j) \in StrictPrefixes(p) /\ Len(SubSeq(p, 1, j)) = j
    BY <1>1, MarkedArePrefixes
<1>3. IsFiniteSet(M) /\ M # {} /\ \A x \in M : x \in Int
    <2>1. Len(p) - 1 \in Int /\ M \subseteq 0 .. Len(p) - 1
        BY <1>1 DEF Marked
    <2>2. IsFiniteSet(0 .. Len(p) - 1)
        BY <2>1, FS_Interval
    <2>3. IsFiniteSet(M)
        BY <2>1, <2>2, FS_Subset
    <2> QED
        BY <1>2, <2>1, <2>3
<1> HIDE DEF M
<1>4. PICK m \in M : \A j \in M : j <= m
    BY <1>3, MaxOfNumbers
<1>5. SubSeq(p, 1, m) \in StrictPrefixes(p) /\ Longest(SubSeq(p, 1, m))
    BY <1>2, <1>4
<1>6. longest \in StrictPrefixes(p) /\ Longest(longest)
    BY <1>5
<1>7. LongestStrictPrefix(p) = registered[longest]
    BY <1>5 DEF LongestStrictPrefix
<1> HIDE DEF longest
<1>8. ASSUME NEW r \in StrictPrefixes(p) \ {longest} PROVE Len(r) < Len(longest)
    <2>1. Len(r) # Len(longest)
        BY <1>2, <1>6
    <2>2. Len(r) \in Int /\ Len(longest) \in Int /\ Len(r) <= Len(longest)
        BY <1>2, <1>3, <1>6
    <2> QED
        BY <2>1, <2>2
<1> QED
    BY <1>6, <1>7, <1>8

LEMMA RegistrationIsSteadfast ==
    RegisteredInv /\ RegisteredInv' /\ FindsLongestStrictPrefix
        /\ FindsLongestStrictPrefix' /\ LongestAnswers /\ LongestAnswers' /\ [Next]_vars
    => [Steadfast]_vars
<1> SUFFICES ASSUME RegisteredInv, RegisteredInv', LongestAnswers, LongestAnswers',
                    FindsLongestStrictPrefix, FindsLongestStrictPrefix',
                    NEW q \in Registrable, NEW s \in Servers, Add(q, s), NEW p \in Queries,
                    FindInTrie(trie, p) # FindInTrie(trie', p)
             PROVE  /\ IsStrictPrefix(q, p) /\ registered'[q] = FindInTrie(trie', p)
                    /\ registered[q] # FindInTrie(trie', p)
    BY DEF Next, Steadfast
<1>1. /\ FindInTrie(trie, p) = LongestStrictPrefix(p)
      /\ FindInTrie(trie', p) = LongestStrictPrefix(p)'
    BY DEF FindsLongestStrictPrefix
<1>2. registered' = [registered EXCEPT ![q] = s] /\ s # NotEnd
    BY NotEndAssumption DEF Add
<1>3. /\ registered'[q] = s
      /\ \A r \in Registrable \ {q} : registered'[r] = registered[r]
    BY <1>2 DEF RegisteredInv
<1>4. StrictPrefixes(p)' = StrictPrefixes(p) \cup {r \in {q} : IsStrictPrefix(r, p)}
    BY <1>2, <1>3 DEF StrictPrefixes
<1>5. CASE registered[q] = s
    <2>1. registered' = registered
        BY <1>2, <1>5 DEF RegisteredInv
    <2> QED
        BY <1>1, <2>1 DEF LongestStrictPrefix, StrictPrefixes
<1>6. CASE ~IsStrictPrefix(q, p)
    <2>1. StrictPrefixes(p)' = StrictPrefixes(p)
        BY <1>4, <1>6
    <2>2. \A r \in StrictPrefixes(p) : registered'[r] = registered[r]
        BY <1>3, <1>6 DEF StrictPrefixes
    <2>3. LongestStrictPrefix(p)' = LongestStrictPrefix(p)
        <3>1. CASE StrictPrefixes(p) = {}
            BY <2>1, <3>1 DEF LongestStrictPrefix
        <3>2. CASE StrictPrefixes(p) # {}
            BY <2>1, <2>2, <3>2 DEF LongestAnswers
        <3> QED
            BY <3>1, <3>2
    <2> QED
        BY <1>1, <2>3
<1>7. CASE registered[q] # s /\ IsStrictPrefix(q, p)
    <2>1. StrictPrefixes(p)' = StrictPrefixes(p) \cup {q}
        BY <1>4, <1>7
    <2>2. PICK r \in StrictPrefixes(p)' :
              /\ LongestStrictPrefix(p)' = registered'[r]
              /\ \A o \in StrictPrefixes(p)' \ {r} : Len(o) < Len(r)
        BY <2>1 DEF LongestAnswers
    <2>3. CASE r = q
        BY <1>1, <1>3, <1>7, <2>2, <2>3
    <2>4. CASE r # q
        <3>1. r \in StrictPrefixes(p) /\ registered'[r] = registered[r]
            BY <1>3, <2>1, <2>4 DEF StrictPrefixes
        <3>2. PICK u \in StrictPrefixes(p) :
                  /\ LongestStrictPrefix(p) = registered[u]
                  /\ \A o \in StrictPrefixes(p) \ {u} : Len(o) < Len(u)
            BY <3>1 DEF LongestAnswers
        <3>3. u = r
            <4>1. \A o \in StrictPrefixes(p) : Len(o) \in Int
                BY PathsAssumption DEF StrictPrefixes
            <4> QED
                BY <2>1, <2>2, <3>1, <3>2, <4>1
        <3> QED
            BY <1>1, <2>2, <3>1, <3>2, <3>3
    <2> QED
        BY <2>3, <2>4
<1> QED
    BY <1>5, <1>6, <1>7

\* A registration changes the answer for a path only to the server that has just
\* registered an ancestor of it (addPathToTrie, findInTrie).
THEOREM AnswersAreSteadfast == Spec => RegistrationsAreSteadfast
<1>1. Spec => []RegisteredInv
    BY RegisteredInit, RegisteredNext, PTL DEF Spec
<1> QED
    BY <1>1, LookupFindsAncestor, LongestIsUnique, RegistrationIsSteadfast, PTL
    DEF Spec, RegistrationsAreSteadfast
=============================================================================
