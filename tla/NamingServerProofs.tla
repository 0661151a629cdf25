-------------------------- MODULE NamingServerProofs --------------------------
(***************************************************************************)
(* Where the naming server sends a command: what trie, cache and handlers  *)
(* say of the server of a path, for any number of handlers, servers, slots *)
(* and paths, any hash function and any size of the cache.                 *)
(***************************************************************************)
EXTENDS NamingServer, FiniteSetTheorems, TLAPS

\* The lemmas about tries; what that module says of its own specification is
\* not used.
Tries == INSTANCE TrieProofs WITH
    Registrable <- {}, Queries <- {}, Servers <- {}, trie <- root, registered <- root

\* Pointer safety of the cache.
LRU == INSTANCE LRUCacheProofs WITH
    Paths <- Queries, Servers <- Slots, NULL <- NotEnd

TableInv ==
    /\ storage_servers \in [Slots -> {<<s>> : s \in StorageServers} \cup {NoStruct}]
    /\ is_active \in [Slots -> BOOLEAN] /\ expired \in [Slots -> BOOLEAN]
    /\ num_storage_servers = Cardinality(Active)
    /\ unregistered \subseteq StorageServers

\* A path in the trie leads to an active server that listed it.
RootInv ==
    /\ root = [node \in DOMAIN root |-> root[node]]
    /\ \A node \in DOMAIN root :
          root[node] # NotEnd => /\ root[node] \in Slots /\ is_active[root[node]]
                                 /\ node \in PathsIn[storage_servers[root[node]][1]]

\* A cached path is cached with a server that covers it.
CachedInv == \A n \in allocated : server[n] \in Slots /\ Covers(server[n], path[n])

HandlersInv ==
    /\ pc \in [Handlers -> {"none", "recv", "cache", "trie", "add", "forward"}]
    /\ cmd \in [Handlers -> Commands \cup {<<>>}]
    /\ answers \in [Handlers -> Seq(Slots \cup {NotEnd})]
    /\ hit \in [Handlers -> Slots \cup {NotEnd}]
    /\ \A t \in Handlers :
          /\ pc[t] \in {"none", "recv"} <=> cmd[t] = <<>>
          /\ pc[t] \in {"none", "recv"} => answers[t] = <<>>
          /\ pc[t] \in {"cache", "trie", "add"} => Len(answers[t]) < Len(cmd[t])
          /\ pc[t] = "forward" => Len(answers[t]) = Len(cmd[t])
          /\ pc[t] = "add" <=> hit[t] # NotEnd

\* What the trie said of a path is still true when it is added to the cache.
HitsInv == \A t \in Handlers : pc[t] = "add" => Covers(hit[t], Asked(t))

\* With one handler a bucket that was found empty stays so until that handler
\* fills it.
MissInv ==
    OneHandler => \A t \in Handlers :
                      pc[t] \in {"trie", "add"} => hashmap[Hash[Asked(t)]] = NotEnd

IInv ==
    /\ TableInv /\ RootInv /\ LRU!IInv /\ CachedInv /\ HandlersInv /\ HitsInv
    /\ AnswerCoversBucket /\ MissInv /\ NoHiddenEntry

-----------------------------------------------------------------------------
(* The assumptions of the cache, and its steps.                            *)

LEMMA CacheAssumptions ==
    /\ Capacity \in Nat \ {0} /\ Hash \in [Queries -> LRU!Buckets]
    /\ LRU!IsFiniteSet(Nodes) /\ LRU!Cardinality(Nodes) > Capacity
    /\ NotEnd \notin Nodes /\ NotEnd \notin Queries /\ NotEnd \notin Slots
<1>1. LRU!IsFiniteSet(Nodes)
    BY CacheAssumption DEF IsFiniteSet, LRU!IsFiniteSet
<1>2. LRU!Cardinality(Nodes) = Cardinality(Nodes)
    BY DEF Cardinality, LRU!Cardinality, IsFiniteSet, LRU!IsFiniteSet
<1> QED
    BY <1>1, <1>2, CacheAssumption, PathsAssumption, NotASlotAssumption DEF LRU!Buckets

LEMMA CacheInit == Cache!Init => LRU!IInv
<1>1. Cache!Init => LRU!Init
    BY DEF Cache!Init, LRU!Init, Cache!Buckets, LRU!Buckets
<1> QED
    BY <1>1, CacheAssumptions, LRU!InitInvariant

LEMMA CacheUnchanged == LRU!IInv /\ UNCHANGED cacheVars => LRU!IInv'
BY CacheAssumptions, LRU!StutterInvariant DEF cacheVars, LRU!vars

LEMMA AddIsNext ==
    ASSUME NEW p \in Queries, NEW s \in Slots, Cache!AddToCache(p, s)
    PROVE  LRU!Next
<1>1. LRU!AddBelowCapacity(p, s) \/ LRU!AddEvicting(p, s)
    BY DEF Cache!AddToCache, Cache!AddBelowCapacity, Cache!AddEvicting, Cache!Fits,
           Cache!BucketsWithNew, Cache!NextWithNew, Cache!PrevWithNew,
           Cache!BucketsAfterEviction,
           LRU!AddBelowCapacity, LRU!AddEvicting, LRU!Fits, LRU!BucketsWithNew,
           LRU!NextWithNew, LRU!PrevWithNew, LRU!BucketsAfterEviction
<1> QED
    BY <1>1 DEF LRU!Next

LEMMA GetIsNext ==
    ASSUME NEW p \in Queries, NEW s \in Slots \cup {NotEnd}, Cache!GetFromCache(p, s)
    PROVE  LRU!Next
<1>1. LRU!GetFromCache(p, s)
    BY DEF Cache!GetFromCache, Cache!GetMiss, Cache!GetHit, Cache!Found,
           Cache!MoveToFront, Cache!NextWithMoved, Cache!PrevWithMoved, Cache!fields,
           Cache!vars, LRU!GetFromCache, LRU!GetMiss, LRU!GetHit, LRU!Found,
           LRU!MoveToFront, LRU!NextWithMoved, LRU!PrevWithMoved, LRU!fields, LRU!vars
<1> QED
    BY <1>1 DEF LRU!Next

\* addToCache: one entry more, and perhaps one less.
LEMMA AddEffect ==
    ASSUME LRU!IInv, NEW p \in Queries, NEW s \in Slots, Cache!AddToCache(p, s)
    PROVE  /\ LRU!IInv'
           /\ \E n \in Nodes \ allocated :
                 /\ allocated' \subseteq allocated \cup {n}
                 /\ path'[n] = p /\ server'[n] = s
                 /\ \A x \in allocated' \ {n} : path'[x] = path[x] /\ server'[x] = server[x]
                 /\ size < Capacity => /\ hashmap' = [hashmap EXCEPT ![Hash[p]] = n]
                                       /\ allocated' = allocated \cup {n}
<1>1. LRU!IInv'
    BY AddIsNext, CacheAssumptions, LRU!NextInvariant
<1>2. /\ allocated \subseteq Nodes
      /\ path = [n \in Nodes |-> path[n]] /\ server = [n \in Nodes |-> server[n]]
      /\ tail \in allocated \cup {NotEnd}
    BY DEF LRU!IInv, LRU!TypeOK, LRU!NoDangling
<1>3. CASE Cache!AddBelowCapacity(p, s)
    <2>1. PICK n \in Nodes \ allocated :
              /\ allocated' = allocated \cup {n}
              /\ path' = [path EXCEPT ![n] = p]
              /\ server' = [server EXCEPT ![n] = s]
              /\ hashmap' = [hashmap EXCEPT ![Hash[p]] = n]
        BY <1>3 DEF Cache!AddBelowCapacity, Cache!BucketsWithNew
    <2> QED
        BY <1>1, <1>2, <2>1
<1>4. CASE Cache!AddEvicting(p, s)
    <2>1. PICK n \in Nodes \ allocated :
              /\ allocated' = (allocated \cup {n}) \ {tail}
              /\ path' = [path EXCEPT ![n] = p, ![tail] = NotEnd]
              /\ server' = [server EXCEPT ![n] = s, ![tail] = NotEnd]
        BY <1>4 DEF Cache!AddEvicting
    <2>2. tail # n
        BY <1>2, <2>1, CacheAssumptions
    <2>3. ~(size < Capacity)
        BY <1>4 DEF Cache!AddEvicting, Cache!Fits
    <2> QED
        BY <1>1, <1>2, <2>1, <2>2, <2>3
<1> QED
    BY <1>3, <1>4 DEF Cache!AddToCache

\* getFromCache answers with the server of an entry of the bucket.
LEMMA GetEffect ==
    ASSUME LRU!IInv, NEW p \in Queries, NEW s \in Slots \cup {NotEnd},
           Cache!GetFromCache(p, s)
    PROVE  /\ LRU!IInv'
           /\ UNCHANGED <<allocated, path, server, size, hashmap>>
           /\ \/ hashmap[Hash[p]] = NotEnd /\ s = NotEnd
              \/ \E n \in allocated : Hash[path[n]] = Hash[p] /\ s = server[n]
<1>1. LRU!IInv'
    BY GetIsNext, CacheAssumptions, LRU!NextInvariant
<1>2. UNCHANGED <<allocated, path, server, size, hashmap>>
    BY DEF Cache!GetFromCache, Cache!GetMiss, Cache!GetHit, Cache!MoveToFront,
           Cache!fields, Cache!vars
<1>3. Hash[p] \in LRU!Buckets
    BY CacheAssumptions
<1>4. CASE hashmap[Hash[p]] # NotEnd
    <2>1. hashmap[Hash[p]] \in allocated /\ Hash[path[hashmap[Hash[p]]]] = Hash[p]
        BY <1>3, <1>4 DEF LRU!IInv, LRU!NoDangling, LRU!PathsInv
    <2>2. s = server[hashmap[Hash[p]]]
        BY <1>4 DEF Cache!GetFromCache, Cache!GetMiss, Cache!GetHit, Cache!Found
    <2> QED
        BY <1>1, <1>2, <2>1, <2>2
<1>5. CASE hashmap[Hash[p]] = NotEnd
    BY <1>1, <1>2, <1>5 DEF Cache!GetFromCache, Cache!GetMiss, Cache!GetHit, Cache!Found
<1> QED
    BY <1>4, <1>5

\* While no entry hides another, an empty bucket means that the cache is not full.
LEMMA RoomForOne ==
    ASSUME LRU!IInv, \A n \in allocated : hashmap[Hash[path[n]]] = n,
           NEW h \in LRU!Buckets, hashmap[h] = NotEnd
    PROVE  size < Capacity
<1> DEFINE others == LRU!Buckets \ {h}
           bucket == [n \in allocated |-> Hash[path[n]]]
<1>1. IsFiniteSet(others) /\ Cardinality(others) = Capacity - 1
    <2>1. Capacity - 1 \in Int /\ Capacity \in Nat
        BY CacheAssumptions
    <2>2. IsFiniteSet(0 .. Capacity - 1) /\ Cardinality(0 .. Capacity - 1) = Capacity
        BY <2>1, FS_Interval
    <2> QED
        BY <2>1, <2>2, FS_RemoveElement, ZenonT(40) DEF LRU!Buckets
<1>2. ASSUME NEW n \in allocated PROVE bucket[n] \in others
    <2>1. path[n] \in Queries
        BY DEF LRU!IInv, LRU!PathsInv
    <2>2. n # NotEnd
        BY CacheAssumptions DEF LRU!IInv, LRU!TypeOK
    <2> QED
        BY <2>1, <2>2, CacheAssumptions
<1>3. bucket \in Injection(allocated, others)
    <2>1. bucket \in [allocated -> others]
        BY <1>2
    <2>2. \A m, n \in allocated : bucket[m] = bucket[n] => m = n
        OBVIOUS
    <2> QED
        BY <2>1, <2>2 DEF Injection, IsInjective
<1>4. IsFiniteSet(allocated) /\ Cardinality(allocated) <= Cardinality(others)
    <2> HIDE DEF others, bucket
    <2> QED
        BY <1>1, <1>3, FS_Injection
<1>5. size = Cardinality(allocated)
    <2>1. size = LRU!Cardinality(allocated)
        BY DEF LRU!IInv, LRU!SizeExact
    <2>2. LRU!Cardinality(allocated) = Cardinality(allocated)
        BY DEF Cardinality, LRU!Cardinality, IsFiniteSet, LRU!IsFiniteSet
    <2> QED
        BY <2>1, <2>2
<1> QED
    <2>1. Cardinality(allocated) \in Nat /\ Capacity \in Nat
        BY <1>4, CacheAssumptions, FS_CardinalityType
    <2> HIDE DEF others
    <2> QED
        BY <1>1, <1>4, <1>5, <2>1

-----------------------------------------------------------------------------
(* The handlers.                                                           *)

LEMMA CommandsAreSequences ==
    \A c \in Commands : c \in Seq(Queries) /\ Len(c) \in 1 .. 2 /\ c # <<>>
<1> SUFFICES ASSUME NEW c \in Commands
             PROVE  c \in Seq(Queries) /\ Len(c) \in 1 .. 2 /\ c # <<>>
    OBVIOUS
<1>1. PICK n \in 1 .. 2 : c \in [1 .. n -> Queries]
    <2>1. 1 \in 1 .. 2 /\ 2 \in 1 .. 2
        OBVIOUS
    <2> QED
        BY <2>1 DEF Commands
<1>2. n \in Nat /\ n # 0
    OBVIOUS
<1>3. c \in Seq(Queries) /\ Len(c) = n
    BY <1>1, <1>2
<1>4. Len(<<>>) = 0
    OBVIOUS
<1> QED
    BY <1>2, <1>3, <1>4

\* A handler that resolves is at some path of its command.
LEMMA AskedIsQuery ==
    ASSUME HandlersInv, NEW t \in Handlers, pc[t] \in {"cache", "trie", "add"}
    PROVE  /\ cmd[t] \in Seq(Queries) /\ Len(answers[t]) < Len(cmd[t])
           /\ answers[t] \in Seq(Slots \cup {NotEnd})
           /\ Asked(t) \in Queries
<1>1. /\ cmd[t] \in Commands /\ Len(answers[t]) < Len(cmd[t])
      /\ answers[t] \in Seq(Slots \cup {NotEnd})
    BY DEF HandlersInv
<1>2. cmd[t] \in Seq(Queries)
    BY <1>1, CommandsAreSequences
<1> QED
    BY <1>1, <1>2 DEF Asked

\* Handlers never go back to not having been started.
LEMMA OneHandlerBefore ==
    ASSUME \A t \in Handlers : pc'[t] = "none" => pc[t] = "none", OneHandler'
    PROVE  /\ OneHandler
           /\ \A t, u \in Handlers : pc'[t] # "none" /\ pc'[u] # "none" => t = u
<1> DEFINE started == {t \in Handlers : pc[t] # "none"}
           after == {t \in Handlers : pc'[t] # "none"}
<1>1. started \subseteq after /\ IsFiniteSet(after) /\ Cardinality(after) <= 1
    BY HandlersAssumption, FS_Subset DEF OneHandler
<1> HIDE DEF started, after
<1>2. /\ Cardinality(started) <= Cardinality(after) /\ Cardinality(started) \in Nat
      /\ Cardinality(after) \in Nat
    BY <1>1, FS_Subset, FS_CardinalityType
<1>3. Cardinality(started) <= 1
    BY <1>1, <1>2
<1>4. ASSUME NEW t \in after, NEW u \in after PROVE t = u
    <2>1. Cardinality(after) = 0 \/ Cardinality(after) = 1
        BY <1>1, <1>2
    <2>2. after = {} \/ \E x : after = {x}
        BY <1>1, <2>1, FS_EmptySet, FS_Singleton
    <2> QED
        BY <2>2
<1> QED
    BY <1>3, <1>4 DEF OneHandler, started, after

\* The table and the trie in the steps of handlers.
LEMMA TableUnchanged ==
    ASSUME TableInv, RootInv, UNCHANGED <<tableVars, unregistered>>
    PROVE  TableInv' /\ RootInv'
BY DEF TableInv, RootInv, tableVars, Active

\* Steps that leave what resolving handlers know alone.
LEMMA Resolving ==
    ASSUME IInv, UNCHANGED <<tableVars, allocated, path, server, hashmap>>,
           NEW t \in Handlers,
           \A u \in Handlers \ {t} : /\ pc'[u] = pc[u] /\ cmd'[u] = cmd[u]
                                     /\ answers'[u] = answers[u] /\ hit'[u] = hit[u],
           pc'[t] # "none",
           pc'[t] = "add" => Covers(hit[t], Asked(t))',
           pc'[t] \in {"trie", "add"} => hashmap[Hash[Asked(t)]]' = NotEnd
    PROVE  CachedInv' /\ HitsInv' /\ MissInv' /\ NoHiddenEntry'
<1>1. CachedInv'
    BY DEF IInv, CachedInv, Covers, tableVars
<1>2. HitsInv'
    BY DEF IInv, HitsInv, Covers, Asked, tableVars
<1>3. OneHandler' => OneHandler
    BY OneHandlerBefore
<1>4. MissInv'
    BY <1>3 DEF IInv, MissInv, Asked
<1>5. NoHiddenEntry'
    BY <1>3 DEF IInv, NoHiddenEntry
<1> QED
    BY <1>1, <1>2, <1>4, <1>5

\* find_storage_server_for_path returns a slot that covers a path of the bucket.
LEMMA ReturnEffect ==
    ASSUME HandlersInv, AnswerCoversBucket, UNCHANGED <<tableVars, cmd>>,
           NEW t \in Handlers, pc[t] \in {"cache", "trie", "add"},
           NEW s \in Slots \cup {NotEnd}, Return(t, s),
           s # NotEnd => \E p \in Queries : Hash[p] = Hash[Asked(t)] /\ Covers(s, p)
    PROVE  /\ HandlersInv' /\ AnswerCoversBucket'
           /\ pc'[t] \in {"cache", "forward"}
           /\ \A u \in Handlers \ {t} : /\ pc'[u] = pc[u] /\ cmd'[u] = cmd[u]
                                        /\ answers'[u] = answers[u] /\ hit'[u] = hit[u]
<1>1. /\ cmd[t] \in Seq(Queries) /\ Len(answers[t]) < Len(cmd[t])
      /\ answers[t] \in Seq(Slots \cup {NotEnd})
    BY AskedIsQuery
<1>2. /\ answers' = [answers EXCEPT ![t] = Append(answers[t], s)]
      /\ hit' = [hit EXCEPT ![t] = NotEnd]
      /\ pc' = [pc EXCEPT ![t] = IF Len(answers'[t]) = Len(cmd[t]) THEN "forward" ELSE "cache"]
    BY DEF Return, AllAnswered
<1>3. /\ answers'[t] = Append(answers[t], s) /\ hit'[t] = NotEnd
      /\ pc'[t] = IF Len(answers'[t]) = Len(cmd[t]) THEN "forward" ELSE "cache"
      /\ \A u \in Handlers \ {t} : /\ pc'[u] = pc[u] /\ cmd'[u] = cmd[u]
                                   /\ answers'[u] = answers[u] /\ hit'[u] = hit[u]
    BY <1>2 DEF HandlersInv
<1>4. /\ answers'[t] \in Seq(Slots \cup {NotEnd}) /\ Len(answers'[t]) = Len(answers[t]) + 1
      /\ \A i \in 1 .. Len(answers[t]) : answers'[t][i] = answers[t][i]
      /\ answers'[t][Len(answers[t]) + 1] = s
    BY <1>1, <1>3
<1>5. HandlersInv'
    <2>1. /\ pc' \in [Handlers -> {"none", "recv", "cache", "trie", "add", "forward"}]
          /\ cmd' \in [Handlers -> Commands \cup {<<>>}]
          /\ answers' \in [Handlers -> Seq(Slots \cup {NotEnd})]
          /\ hit' \in [Handlers -> Slots \cup {NotEnd}]
        BY <1>2, <1>3, <1>4 DEF HandlersInv
    <2>2. ASSUME NEW u \in Handlers
          PROVE  /\ pc'[u] \in {"none", "recv"} <=> cmd'[u] = <<>>
                 /\ pc'[u] \in {"none", "recv"} => answers'[u] = <<>>
                 /\ pc'[u] \in {"cache", "trie", "add"} => Len(answers'[u]) < Len(cmd'[u])
                 /\ pc'[u] = "forward" => Len(answers'[u]) = Len(cmd'[u])
                 /\ pc'[u] = "add" <=> hit'[u] # NotEnd
        <3>1. CASE u = t
            <4>1. cmd[t] # <<>>
                BY DEF HandlersInv
            <4>2. Len(answers'[t]) <= Len(cmd[t])
                BY <1>1, <1>4
            <4>3. Len(answers'[t]) # Len(cmd[t]) => Len(answers'[t]) < Len(cmd[t])
                BY <1>1, <1>4
            <4> QED
                BY <1>3, <3>1, <4>1, <4>2, <4>3
        <3>2. CASE u # t
            BY <1>3, <3>2 DEF HandlersInv
        <3> QED
            BY <3>1, <3>2
    <2> QED
        BY <2>1, <2>2 DEF HandlersInv
<1>6. AnswerCoversBucket'
    <2> SUFFICES ASSUME NEW u \in Handlers, NEW i \in 1 .. Len(answers'[u]),
                        answers'[u][i] # NotEnd
                 PROVE  \E p \in Queries :
                            Hash[p] = Hash[cmd'[u][i]] /\ Covers(answers[u][i], p)'
        BY DEF AnswerCoversBucket
    <2>1. CASE u = t /\ i # Len(answers[t]) + 1
        <3>1. i \in 1 .. Len(answers[t])
            BY <1>1, <1>4, <2>1
        <3> QED
            BY <1>4, <2>1, <3>1 DEF AnswerCoversBucket, Covers, tableVars
    <2>2. CASE u = t /\ i = Len(answers[t]) + 1
        BY <1>4, <2>2 DEF Asked, Covers, tableVars
    <2>3. CASE u # t
        BY <1>3, <2>3, SMTT(20) DEF AnswerCoversBucket, Covers, tableVars
    <2> QED
        BY <2>1, <2>2, <2>3
<1> QED
    BY <1>3, <1>5, <1>6

-----------------------------------------------------------------------------
(* The steps.                                                              *)

LEMMA InitInvariant == Init => IInv
<1> SUFFICES ASSUME Init PROVE IInv
    OBVIOUS
<1>1. /\ storage_servers = [i \in Slots |-> NoStruct]
      /\ is_active = [i \in Slots |-> FALSE] /\ expired = [i \in Slots |-> FALSE]
      /\ num_storage_servers = 0 /\ root = [node \in {<<>>} |-> NotEnd]
      /\ unregistered = StorageServers
    BY DEF Init, TableInit, EmptyTrie
<1>2. TableInv
    <2>1. Active = {}
        BY <1>1 DEF Active
    <2> QED
        BY <1>1, <2>1, FS_EmptySet DEF TableInv
<1>3. RootInv
    BY <1>1 DEF RootInv
<1>4. LRU!IInv
    BY CacheInit DEF Init
<1>5. allocated = {}
    BY DEF Init, Cache!Init
<1>6. CachedInv /\ NoHiddenEntry
    BY <1>5 DEF CachedInv, NoHiddenEntry
<1>7. <<>> \in Seq(Slots \cup {NotEnd}) /\ Len(<<>>) = 0
    OBVIOUS
<1>8. HandlersInv
    BY <1>7 DEF Init, HandlersInv
<1>9. HitsInv /\ MissInv
    BY DEF Init, HitsInv, MissInv
<1>10. AnswerCoversBucket
    BY <1>7 DEF Init, AnswerCoversBucket
<1> QED
    BY <1>2, <1>3, <1>4, <1>6, <1>8, <1>9, <1>10 DEF IInv

\* Steps that only move a handler.
LEMMA MoveInvariant ==
    ASSUME IInv, NEW t \in Handlers, Connect(t) \/ Receive(t) \/ Forward(t)
    PROVE  IInv'
<1>1. UNCHANGED <<tableVars, cacheVars, unregistered, hit>>
    BY DEF Connect, Receive, Forward
<1>2. TableInv' /\ RootInv' /\ LRU!IInv'
    BY <1>1, TableUnchanged, CacheUnchanged DEF IInv
<1>3. /\ pc[t] \in {"none", "recv", "forward"} /\ pc'[t] \in {"recv", "cache"}
      /\ \/ pc'[t] = "recv" /\ cmd'[t] = <<>> /\ answers'[t] = <<>>
         \/ pc'[t] = "cache" /\ cmd'[t] \in Commands /\ answers'[t] = <<>>
      /\ \A u \in Handlers \ {t} : /\ pc'[u] = pc[u] /\ cmd'[u] = cmd[u]
                                   /\ answers'[u] = answers[u]
    BY DEF Connect, Receive, Forward, IInv, HandlersInv
<1>4. CachedInv' /\ HitsInv' /\ MissInv' /\ NoHiddenEntry'
    BY <1>1, <1>3, Resolving DEF cacheVars
<1>5. <<>> \in Seq(Slots \cup {NotEnd}) /\ Len(<<>>) = 0
    OBVIOUS
<1>6. HandlersInv'
    <2>1. /\ pc' \in [Handlers -> {"none", "recv", "cache", "trie", "add", "forward"}]
          /\ cmd' \in [Handlers -> Commands \cup {<<>>}]
          /\ answers' \in [Handlers -> Seq(Slots \cup {NotEnd})]
        BY <1>5, ZenonT(40) DEF Connect, Receive, Forward, IInv, HandlersInv
    <2>2. cmd'[t] \in Commands => cmd'[t] # <<>> /\ 0 < Len(cmd'[t])
        BY CommandsAreSequences
    <2> QED
        BY <1>1, <1>3, <1>5, <2>1, <2>2 DEF IInv, HandlersInv
<1>7. AnswerCoversBucket'
    BY <1>1, <1>3, <1>5 DEF IInv, AnswerCoversBucket, Covers, tableVars
<1> QED
    BY <1>2, <1>4, <1>6, <1>7 DEF IInv

LEMMA LookupCacheInvariant ==
    ASSUME IInv, NEW t \in Handlers, LookupCache(t)
    PROVE  IInv'
<1>1. pc[t] = "cache" /\ UNCHANGED <<tableVars, unregistered, cmd>>
    BY DEF LookupCache
<1>2. PICK s \in Slots \cup {NotEnd} :
          /\ Cache!GetFromCache(Asked(t), s)
          /\ \/ s # NotEnd /\ Return(t, s)
             \/ /\ s = NotEnd /\ pc' = [pc EXCEPT ![t] = "trie"]
                /\ UNCHANGED <<answers, hit>>
    BY DEF LookupCache, IsHit
<1>3. Asked(t) \in Queries
    BY <1>1, AskedIsQuery DEF IInv
<1>4. /\ LRU!IInv'
      /\ UNCHANGED <<allocated, path, server, size, hashmap>>
      /\ \/ hashmap[Hash[Asked(t)]] = NotEnd /\ s = NotEnd
         \/ \E n \in allocated : Hash[path[n]] = Hash[Asked(t)] /\ s = server[n]
    BY <1>2, <1>3, GetEffect DEF IInv
<1>5. TableInv' /\ RootInv'
    BY <1>1, TableUnchanged DEF IInv
<1>6. CASE s # NotEnd
    <2>1. \E p \in Queries : Hash[p] = Hash[Asked(t)] /\ Covers(s, p)
        <3>1. PICK n \in allocated : Hash[path[n]] = Hash[Asked(t)] /\ s = server[n]
            BY <1>4, <1>6
        <3>2. path[n] \in Queries
            BY DEF IInv, LRU!IInv, LRU!PathsInv
        <3> QED
            BY <3>1, <3>2 DEF IInv, CachedInv
    <2>2. /\ HandlersInv' /\ AnswerCoversBucket'
          /\ pc'[t] \in {"cache", "forward"}
          /\ \A u \in Handlers \ {t} : /\ pc'[u] = pc[u] /\ cmd'[u] = cmd[u]
                                       /\ answers'[u] = answers[u] /\ hit'[u] = hit[u]
        BY <1>1, <1>2, <1>6, <2>1, ReturnEffect DEF IInv
    <2>3. CachedInv' /\ HitsInv' /\ MissInv' /\ NoHiddenEntry'
        BY <1>1, <1>4, <2>2, Resolving
    <2> QED
        BY <1>4, <1>5, <2>2, <2>3 DEF IInv
<1>7. CASE s = NotEnd
    <2>1. /\ pc' = [pc EXCEPT ![t] = "trie"] /\ UNCHANGED <<answers, hit>>
        BY <1>2, <1>7
    <2>2. hashmap[Hash[Asked(t)]] = NotEnd
        BY <1>4, <1>7, CacheAssumptions DEF IInv, CachedInv
    <2>3. HandlersInv'
        BY <1>1, <2>1 DEF IInv, HandlersInv
    <2>4. AnswerCoversBucket'
        BY <1>1, <2>1 DEF IInv, AnswerCoversBucket, Covers, tableVars
    <2>5. /\ pc'[t] = "trie" /\ UNCHANGED <<cmd, answers, hit>>
          /\ \A u \in Handlers \ {t} : pc'[u] = pc[u]
        BY <1>1, <2>1 DEF IInv, HandlersInv
    <2>6. CachedInv' /\ HitsInv' /\ MissInv' /\ NoHiddenEntry'
        BY <1>1, <1>4, <2>2, <2>5, Resolving DEF Asked
    <2> QED
        BY <1>4, <1>5, <2>3, <2>4, <2>6 DEF IInv
<1> QED
    BY <1>6, <1>7

\* The trie answers with an active server that listed an ancestor of the path.
LEMMA TrieCovers ==
    ASSUME RootInv, NEW p \in Queries, FindInTrie(root, p) # NotEnd
    PROVE  FindInTrie(root, p) \in Slots /\ Covers(FindInTrie(root, p), p)
<1>1. FindInTrie(root, p) = Tries!FindInTrie(root, p)
    BY DEF FindInTrie, Tries!FindInTrie, FindStep, Tries!FindStep, IsEndOfPath,
           Tries!IsEndOfPath, FoldLeft, MapThenFoldSet, Max, Tries!FoldLeft,
           Tries!MapThenFoldSet, Tries!Max
<1>2. PICK q \in DOMAIN root :
          Tries!FindInTrie(root, p) = root[q] /\ Tries!IsStrictPrefix(q, p)
    <2>1. p \in Seq(Nat)
        BY PathsAssumption
    <2> QED
        BY <1>1, <2>1, Tries!LookupFindsMark
<1>3. IsStrictPrefix(q, p)
    BY <1>2 DEF IsStrictPrefix, IsPrefix, Tries!IsStrictPrefix, Tries!IsPrefix
<1> QED
    BY <1>1, <1>2, <1>3 DEF RootInv, Covers

LEMMA LookupTrieInvariant ==
    ASSUME IInv, NEW t \in Handlers, LookupTrie(t)
    PROVE  IInv'
<1> DEFINE s == FindInTrie(root, Asked(t))
<1>1. pc[t] = "trie" /\ UNCHANGED <<tableVars, cacheVars, unregistered, cmd>>
    BY DEF LookupTrie
<1>2. \/ s = NotEnd /\ Return(t, NotEnd)
      \/ /\ s # NotEnd /\ hit' = [hit EXCEPT ![t] = s]
         /\ pc' = [pc EXCEPT ![t] = "add"] /\ UNCHANGED answers
    BY DEF LookupTrie
<1>3. Asked(t) \in Queries
    BY <1>1, AskedIsQuery DEF IInv
<1>4. TableInv' /\ RootInv' /\ LRU!IInv'
    BY <1>1, TableUnchanged, CacheUnchanged DEF IInv
<1>5. s # NotEnd => s \in Slots /\ Covers(s, Asked(t))
    BY <1>3, TrieCovers DEF IInv
<1> HIDE DEF s
<1>6. CASE s = NotEnd
    <2>1. /\ HandlersInv' /\ AnswerCoversBucket'
          /\ pc'[t] \in {"cache", "forward"}
          /\ \A u \in Handlers \ {t} : /\ pc'[u] = pc[u] /\ cmd'[u] = cmd[u]
                                       /\ answers'[u] = answers[u] /\ hit'[u] = hit[u]
        BY <1>1, <1>2, <1>6, ReturnEffect DEF IInv
    <2>2. CachedInv' /\ HitsInv' /\ MissInv' /\ NoHiddenEntry'
        BY <1>1, <2>1, Resolving DEF cacheVars
    <2> QED
        BY <1>4, <2>1, <2>2 DEF IInv
<1>7. CASE s # NotEnd
    <2>1. /\ hit' = [hit EXCEPT ![t] = s]
          /\ pc' = [pc EXCEPT ![t] = "add"] /\ UNCHANGED answers
        BY <1>2, <1>7
    <2>2. /\ pc'[t] = "add" /\ hit'[t] = s /\ UNCHANGED <<cmd, answers>>
          /\ \A u \in Handlers \ {t} : pc'[u] = pc[u] /\ hit'[u] = hit[u]
        BY <1>1, <2>1 DEF IInv, HandlersInv
    <2>3. HandlersInv'
        BY <1>1, <1>5, <1>7, <2>1, <2>2 DEF IInv, HandlersInv
    <2>4. AnswerCoversBucket'
        BY <1>1, <2>2 DEF IInv, AnswerCoversBucket, Covers, tableVars
    <2>5. Covers(hit[t], Asked(t))'
        BY <1>1, <1>5, <1>7, <2>2 DEF Covers, Asked, tableVars
    <2>6. OneHandler' => OneHandler
        BY <1>1, <2>2, OneHandlerBefore
    <2>7. CachedInv' /\ NoHiddenEntry'
        BY <1>1, <2>6 DEF IInv, CachedInv, NoHiddenEntry, Covers, tableVars, cacheVars
    <2>8. HitsInv'
        BY <1>1, <2>2, <2>5 DEF IInv, HitsInv, Covers, Asked, tableVars
    <2>9. MissInv'
        BY <1>1, <2>2, <2>6 DEF IInv, MissInv, Asked, cacheVars
    <2> QED
        BY <1>4, <2>3, <2>4, <2>7, <2>8, <2>9 DEF IInv
<1> QED
    BY <1>6, <1>7

\* With one handler a path is only added to an empty bucket of a cache that is
\* not full.
LEMMA AddFoundAlone ==
    ASSUME IInv, NEW t \in Handlers, AddFound(t), OneHandler'
    PROVE  /\ OneHandler /\ pc[t] = "add"
           /\ hashmap[Hash[Asked(t)]] = NotEnd /\ Hash[Asked(t)] \in LRU!Buckets
           /\ size < Capacity
           /\ \A u \in Handlers : pc'[u] \notin {"trie", "add"}
<1>1. pc[t] = "add" /\ pc'[t] \in {"cache", "forward"}
      /\ \A u \in Handlers \ {t} : pc'[u] = pc[u]
    BY DEF AddFound, Return, IInv, HandlersInv
<1>2. /\ OneHandler
      /\ \A u \in Handlers : pc'[u] # "none" => u = t
    BY <1>1, OneHandlerBefore
<1>3. hashmap[Hash[Asked(t)]] = NotEnd
    BY <1>1, <1>2 DEF IInv, MissInv
<1>4. Hash[Asked(t)] \in LRU!Buckets
    BY <1>1, AskedIsQuery, CacheAssumptions DEF IInv
<1>5. size < Capacity
    BY <1>2, <1>3, <1>4, RoomForOne DEF IInv, NoHiddenEntry
<1> QED
    BY <1>1, <1>2, <1>3, <1>4, <1>5

LEMMA AddFoundInvariant ==
    ASSUME IInv, NEW t \in Handlers, AddFound(t)
    PROVE  IInv'
<1> DEFINE p == Asked(t)
           s == hit[t]
<1>1. /\ pc[t] = "add" /\ UNCHANGED <<tableVars, unregistered, cmd>>
      /\ Cache!AddToCache(p, s) /\ Return(t, s)
    BY DEF AddFound
<1>2. p \in Queries /\ s \in Slots /\ Covers(s, p)
    <2>1. p \in Queries
        BY <1>1, AskedIsQuery DEF IInv
    <2>2. s \in Slots \cup {NotEnd} /\ s # NotEnd
        BY <1>1 DEF IInv, HandlersInv
    <2>3. Covers(s, p)
        BY <1>1 DEF IInv, HitsInv
    <2> QED
        BY <2>1, <2>2, <2>3
<1> HIDE DEF p, s
<1>3. LRU!IInv'
    BY <1>1, <1>2, AddEffect DEF IInv
<1>4. PICK n \in Nodes \ allocated :
          /\ allocated' \subseteq allocated \cup {n}
          /\ path'[n] = p /\ server'[n] = s
          /\ \A x \in allocated' \ {n} : path'[x] = path[x] /\ server'[x] = server[x]
          /\ size < Capacity => /\ hashmap' = [hashmap EXCEPT ![Hash[p]] = n]
                                /\ allocated' = allocated \cup {n}
    BY <1>1, <1>2, AddEffect DEF IInv
<1>5. TableInv' /\ RootInv'
    BY <1>1, TableUnchanged DEF IInv
<1>6. /\ HandlersInv' /\ AnswerCoversBucket'
      /\ pc'[t] \in {"cache", "forward"}
      /\ \A u \in Handlers \ {t} : /\ pc'[u] = pc[u] /\ cmd'[u] = cmd[u]
                                   /\ answers'[u] = answers[u] /\ hit'[u] = hit[u]
    BY <1>1, <1>2, ReturnEffect DEF IInv, p
<1>7. CachedInv'
    <2> SUFFICES ASSUME NEW x \in allocated'
                 PROVE  server'[x] \in Slots /\ Covers(server[x], path[x])'
        BY DEF CachedInv
    <2>1. CASE x = n
        BY <1>1, <1>2, <1>4, <2>1 DEF Covers, tableVars
    <2>2. CASE x # n
        BY <1>1, <1>4, <2>2 DEF IInv, CachedInv, Covers, tableVars
    <2> QED
        BY <2>1, <2>2
<1>8. HitsInv'
    BY <1>1, <1>6 DEF IInv, HitsInv, Covers, Asked, tableVars
<1>9. MissInv'
    BY AddFoundAlone DEF MissInv
<1>10. NoHiddenEntry'
    <2> SUFFICES ASSUME OneHandler', NEW x \in allocated'
                 PROVE  hashmap'[Hash[path'[x]]] = x
        BY DEF NoHiddenEntry
    <2>1. /\ OneHandler /\ hashmap[Hash[p]] = NotEnd /\ Hash[p] \in LRU!Buckets
          /\ size < Capacity
        BY AddFoundAlone DEF p
    <2>2. hashmap'[Hash[p]] = n
        BY <1>4, <2>1 DEF IInv, LRU!IInv, LRU!TypeOK
    <2>3. CASE x = n
        BY <1>4, <2>2, <2>3
    <2>4. CASE x # n
        <3>1. x \in allocated /\ path'[x] = path[x] /\ x # NotEnd
            BY <1>4, <2>4, CacheAssumptions DEF IInv, LRU!IInv, LRU!TypeOK
        <3>2. hashmap[Hash[path[x]]] = x
            BY <2>1, <3>1 DEF IInv, NoHiddenEntry
        <3>3. Hash[path[x]] # Hash[p] /\ Hash[path[x]] \in LRU!Buckets
            <4>1. path[x] \in Queries
                BY <3>1 DEF IInv, LRU!IInv, LRU!PathsInv
            <4> QED
                BY <2>1, <3>1, <3>2, <4>1, CacheAssumptions
        <3>4. hashmap' = [hashmap EXCEPT ![Hash[p]] = n]
            BY <1>4, <2>1
        <3> QED
            BY <3>1, <3>2, <3>3, <3>4 DEF IInv, LRU!IInv, LRU!TypeOK
    <2> QED
        BY <2>3, <2>4
<1> QED
    BY <1>3, <1>5, <1>6, <1>7, <1>8, <1>9, <1>10 DEF IInv

\* What the loop of a registration over its paths leaves.
LEMMA PathsAdded ==
    ASSUME RootInv, NEW paths \in SUBSET Seq(Nat), IsFiniteSet(paths), NEW i
    PROVE  LET after == AddPaths(root, paths, i)
           IN  /\ after = [node \in DOMAIN after |-> after[node]]
               /\ \A node \in DOMAIN after :
                     after[node] = IF node \in paths THEN i
                                   ELSE IF node \in DOMAIN root THEN root[node] ELSE NotEnd
<1>1. Tries!AddPaths(root, paths, i) = Tries!WithPaths(root, paths, i)
    <2>1. Tries!IsFiniteSet(paths)
        BY DEF IsFiniteSet, Tries!IsFiniteSet
    <2> QED
        BY <2>1, Tries!AddingPaths DEF RootInv
<1>2. Tries!AddPaths(root, paths, i) = AddPaths(root, paths, i)
    BY DEF AddPaths, Tries!AddPaths, AddPathToTrie, Tries!AddPathToTrie, Spine,
           Tries!Spine, FoldSet, Tries!FoldSet, MapThenFoldSet, Tries!MapThenFoldSet
<1> QED
    BY <1>1, <1>2 DEF Tries!WithPaths

LEMMA RegisterInvariant ==
    ASSUME IInv, NEW new \in StorageServers, Register(new)
    PROVE  IInv'
<1>1. UNCHANGED <<cacheVars, handlerVars>> /\ unregistered' = unregistered \ {new}
    BY DEF Register
<1>2. LRU!IInv'
    BY <1>1, CacheUnchanged DEF IInv
<1>3. HandlersInv'
    BY <1>1 DEF IInv, HandlersInv, handlerVars
<1>4. MissInv' /\ NoHiddenEntry'
    BY <1>1 DEF IInv, MissInv, NoHiddenEntry, OneHandler, Asked, cacheVars, handlerVars
<1>5. /\ TableInv' /\ RootInv'
      /\ \A i \in Slots : is_active[i] => /\ is_active'[i]
                                          /\ storage_servers'[i] = storage_servers[i]
    <2>1. CASE StoreRefused
        BY <1>1, <2>1 DEF StoreRefused, tableVars, IInv, TableInv, RootInv, Active
    <2>2. CASE StoreServer(<<new>>, PathsIn[new])
        <3>1. PICK i \in Slots :
                  /\ ~is_active[i]
                  /\ storage_servers' = [storage_servers EXCEPT ![i] = <<new>>]
                  /\ is_active' = [is_active EXCEPT ![i] = TRUE]
                  /\ expired' = [expired EXCEPT ![i] = FALSE]
                  /\ root' = AddPaths(root, PathsIn[new], i)
                  /\ num_storage_servers' = num_storage_servers + 1
            BY <2>2 DEF StoreServer, IsFirstFree
        <3>2. /\ is_active'[i] /\ storage_servers'[i] = <<new>>
              /\ \A j \in Slots \ {i} : /\ is_active'[j] = is_active[j]
                                        /\ storage_servers'[j] = storage_servers[j]
            BY <3>1 DEF IInv, TableInv
        <3>3. TableInv'
            <4>1. Active' = Active \cup {i} /\ i \notin Active
                BY <3>1, <3>2 DEF Active
            <4>2. IsFiniteSet(Active)
                <5>1. Active \subseteq 1 .. MaxServers
                    BY DEF Active, Slots
                <5>2. IsFiniteSet(1 .. MaxServers)
                    BY MaxServersAssumption, FS_Interval
                <5> QED
                    BY <5>1, <5>2, FS_Subset
            <4>3. Cardinality(Active') = Cardinality(Active) + 1
                BY <4>1, <4>2, FS_AddElement
            <4>4. num_storage_servers' = Cardinality(Active')
                BY <3>1, <4>3 DEF IInv, TableInv
            <4>5. /\ storage_servers' \in
                        [Slots -> {<<s>> : s \in StorageServers} \cup {NoStruct}]
                  /\ is_active' \in [Slots -> BOOLEAN] /\ expired' \in [Slots -> BOOLEAN]
                BY <3>1 DEF IInv, TableInv
            <4> QED
                BY <1>1, <4>4, <4>5 DEF IInv, TableInv
        <3>4. RootInv'
            <4>1. IsFiniteSet(PathsIn[new]) /\ PathsIn[new] \in SUBSET Seq(Nat)
                BY PathsAssumption
            <4>2. /\ root' = [node \in DOMAIN root' |-> root'[node]]
                  /\ \A node \in DOMAIN root' :
                        root'[node] = IF node \in PathsIn[new] THEN i
                                      ELSE IF node \in DOMAIN root THEN root[node] ELSE NotEnd
                BY <3>1, <4>1, PathsAdded DEF IInv
            <4>3. ASSUME NEW node \in DOMAIN root', root'[node] # NotEnd
                  PROVE  /\ root'[node] \in Slots /\ is_active'[root'[node]]
                         /\ node \in PathsIn[storage_servers'[root'[node]][1]]
                <5>1. CASE node \in PathsIn[new]
                    BY <3>2, <4>2, <5>1
                <5>2. CASE node \notin PathsIn[new]
                    <6>1. node \in DOMAIN root /\ root'[node] = root[node]
                        BY <4>2, <4>3, <5>2
                    <6> QED
                        BY <3>1, <3>2, <4>3, <6>1 DEF IInv, RootInv
                <5> QED
                    BY <5>1, <5>2
            <4> QED
                BY <4>2, <4>3 DEF RootInv
        <3> QED
            BY <3>1, <3>2, <3>3, <3>4
    <2> QED
        BY <2>1, <2>2 DEF Register
<1>6. \A i \in Slots : \A p : Covers(i, p) =>
          is_active'[i] /\ \E q \in PathsIn[storage_servers'[i][1]] : IsStrictPrefix(q, p)
    BY <1>5 DEF Covers
<1>7. CachedInv'
    BY <1>1, <1>6 DEF IInv, CachedInv, Covers, cacheVars
<1>8. HitsInv'
    BY <1>1, <1>6 DEF IInv, HitsInv, HandlersInv, Covers, Asked, handlerVars
<1>9. AnswerCoversBucket'
    <2> SUFFICES ASSUME NEW t \in Handlers, NEW i \in 1 .. Len(answers[t]),
                        answers[t][i] # NotEnd
                 PROVE  \E p \in Queries :
                            Hash[p] = Hash[cmd[t][i]] /\ Covers(answers[t][i], p)'
        BY <1>1 DEF AnswerCoversBucket, handlerVars
    <2>1. PICK p \in Queries : Hash[p] = Hash[cmd[t][i]] /\ Covers(answers[t][i], p)
        BY DEF IInv, AnswerCoversBucket
    <2>2. answers[t][i] \in Slots
        <3>1. answers[t] \in Seq(Slots \cup {NotEnd})
            BY DEF IInv, HandlersInv
        <3> QED
            BY <3>1
    <2> QED
        BY <1>1, <1>6, <2>1, <2>2 DEF Covers, handlerVars
<1> QED
    BY <1>2, <1>3, <1>4, <1>5, <1>7, <1>8, <1>9 DEF IInv

LEMMA NextInvariant == IInv /\ [Next]_vars => IInv'
<1> SUFFICES ASSUME IInv, [Next]_vars PROVE IInv'
    OBVIOUS
<1>1. CASE UNCHANGED vars
    <2>1. UNCHANGED <<tableVars, cacheVars, unregistered, pc, cmd, answers, hit>>
        BY <1>1 DEF vars, handlerVars
    <2>2. TableInv' /\ RootInv' /\ LRU!IInv'
        BY <2>1, TableUnchanged, CacheUnchanged DEF IInv
    <2>3. CachedInv' /\ HandlersInv' /\ HitsInv' /\ AnswerCoversBucket'
        BY <2>1 DEF IInv, CachedInv, HandlersInv, HitsInv, AnswerCoversBucket, Covers,
                    Asked, tableVars, cacheVars
    <2>4. MissInv' /\ NoHiddenEntry'
        BY <2>1 DEF IInv, MissInv, NoHiddenEntry, OneHandler, Asked, cacheVars
    <2> QED
        BY <2>2, <2>3, <2>4 DEF IInv
<1>2. ASSUME NEW t \in Handlers, Handler(t) PROVE IInv'
    BY <1>2, MoveInvariant, LookupCacheInvariant, LookupTrieInvariant, AddFoundInvariant
    DEF Handler
<1> QED
    BY <1>1, <1>2, RegisterInvariant DEF Next

-----------------------------------------------------------------------------

\* What trie, cache and handlers hold of a path is true of it, between any two
\* critical sections.
THEOREM Invariance == Spec => []IInv
BY InitInvariant, NextInvariant, PTL DEF Spec

\* Every variable keeps its type, the cache included; the handlers are where
\* their commands and answers say.
THEOREM TypeInvariance == Spec => []TypeOK
<1>1. IInv => TypeOK
    <2> SUFFICES ASSUME IInv PROVE TypeOK
        OBVIOUS
    <2>1. num_storage_servers \in 0 .. MaxServers
        <3>1. Active \subseteq 1 .. MaxServers
            BY DEF Active, Slots
        <3>2. IsFiniteSet(1 .. MaxServers) /\ Cardinality(1 .. MaxServers) = MaxServers
            BY MaxServersAssumption, FS_Interval
        <3>3. Cardinality(Active) <= MaxServers /\ Cardinality(Active) \in Nat
            BY <3>1, <3>2, FS_Subset, FS_CardinalityType
        <3> QED
            BY <3>3, MaxServersAssumption DEF IInv, TableInv
    <2>2. TableTypeOK({<<s>> : s \in StorageServers})
        BY <2>1 DEF IInv, TableInv, TableTypeOK
    <2>3. Cache!TypeOK
        BY DEF IInv, LRU!IInv, LRU!TypeOK, Cache!TypeOK, LRU!Buckets, Cache!Buckets
    <2>4. ASSUME NEW t \in Handlers
          PROVE  /\ pc[t] \in {"none", "recv", "cache", "trie", "add", "forward"}
                 /\ cmd[t] \in Commands \cup {<<>>}
                 /\ \A i \in 1 .. Len(answers[t]) : answers[t][i] \in Slots \cup {NotEnd}
                 /\ pc[t] = "forward" <=> cmd[t] # <<>> /\ Len(answers[t]) = Len(cmd[t])
                 /\ hit[t] # NotEnd <=> pc[t] = "add"
        <3>1. /\ pc[t] \in {"none", "recv", "cache", "trie", "add", "forward"}
              /\ cmd[t] \in Commands \cup {<<>>}
              /\ hit[t] # NotEnd <=> pc[t] = "add"
            BY DEF IInv, HandlersInv
        <3>2. answers[t] \in Seq(Slots \cup {NotEnd})
            BY DEF IInv, HandlersInv
        <3>3. \A i \in 1 .. Len(answers[t]) : answers[t][i] \in Slots \cup {NotEnd}
            BY <3>2
        <3>4. pc[t] \in {"cache", "trie", "add"} => ~(Len(answers[t]) = Len(cmd[t]))
            <4> SUFFICES ASSUME pc[t] \in {"cache", "trie", "add"}
                         PROVE  ~(Len(answers[t]) = Len(cmd[t]))
                OBVIOUS
            <4>1. cmd[t] \in Seq(Queries) /\ Len(answers[t]) < Len(cmd[t])
                BY AskedIsQuery DEF IInv
            <4> QED
                BY <3>2, <4>1
        <3>5. pc[t] = "forward" <=> cmd[t] # <<>> /\ Len(answers[t]) = Len(cmd[t])
            BY <3>1, <3>4 DEF IInv, HandlersInv
        <3> QED
            BY <3>1, <3>3, <3>5
    <2> QED
        BY <2>2, <2>3, <2>4 DEF IInv, TableInv, TypeOK
<1> QED
    BY <1>1, Invariance, PTL

\* A path is resolved to an active server that listed an ancestor of a path of
\* its bucket, through trie and cache, for any interleaving of any handlers,
\* registrations and evictions (lines 222-232, 246, 341-359).
THEOREM ResolutionCoversBucket == Spec => []AnswerCoversBucket
BY Invariance, PTL DEF IInv

\* With one handler no entry of the cache hides another, and none is ever evicted
\* (lines 206-207, 222, 341-356).
THEOREM OneHandlerHidesNothing == Spec => []NoHiddenEntry
BY Invariance, PTL DEF IInv

\* With one handler an answer that is cached is final (lines 344-346).
LEMMA StickyStep == IInv /\ [Next]_vars => [OneHandler' => Sticky]_vars
<1> SUFFICES ASSUME IInv, Next, OneHandler', NEW h \in Cache!Buckets, hashmap[h] # NotEnd
             PROVE  /\ hashmap'[h] = hashmap[h]
                    /\ server'[hashmap[h]] = server[hashmap[h]]
    BY DEF Sticky
<1>1. CASE UNCHANGED <<server, hashmap>>
    BY <1>1
<1>2. ASSUME NEW new \in StorageServers, Register(new) PROVE UNCHANGED <<server, hashmap>>
    BY <1>2 DEF Register, cacheVars
<1>3. ASSUME NEW t \in Handlers,
             Connect(t) \/ Receive(t) \/ Forward(t) \/ LookupTrie(t)
      PROVE  UNCHANGED <<server, hashmap>>
    BY <1>3 DEF Connect, Receive, Forward, LookupTrie, cacheVars
<1>4. ASSUME NEW t \in Handlers, LookupCache(t) PROVE UNCHANGED <<server, hashmap>>
    <2>1. Asked(t) \in Queries
        BY <1>4, AskedIsQuery DEF IInv, LookupCache
    <2> QED
        BY <1>4, <2>1, GetEffect DEF IInv, LookupCache
<1>5. ASSUME NEW t \in Handlers, AddFound(t)
      PROVE  /\ hashmap'[h] = hashmap[h]
             /\ server'[hashmap[h]] = server[hashmap[h]]
    <2> DEFINE p == Asked(t)
               s == hit[t]
    <2>1. p \in Queries /\ s \in Slots /\ Cache!AddToCache(p, s)
        <3>1. pc[t] = "add" /\ Cache!AddToCache(p, s)
            BY <1>5 DEF AddFound
        <3>2. s \in Slots \cup {NotEnd} /\ s # NotEnd
            BY <3>1 DEF IInv, HandlersInv
        <3> QED
            BY <3>1, <3>2, AskedIsQuery DEF IInv
    <2>2. hashmap[Hash[p]] = NotEnd /\ size < Capacity
        BY <1>5, AddFoundAlone
    <2> HIDE DEF p, s
    <2>3. PICK n \in Nodes \ allocated :
              /\ \A x \in allocated' \ {n} : server'[x] = server[x]
              /\ hashmap' = [hashmap EXCEPT ![Hash[p]] = n]
              /\ allocated' = allocated \cup {n}
        BY <2>1, <2>2, AddEffect DEF IInv
    <2>4. hashmap[h] \in allocated /\ hashmap[h] # n
        BY <2>3 DEF IInv, LRU!IInv, LRU!NoDangling, Cache!Buckets, LRU!Buckets
    <2>5. h # Hash[p]
        BY <2>2
    <2> QED
        BY <2>3, <2>4, <2>5 DEF IInv, LRU!IInv, LRU!TypeOK
<1> QED
    BY <1>1, <1>2, <1>3, <1>4, <1>5 DEF Next, Handler

\* With one handler a bucket that has an entry keeps it, with its server, for
\* any size of the cache and whatever registers.
THEOREM AnswersAreFinal == Spec => ResolutionIsSticky
BY Invariance, StickyStep, PTL DEF Spec, ResolutionIsSticky
=============================================================================
