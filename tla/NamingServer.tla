----------------------------- MODULE NamingServer -----------------------------
(***************************************************************************)
(* How the naming server finds the storage server of a command: client     *)
(* handlers (src/init_naming_server.c: the handle_* functions that         *)
(* handle_client dispatches to, find_storage_server_for_path,              *)
(* send_command_to_storage_server) over the cache (LRUCache) and the       *)
(* server table with its trie (ServerTable), while storage servers go on   *)
(* registering.                                                            *)
(*                                                                         *)
(* A lookup that misses the cache takes three critical sections: cache_    *)
(* mutex, servers_mutex, cache_mutex.  Each is a step here.  Registration  *)
(* is reduced to its critical section, with whole structs; what happens    *)
(* before it is in module Registration.                                    *)
(*                                                                         *)
(* main starts one handler; the code of the handlers takes locks for       *)
(* several, and what needs a single one says so.                           *)
(*                                                                         *)
(* A definition whose name extends that of the one after it is a faulty    *)
(* variant of it that no action uses.                                      *)
(***************************************************************************)
EXTENDS ServerTable

CONSTANTS
    Handlers,       \* client handler threads
    Queries,        \* the paths clients name in commands
    StorageServers, \* the storage servers that register, each once
    PathsIn,        \* the paths each of them lists
    Nodes, Capacity, Hash   \* of the cache; NULL is NotEnd

ASSUME HandlersAssumption == IsFiniteSet(Handlers)
ASSUME PathsAssumption ==
    /\ Queries \subseteq Seq(Nat) /\ NotEnd \notin Queries
    /\ \A s \in StorageServers : IsFiniteSet(PathsIn[s]) /\ PathsIn[s] \subseteq Seq(Nat)
ASSUME CacheAssumption ==
    /\ Capacity \in Nat \ {0} /\ Hash \in [Queries -> 0 .. Capacity - 1]
    /\ IsFiniteSet(Nodes) /\ Cardinality(Nodes) > Capacity /\ NotEnd \notin Nodes

VARIABLES
    allocated, path, server, prev, next, head, tail, size, hashmap,
    unregistered,   \* storage servers that have not registered yet
    pc,             \* where each handler is
    cmd,            \* the paths of its command: one, or source and destination
    answers,        \* the slots found for them so far, NotEnd for none
    hit             \* the slot the trie gave for the current path

cacheVars == <<allocated, path, server, prev, next, head, tail, size, hashmap>>
handlerVars == <<pc, cmd, answers, hit>>
vars == <<tableVars, cacheVars, unregistered, handlerVars>>

Cache == INSTANCE LRUCache WITH
    Paths <- Queries, Servers <- Slots, NULL <- NotEnd

Init ==
    /\ TableInit
    /\ Cache!Init
    /\ unregistered = StorageServers
    /\ pc = [t \in Handlers |-> "none"]
    /\ cmd = [t \in Handlers |-> <<>>]
    /\ answers = [t \in Handlers |-> <<>>]
    /\ hit = [t \in Handlers |-> NotEnd]

-----------------------------------------------------------------------------
(* The handlers.                                                           *)

\* CREATE, DELETE, CREATE_DIR and DELETE_DIR resolve one path, COPY and
\* COPY_DIR resolve both of theirs, whatever comes out for the first.
Commands == [1 .. 1 -> Queries] \cup [1 .. 2 -> Queries]

\* main creates the handler of a connection.
Connect(t) ==
    /\ pc[t] = "none"
    /\ pc' = [pc EXCEPT ![t] = "recv"]
    /\ UNCHANGED <<tableVars, cacheVars, unregistered, cmd, answers, hit>>

Receive(t) ==
    /\ pc[t] = "recv"
    /\ \E c \in Commands : cmd' = [cmd EXCEPT ![t] = c]
    /\ pc' = [pc EXCEPT ![t] = "cache"]
    /\ UNCHANGED <<tableVars, cacheVars, unregistered, answers, hit>>

Asked(t) == cmd[t][Len(answers[t]) + 1]

AllAnsweredOnce(t) == Len(answers[t]') >= 1
AllAnswered(t) == Len(answers[t]') = Len(cmd[t])

\* find_storage_server_for_path returns slot s for the current path.
Return(t, s) ==
    /\ answers' = [answers EXCEPT ![t] = Append(@, s)]
    /\ pc' = [pc EXCEPT ![t] = IF AllAnswered(t) THEN "forward" ELSE "cache"]
    /\ hit' = [hit EXCEPT ![t] = NotEnd]

IsHitNever(s) == FALSE
IsHit(s) == s # NotEnd

\* "First check LRU cache".
LookupCache(t) ==
    /\ pc[t] = "cache"
    /\ \E s \in Slots \cup {NotEnd} :
          /\ Cache!GetFromCache(Asked(t), s)
          /\ IF IsHit(s) THEN Return(t, s)
             ELSE /\ pc' = [pc EXCEPT ![t] = "trie"]
                  /\ UNCHANGED <<answers, hit>>
    /\ UNCHANGED <<tableVars, unregistered, cmd>>

\* "If not in cache, search in Trie", under servers_mutex.
LookupTrie(t) ==
    /\ pc[t] = "trie"
    /\ LET s == FindInTrie(root, Asked(t))
       IN  IF s = NotEnd THEN Return(t, NotEnd)
           ELSE /\ hit' = [hit EXCEPT ![t] = s]
                /\ pc' = [pc EXCEPT ![t] = "add"]
                /\ UNCHANGED answers
    /\ UNCHANGED <<tableVars, cacheVars, unregistered, cmd>>

\* "Add to cache if found", in a critical section of its own.
AddFound(t) ==
    /\ pc[t] = "add"
    /\ Cache!AddToCache(Asked(t), hit[t])
    /\ Return(t, hit[t])
    /\ UNCHANGED <<tableVars, unregistered, cmd>>

\* The command is sent to the server of the first path if every path has a
\* server; FINAL_ACK follows in any case and the handler receives again.
Forward(t) ==
    /\ pc[t] = "forward"
    /\ pc' = [pc EXCEPT ![t] = "recv"]
    /\ cmd' = [cmd EXCEPT ![t] = <<>>]
    /\ answers' = [answers EXCEPT ![t] = <<>>]
    /\ UNCHANGED <<tableVars, cacheVars, unregistered, hit>>

-----------------------------------------------------------------------------

\* A storage server registers, or is turned away by a full table.
Register(s) ==
    /\ s \in unregistered
    /\ StoreServer(<<s>>, PathsIn[s]) \/ StoreRefused
    /\ unregistered' = unregistered \ {s}
    /\ UNCHANGED <<cacheVars, handlerVars>>

Handler(t) ==
    \/ Connect(t) \/ Receive(t)
    \/ LookupCache(t) \/ LookupTrie(t) \/ AddFound(t) \/ Forward(t)

Next ==
    \/ \E t \in Handlers : Handler(t)
    \/ \E s \in StorageServers : Register(s)

Spec == Init /\ [][Next]_vars

-----------------------------------------------------------------------------
(* Properties.                                                             *)

TypeOK ==
    /\ TableTypeOK({<<s>> : s \in StorageServers})
    /\ Cache!TypeOK
    /\ unregistered \subseteq StorageServers
    /\ \A t \in Handlers :
          /\ pc[t] \in {"none", "recv", "cache", "trie", "add", "forward"}
          /\ cmd[t] \in Commands \cup {<<>>}
          /\ \A i \in 1 .. Len(answers[t]) : answers[t][i] \in Slots \cup {NotEnd}
          /\ pc[t] = "forward" <=> cmd[t] # <<>> /\ Len(answers[t]) = Len(cmd[t])
          /\ hit[t] # NotEnd <=> pc[t] = "add"

Covers(i, p) ==
    /\ is_active[i]
    /\ \E q \in PathsIn[storage_servers[i][1]] : IsStrictPrefix(q, p)

\* A path is only ever resolved to an active server that listed an ancestor of a
\* path of the same bucket, through cache and trie, however registrations,
\* evictions and handlers interleave between the three critical sections of a
\* lookup (lines 222-232, 246, 341-359).
AnswerCoversBucket ==
    \A t \in Handlers : \A i \in 1 .. Len(answers[t]) :
        answers[t][i] # NotEnd =>
            \E p \in Queries : Hash[p] = Hash[cmd[t][i]] /\ Covers(answers[t][i], p)

\* "If not in cache, search in Trie" (line 348): a path is resolved to an active
\* server that listed an ancestor of it.
AnswerCoversPath ==
    \A t \in Handlers : \A i \in 1 .. Len(answers[t]) :
        answers[t][i] # NotEnd => Covers(answers[t][i], cmd[t][i])

\* main has started one handler so far.
OneHandler == Cardinality({t \in Handlers : pc[t] # "none"}) <= 1

\* With one handler every cached entry can be found again: an entry is only
\* added to an empty bucket, so no entry ever hides another and the cache is
\* never full when one is added (lines 206-207, 222, 341-356).
NoHiddenEntry == OneHandler => \A n \in allocated : hashmap[Hash[path[n]]] = n

\* With one handler an answer is never revised: once a bucket has an entry, a
\* server that registers a closer ancestor later is not asked for its paths
\* (lines 344-346 against 509-513).
Sticky ==
    \A h \in Cache!Buckets :
        hashmap[h] # NotEnd => /\ hashmap'[h] = hashmap[h]
                               /\ server'[hashmap[h]] = server[hashmap[h]]
ResolutionIsSticky == [][OneHandler' => Sticky]_vars
=============================================================================
