------------------------------ MODULE ServerTable ------------------------------
(***************************************************************************)
(* The table of storage servers of the naming server and the trie over the *)
(* paths they registered (src/init_naming_server.c: storage_servers, root, *)
(* num_storage_servers, the critical sections of                           *)
(* handle_storage_server_registration and monitor_storage_servers).        *)
(*                                                                         *)
(* Everything here happens under servers_mutex.  num_storage_servers is    *)
(* also written under it only (num_ss_mutex is taken inside it, and not at *)
(* all by the monitor) but read without it by the listener.                *)
(*                                                                         *)
(* A definition whose name extends that of the one after it is a faulty    *)
(* variant of it that no action uses.                                      *)
(***************************************************************************)
EXTENDS Trie, FiniteSets

CONSTANT MaxServers     \* MAX_STORAGE_SERVERS

Slots == 1 .. MaxServers

\* A struct is the sequence of what was received of it; the rest is zero.
NoStruct == <<>>

ASSUME MaxServersAssumption == MaxServers \in Nat \ {0}
ASSUME NotASlotAssumption == NotEnd \notin Slots

VARIABLES
    storage_servers,        \* slot -> struct
    is_active,              \* slot -> BOOLEAN
    expired,                \* slot -> its last_heartbeat is over 30 s ago
    num_storage_servers,
    root                    \* the trie; its servers are slots

tableVars == <<storage_servers, is_active, expired, num_storage_servers, root>>

TableInit ==
    /\ storage_servers = [i \in Slots |-> NoStruct]
    /\ is_active = [i \in Slots |-> FALSE]
    /\ expired = [i \in Slots |-> FALSE]
    /\ num_storage_servers = 0
    /\ root = EmptyTrie

Full == \A i \in Slots : is_active[i]

IsFirstFreeUnchecked(i) == i = 1
IsFirstFree(i) == ~is_active[i] /\ \A j \in 1 .. i - 1 : is_active[j]

\* Registration of a struct that lists these paths: the first free slot is
\* overwritten, and becomes an entry of the trie for every path.  Duplicates are
\* not looked for.
StoreServer(struct, paths) ==
    \E i \in Slots :
        /\ IsFirstFree(i)
        /\ storage_servers' = [storage_servers EXCEPT ![i] = struct]
        /\ is_active' = [is_active EXCEPT ![i] = TRUE]
        /\ expired' = [expired EXCEPT ![i] = FALSE]
        /\ root' = AddPaths(root, paths, i)
        /\ num_storage_servers' = num_storage_servers + 1

\* "Maximum number of storage servers reached".
StoreRefused ==
    /\ Full
    /\ UNCHANGED tableVars

\* 30 seconds pass since slot i was registered: nothing refreshes
\* last_heartbeat after line 507.
Expire(i) ==
    /\ is_active[i]
    /\ ~expired[i]
    /\ expired' = [expired EXCEPT ![i] = TRUE]
    /\ UNCHANGED <<storage_servers, is_active, num_storage_servers, root>>

\* What a sweep subtracts from the counter.
SweptCountOnce(swept) == IF swept = {} THEN 0 ELSE 1
SweptCount(swept) == Cardinality(swept)

\* One pass of monitor_storage_servers.  The trie keeps the paths.
Sweep ==
    LET swept == {i \in Slots : is_active[i] /\ expired[i]}
    IN  /\ swept # {}
        /\ is_active' = [i \in Slots |-> is_active[i] /\ i \notin swept]
        /\ num_storage_servers' = num_storage_servers - SweptCount(swept)
        /\ UNCHANGED <<storage_servers, expired, root>>

-----------------------------------------------------------------------------

TableTypeOK(structs) ==
    /\ storage_servers \in [Slots -> structs \cup {NoStruct}]
    /\ is_active \in [Slots -> BOOLEAN]
    /\ expired \in [Slots -> BOOLEAN]
    /\ num_storage_servers \in 0 .. MaxServers

Active == {i \in Slots : is_active[i]}
=============================================================================
