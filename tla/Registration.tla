----------------------------- MODULE Registration -----------------------------
(***************************************************************************)
(* How connections become entries of the server table: the accept of main, *)
(* the registration listener, and one detached thread per registration     *)
(* (src/init_naming_server.c: main, storage_server_listener,               *)
(* handle_storage_server_registration, monitor_storage_servers).           *)
(*                                                                         *)
(* The first connection main accepts becomes the client; every later one   *)
(* is taken for a registration.  The listener hands its threads a pointer  *)
(* to thread_data, a variable of its own stack that the next accept        *)
(* overwrites, so a thread may read the socket of a later connection and   *)
(* two threads may receive from one socket.                                *)
(*                                                                         *)
(* A StorageServer struct travels in two pieces: the header (addresses,    *)
(* ports, num_paths) and the path texts.  Piece n of a connection is       *)
(* <<connection, n>>, and a recv returns one: a recv that returns more is  *)
(* two of these without a step between them.  A connection that is not a   *)
(* storage server's sends any number of pieces, of texts, and two of them  *)
(* fill a struct.                                                          *)
(*                                                                         *)
(* A definition whose name extends that of the one after it is a faulty    *)
(* variant of it that no action uses.                                      *)
(***************************************************************************)
EXTENDS ServerTable

CONSTANTS
    Conns,          \* connections to the port of the naming server
    Strangers,      \* those that are not a storage server's: a client that comes
                    \* second, or a command of the naming server itself that went
                    \* to its own port, for a storage server on the same host
    Size,           \* how many pieces the peer of each connection sends
    PathsIn,        \* the paths the struct sent on each connection lists
    Resets,         \* TRUE: connections may be reset by the peer
    CreateFails,    \* TRUE: pthread_create may fail in the listener
    MonitorStarted, \* FALSE in main: the call is commented out (992-996)
    NoConn

ASSUME ConnsAssumption == IsFiniteSet(Conns) /\ NoConn \notin Conns
ASSUME StrangersAssumption ==
    Strangers \subseteq Conns /\ \A c \in Strangers : PathsIn[c] = {}
ASSUME PathsInAssumption ==
    \A c \in Conns : IsFiniteSet(PathsIn[c]) /\ PathsIn[c] \subseteq Seq(Nat)
ASSUME SwitchAssumption == {Resets, CreateFails, MonitorStarted} \subseteq BOOLEAN

StructSize == 2

\* A storage server sends its struct.  A client that comes second is answered by
\* nobody, and sends one text more for every command typed after a timeout.
ASSUME SizeAssumption ==
    /\ Size \in [Conns -> Nat]
    /\ \A c \in Conns \ Strangers : Size[c] = StructSize

Header(c) == <<c, 1>>
PathTexts(c) == <<c, 2>>
Whole(c) == <<Header(c), PathTexts(c)>>
Pieces == UNION {{c} \X (1 .. Size[c]) : c \in Conns}
Structs == UNION {[1 .. k -> Pieces] : k \in 0 .. StructSize}

\* Text was received in the place of the header.
IsText(struct) ==
    struct # <<>> /\ (struct[1][1] \in Strangers \/ struct[1] # Header(struct[1][1]))

\* The sets of paths that the first num_paths rows of a (partly) received,
\* zero-initialised struct can stand for.  A header without path texts lists
\* the empty path.  Text makes num_paths arbitrary: it may not reach it, or be
\* negative in the end (nothing listed); reach its low byte only (the empty path,
\* the rows are still zero); or count more rows than there are (Overread).
ListedPaths(struct) ==
    IF struct = <<>> THEN {{}}
    ELSE IF IsText(struct)
         THEN IF Len(struct) < StructSize THEN {{}, {<<>>}} ELSE {{}}
    ELSE LET c == struct[1][1]
         IN  IF PathsIn[c] = {} THEN {{}}
             ELSE IF Len(struct) < StructSize THEN {{<<>>}}
             ELSE {PathsIn[c]}

Fds == 1 .. Cardinality(Conns)

VARIABLES
    peer,           \* connection -> what its peer has done to it
    accepted,       \* connections that left the backlog
    sent, got,      \* pieces sent and pieces received on each connection
    fds,            \* descriptor -> the connection it is open for
    lpc,            \* "main" until main has its client, then the listener's;
                    \* "crashed" when the naming server has ended
    thread_data,    \* the descriptor in the listener's stack variable, or 0
    tpc,            \* the thread created for each connection
    socket,         \* the descriptor the thread copied, or 0
    new_server      \* the pieces the thread has received, in place

peerVars == <<peer, sent>>
connVars == <<peer, accepted, sent, got, fds>>
threadVars == <<tpc, socket, new_server>>
vars == <<tableVars, connVars, lpc, thread_data, threadVars>>

StartAt(where) ==
    /\ TableInit
    /\ peer = [c \in Conns |-> "away"]
    /\ accepted = {}
    /\ sent = [c \in Conns |-> 0]
    /\ got = [c \in Conns |-> 0]
    /\ fds = [k \in Fds |-> NoConn]
    /\ lpc = where
    /\ thread_data = 0
    /\ tpc = [c \in Conns |-> "none"]
    /\ socket = [c \in Conns |-> 0]
    /\ new_server = [c \in Conns |-> <<>>]

Init == StartAt("main")

Backlog == {c \in Conns : peer[c] # "away"} \ accepted

-----------------------------------------------------------------------------
(* The peers: storage servers send their struct once and keep the          *)
(* connection open until they exit; the others send what they have.  A     *)
(* peer may stop at any point.  That                                       *)
(* it closes the connection makes no difference here: recv returns 0 for   *)
(* ever, the receiving loop counts 0 more bytes and goes on, and the       *)
(* thread is where it would be if it waited.                               *)

Connect(c) ==
    /\ peer[c] = "away"
    /\ peer' = [peer EXCEPT ![c] = "open"]
    /\ UNCHANGED <<tableVars, accepted, sent, got, fds, lpc, thread_data, threadVars>>

Send(c) ==
    /\ peer[c] = "open"
    /\ sent[c] < Size[c]
    /\ sent' = [sent EXCEPT ![c] = @ + 1]
    /\ UNCHANGED <<tableVars, peer, accepted, got, fds, lpc, thread_data, threadVars>>

Reset(c) ==
    /\ Resets
    /\ peer[c] = "open"
    /\ peer' = [peer EXCEPT ![c] = "reset"]
    /\ UNCHANGED <<tableVars, accepted, sent, got, fds, lpc, thread_data, threadVars>>

-----------------------------------------------------------------------------
(* main and the listener.                                                  *)

\* accept gives the lowest descriptor that is not in use.
IsLowestFd(k) == fds[k] = NoConn /\ \A j \in 1 .. k - 1 : fds[j] # NoConn

Accept(c, k) ==
    /\ c \in Backlog
    /\ accepted' = accepted \cup {c}
    /\ k \in Fds
    /\ IsLowestFd(k)

\* The first connection gets a client handler; then main starts the listener
\* and waits in pthread_join for ever.
MainAccept(c) ==
    /\ lpc = "main"
    /\ \E k \in Fds : Accept(c, k) /\ fds' = [fds EXCEPT ![k] = c]
    /\ lpc' = "check"
    /\ UNCHANGED <<tableVars, peerVars, got, thread_data, threadVars>>

\* The number of servers is read without a lock, and accept blocks after it:
\* more registrations than free slots can be on their way.
ListenerCheck ==
    /\ lpc = "check"
    /\ num_storage_servers < MaxServers
    /\ lpc' = "accept"
    /\ UNCHANGED <<tableVars, connVars, thread_data, threadVars>>

\* accept, thread_data is overwritten, a thread gets a pointer to it.
ListenerAccept(c) ==
    /\ lpc = "accept"
    /\ \E k \in Fds : /\ Accept(c, k)
                      /\ fds' = [fds EXCEPT ![k] = c]
                      /\ thread_data' = k
    /\ tpc' = [tpc EXCEPT ![c] = "start"]
    /\ lpc' = "check"
    /\ UNCHANGED <<tableVars, peerVars, got, socket, new_server>>

\* pthread_create fails: the socket is closed, its descriptor stays in
\* thread_data and is free for the next accept.
ListenerAcceptNoThread(c) ==
    /\ CreateFails
    /\ lpc = "accept"
    /\ \E k \in Fds : Accept(c, k) /\ thread_data' = k
    /\ lpc' = "check"
    /\ UNCHANGED <<tableVars, peerVars, got, fds, threadVars>>

-----------------------------------------------------------------------------
(* A registration thread, named by the connection it was created for.      *)

\* The thread copies the socket out of the listener's variable, as it is now.
ReadArgs(t) ==
    /\ tpc[t] = "start"
    /\ socket' = [socket EXCEPT ![t] = thread_data]
    /\ tpc' = [tpc EXCEPT ![t] = "recv"]
    /\ UNCHANGED <<tableVars, connVars, lpc, thread_data, new_server>>

CompletePastEnd(struct) == Len(struct) > StructSize
CompleteHeader(struct) == struct # <<>>
Complete(struct) == Len(struct) >= StructSize

SocketReread(t) == fds[thread_data]
Socket(t) == fds[socket[t]]

\* recv appends what the socket has; the struct is complete by its size only.
RecvPiece(t) ==
    /\ tpc[t] = "recv"
    /\ Socket(t) # NoConn
    /\ got[Socket(t)] < sent[Socket(t)]
    /\ got' = [got EXCEPT ![Socket(t)] = @ + 1]
    /\ new_server' = [new_server EXCEPT ![t] =
                         Append(@, <<Socket(t), got[Socket(t)] + 1>>)]
    /\ tpc' = [tpc EXCEPT ![t] = IF Complete(new_server'[t])
                                 THEN "store" ELSE "recv"]
    /\ UNCHANGED <<tableVars, peerVars, accepted, fds, lpc, thread_data, socket>>

\* recv returns -1 on a closed descriptor, or once on a reset connection: the
\* loop is left and what was received is stored like a whole struct.  A reset
\* is reported once; the next recv on that socket returns 0.
RecvError(t) ==
    /\ tpc[t] = "recv"
    /\ \/ Socket(t) = NoConn /\ UNCHANGED peer
       \/ /\ Socket(t) # NoConn
          /\ got[Socket(t)] = sent[Socket(t)]
          /\ peer[Socket(t)] = "reset"
          /\ peer' = [peer EXCEPT ![Socket(t)] = "ended"]
    /\ tpc' = [tpc EXCEPT ![t] = "store"]
    /\ UNCHANGED <<tableVars, accepted, sent, got, fds, lpc, thread_data,
                   socket, new_server>>

Store(t) ==
    /\ tpc[t] = "store"
    /\ \/ \E paths \in ListedPaths(new_server[t]) : StoreServer(new_server[t], paths)
       \/ StoreRefused
    /\ tpc' = [tpc EXCEPT ![t] = "done"]
    /\ socket' = [socket EXCEPT ![t] = 0]
    /\ new_server' = [new_server EXCEPT ![t] = <<>>]
    /\ UNCHANGED <<connVars, lpc, thread_data>>

\* The loop over the first num_paths rows runs past new_server, when num_paths is
\* a text's: the naming server ends.
Overread(t) ==
    /\ tpc[t] = "store"
    /\ ~Full
    /\ IsText(new_server[t])
    /\ lpc' = "crashed"
    /\ UNCHANGED <<tableVars, connVars, thread_data, threadVars>>

-----------------------------------------------------------------------------
(* The monitor, and the time it looks at.                                  *)

TimePasses ==
    /\ \E i \in Slots : Expire(i)
    /\ UNCHANGED <<connVars, lpc, thread_data, threadVars>>

Monitor ==
    /\ MonitorStarted
    /\ lpc # "crashed"
    /\ Sweep
    /\ UNCHANGED <<connVars, lpc, thread_data, threadVars>>

-----------------------------------------------------------------------------

Peer(c) == Connect(c) \/ Send(c) \/ Reset(c)
Listener == \E c \in Conns : MainAccept(c) \/ ListenerAccept(c)
Thread(t) ==
    /\ lpc # "crashed"
    /\ ReadArgs(t) \/ RecvPiece(t) \/ RecvError(t) \/ Store(t) \/ Overread(t)

Next ==
    \/ \E c \in Conns : Peer(c) \/ Thread(c) \/ ListenerAcceptNoThread(c)
    \/ Listener \/ ListenerCheck
    \/ TimePasses \/ Monitor

Spec == Init /\ [][Next]_vars

\* The threads of the naming server are scheduled; peers do as they please and
\* nothing makes time pass.
Fairness ==
    /\ WF_vars(Listener \/ ListenerCheck)
    /\ \A c \in Conns : WF_vars(Thread(c))
    /\ WF_vars(Monitor)

FairSpec == Spec /\ Fairness

-----------------------------------------------------------------------------
(* Properties.                                                             *)

TypeOK ==
    /\ TableTypeOK(Structs)
    /\ \A node \in DOMAIN root : root[node] \in Slots \cup {NotEnd}
    /\ peer \in [Conns -> {"away", "open", "reset", "ended"}]
    /\ accepted \subseteq Conns
    /\ sent \in [Conns -> Nat] /\ got \in [Conns -> Nat]
    /\ \A c \in Conns : got[c] <= sent[c] /\ sent[c] <= Size[c]
    /\ fds \in [Fds -> Conns \cup {NoConn}]
    /\ lpc \in {"main", "check", "accept", "crashed"}
    /\ thread_data \in Fds \cup {0}
    /\ tpc \in [Conns -> {"none", "start", "recv", "store", "done"}]
    /\ socket \in [Conns -> Fds \cup {0}]
    /\ new_server \in [Conns -> Structs]

\* The counter the listener relies on is the number of active entries, although
\* more registrations than free slots may be under way and the monitor and the
\* registrations both change it (lines 504-517, 704, 743-744).
CountMatches == num_storage_servers = Cardinality(Active)

Held(struct) == {struct[n] : n \in DOMAIN struct}

\* A struct of full size in the table came over one connection, in order, and
\* nothing of it is in the table twice: threads that were given the same socket
\* share its bytes but never store a mixture or a copy (lines 470-484, 505).
StoredIntact ==
    \A i \in Active :
        Len(storage_servers[i]) = StructSize =>
            /\ \E c \in Conns :
                  /\ \A n \in 1 .. StructSize : storage_servers[i][n][1] = c
                  /\ c \notin Strangers => storage_servers[i] = Whole(c)
            /\ \A j \in Active \ {i} :
                  Held(storage_servers[i]) \cap Held(storage_servers[j]) = {}

\* The slots that hold what connection c sent.
SlotsOf(c) == {i \in Active : storage_servers[i] # NoStruct /\ storage_servers[i][1][1] = c}

\* What the naming server takes from a connection that is not a storage server's,
\* a client that comes second or one of its own commands: unless connections are
\* reset, an entry of the table is a full struct (or empty, for a thread whose
\* socket was closed before it read from it), so that the other side has sent as
\* many bytes as all its entries take, and the naming server overreads num_paths
\* only after such a connection has sent a struct's worth of text (lines 375,
\* 476-484, 505-513, 719-723, 1002-1035).
TextMustFillStructs ==
    ~Resets =>
        /\ \A i \in Active : storage_servers[i] = NoStruct
                              \/ Len(storage_servers[i]) = StructSize
        /\ \A c \in Strangers : StructSize * Cardinality(SlotsOf(c)) <= sent[c]
        /\ lpc = "crashed" => \E c \in Strangers : sent[c] >= StructSize

\* While no entry is ever given up, the trie says exactly what the table says:
\* a path leads to an active server that listed it, and to the newest of those
\* that did: a storage server that was started again takes a second slot, as
\* duplicates are not looked for, and its old entry is never asked (lines
\* 487-495, 504-513).
TrieAgreesWithTable ==
    ~MonitorStarted =>
        /\ \A node \in DOMAIN root :
              root[node] # NotEnd =>
                  /\ is_active[root[node]]
                  /\ \E paths \in ListedPaths(storage_servers[root[node]]) : node \in paths
        /\ \A i \in Active : \E paths \in ListedPaths(storage_servers[i]) :
              \A p \in paths : p \in DOMAIN root /\ root[p] \in Slots /\ root[p] >= i

Registered(c) == \E i \in Active : storage_servers[i] = Whole(c)

\* Connection c has been accepted, and no thread receives from it or is going to:
\* those created since have copied, or will copy, a later socket.
Missed(c) ==
    /\ \A t \in Conns : tpc[t] \in {"recv", "store"} => Socket(t) # c
    /\ thread_data # 0 => fds[thread_data] # c

\* A thread waits with a part of what was sent on c, and another one has received
\* the other part; after a reset it may have stored it.
Split(c) ==
    LET waiting == {t \in Conns : tpc[t] = "recv" /\ Socket(t) = c /\ new_server[t] # <<>>}
    IN  \E t \in waiting : waiting # {t} \/ SlotsOf(c) # {}

\* A storage server that was given a thread and has sent its whole struct is
\* registered in the end, unless the table is full, a text has ended the naming
\* server, or one of the two things happened that sharing thread_data can do to
\* it: every thread reads another socket, or two threads wait for ever, each for
\* the part that the other one has (lines 469-470, 476-484, 714-719).
EveryServerRegistered ==
    \A c \in Conns \ Strangers :
        tpc[c] # "none" /\ sent[c] = StructSize
        ~> Registered(c) \/ Full \/ lpc = "crashed" \/ Missed(c) \/ Split(c)
=============================================================================
