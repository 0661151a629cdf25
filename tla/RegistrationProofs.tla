-------------------------- MODULE RegistrationProofs --------------------------
(***************************************************************************)
(* The counter of storage servers, the structs in their table and the trie *)
(* over it, for any number of connections and slots, with resets, failing  *)
(* thread creation and a running monitor; and the structs in the table of  *)
(* the earlier version.                                                    *)
(***************************************************************************)
EXTENDS Registration, FiniteSetTheorems, TLAPS

\* The part of the type invariant the counter depends on.
ActiveType == is_active \in [Slots -> BOOLEAN]

\* Registration without the trie and the counter.
FlowTypeOK ==
    /\ storage_servers \in [Slots -> Structs] /\ ActiveType
    /\ expired \in [Slots -> BOOLEAN]
    /\ peer \in [Conns -> {"away", "open", "reset", "ended"}]
    /\ accepted \subseteq Conns
    /\ sent \in [Conns -> Nat]
    /\ got \in [Conns -> Nat]
    /\ fds \in [Fds -> Conns \cup {NoConn}]
    /\ lpc \in {"main", "check", "accept", "crashed"}
    /\ thread_data \in Fds \cup {0}
    /\ tpc \in [Conns -> {"none", "start", "recv", "store", "done"}]
    /\ socket \in [Conns -> Fds \cup {0}]
    /\ new_server \in [Conns -> Structs]

\* A connection is open under one descriptor at most, and a thread that runs
\* has copied a descriptor.
DescriptorsInv ==
    /\ \A k \in Fds : fds[k] # NoConn => fds[k] \in accepted
    /\ \A j, k \in Fds : fds[j] = fds[k] /\ fds[j] # NoConn => j = k
    /\ \A t \in Conns : tpc[t] # "none" => t \in accepted
    /\ \A t \in Conns : tpc[t] = "start" => thread_data \in Fds
    /\ \A t \in Conns : tpc[t] \in {"recv", "store"} => socket[t] \in Fds

\* Nothing is received that was not sent.
StreamsInv ==
    \A c \in Conns : got[c] <= sent[c] /\ sent[c] <= Size[c]

\* What a struct holds came over one connection, in order.
InOrder(struct) ==
    \A i, j \in DOMAIN struct :
        i < j => struct[i][1] = struct[j][1] /\ struct[i][2] < struct[j][2]
Received(struct) == \A i \in DOMAIN struct : struct[i][2] <= got[struct[i][1]]
Disjoint(struct, other) ==
    \A i \in DOMAIN struct, j \in DOMAIN other : struct[i] # other[j]

\* Of a thread, it came over the socket the thread has copied.
ThreadsInv ==
    \A t \in Conns :
        /\ InOrder(new_server[t]) /\ Received(new_server[t])
        /\ \A i \in DOMAIN new_server[t] :
              tpc[t] \in {"recv", "store"} /\ new_server[t][i][1] = Socket(t)
        /\ tpc[t] = "recv" => Len(new_server[t]) < StructSize

SlotsInv ==
    \A i \in Slots : InOrder(storage_servers[i]) /\ Received(storage_servers[i])

\* No piece is held twice, by threads or slots.
OnceInv ==
    /\ \A t, u \in Conns : t # u => Disjoint(new_server[t], new_server[u])
    /\ \A i, j \in Slots : i # j => Disjoint(storage_servers[i], storage_servers[j])
    /\ \A t \in Conns, i \in Slots : Disjoint(new_server[t], storage_servers[i])

\* Without resets a struct is stored whole, or empty.
WholeOrNothing(struct) == struct = <<>> \/ Len(struct) = StructSize
WholeInv ==
    ~Resets =>
        /\ \A c \in Conns : peer[c] \in {"away", "open"}
        /\ \A t \in Conns : tpc[t] = "store" => WholeOrNothing(new_server[t])
        /\ \A i \in Slots : WholeOrNothing(storage_servers[i])

FlowInv ==
    /\ FlowTypeOK /\ DescriptorsInv /\ StreamsInv
    /\ ThreadsInv /\ SlotsInv /\ OnceInv /\ WholeInv

IInv == ActiveType /\ CountMatches

-----------------------------------------------------------------------------

LEMMA ActiveFinite ==
    /\ IsFiniteSet(Active)
    /\ Cardinality(Active) \in 0 .. MaxServers
<1>1. IsFiniteSet(Slots) /\ Cardinality(Slots) = MaxServers
    BY MaxServersAssumption, FS_Interval DEF Slots
<1>2. Active \subseteq Slots
    BY DEF Active
<1>3. /\ IsFiniteSet(Active)
      /\ Cardinality(Active) <= Cardinality(Slots)
    BY <1>1, <1>2, FS_Subset
<1> QED
    BY <1>1, <1>3, FS_CardinalityType, MaxServersAssumption

LEMMA InitInvariant == Init => IInv
<1> SUFFICES ASSUME Init PROVE IInv
    OBVIOUS
<1>1. Active = {}
    BY DEF Init, StartAt, TableInit, Active
<1> QED
    BY <1>1, FS_EmptySet DEF Init, StartAt, TableInit, IInv, ActiveType, CountMatches

\* A registration occupies a slot that was free.
LEMMA StoreServerInvariant ==
    ASSUME IInv, NEW struct, NEW paths, StoreServer(struct, paths)
    PROVE  IInv'
<1> USE DEF IInv, ActiveType
<1>1. PICK i \in Slots :
          /\ ~is_active[i]
          /\ is_active' = [is_active EXCEPT ![i] = TRUE]
          /\ num_storage_servers' = num_storage_servers + 1
    BY DEF StoreServer, IsFirstFree
<1>2. Active' = Active \cup {i} /\ i \notin Active
    BY <1>1 DEF Active
<1>3. Cardinality(Active') = Cardinality(Active) + 1
    BY <1>2, ActiveFinite, FS_AddElement
<1> QED
    BY <1>1, <1>3 DEF CountMatches

\* A sweep of the monitor gives up active slots only.
LEMMA SweepInvariant == ASSUME IInv, Sweep PROVE IInv'
<1> USE DEF IInv, ActiveType
<1> DEFINE swept == {i \in Slots : is_active[i] /\ expired[i]}
<1>1. /\ is_active' = [i \in Slots |-> is_active[i] /\ i \notin swept]
      /\ num_storage_servers' = num_storage_servers - Cardinality(swept)
    BY DEF Sweep, SweptCount
<1>2. Active' = Active \ swept /\ Active \cap swept = swept
    BY <1>1 DEF Active
<1>3. Cardinality(Active') = Cardinality(Active) - Cardinality(swept)
    BY <1>2, ActiveFinite, FS_Difference
<1>4. ActiveType'
    <2>1. \A i \in Slots : (is_active[i] /\ i \notin swept) \in BOOLEAN
        OBVIOUS
    <2> QED
        BY <1>1, <2>1
<1> QED
    BY <1>1, <1>3, <1>4 DEF CountMatches

\* The other steps touch neither the flags nor the counter.
LEMMA OtherInvariant ==
    ASSUME IInv, UNCHANGED <<is_active, num_storage_servers>>
    PROVE  IInv'
BY DEF IInv, ActiveType, CountMatches, Active

LEMMA NextInvariant == IInv /\ [Next]_vars => IInv'
<1> SUFFICES ASSUME IInv, [Next]_vars PROVE IInv'
    OBVIOUS
<1>1. CASE UNCHANGED vars
    BY <1>1, OtherInvariant DEF vars, tableVars
<1>2. ASSUME NEW c \in Conns, Peer(c) PROVE IInv'
    BY <1>2, OtherInvariant DEF Peer, Connect, Send, Reset, tableVars
<1>3. ASSUME NEW c \in Conns,
             MainAccept(c) \/ ListenerAccept(c) \/ ListenerAcceptNoThread(c)
      PROVE  IInv'
    BY <1>3, OtherInvariant
    DEF MainAccept, ListenerAccept, ListenerAcceptNoThread, tableVars
<1>4. CASE ListenerCheck
    BY <1>4, OtherInvariant DEF ListenerCheck, tableVars
<1>5. ASSUME NEW t \in Conns,
             ReadArgs(t) \/ RecvPiece(t) \/ RecvError(t) \/ Overread(t)
      PROVE  IInv'
    BY <1>5, OtherInvariant DEF ReadArgs, RecvPiece, RecvError, Overread, tableVars
<1>6. ASSUME NEW t \in Conns, Store(t) PROVE IInv'
    BY <1>6, StoreServerInvariant, OtherInvariant
    DEF Store, StoreRefused, tableVars
<1>7. CASE TimePasses
    BY <1>7, OtherInvariant DEF TimePasses, Expire
<1>8. CASE Monitor
    BY <1>8, SweepInvariant DEF Monitor
<1> QED
    BY <1>1, <1>2, <1>3, <1>4, <1>5, <1>6, <1>7, <1>8
    DEF Next, Listener, Thread

-----------------------------------------------------------------------------
(* What was received, and where it is.                                     *)

LEMMA FdsAreNumbers == Fds = 1 .. Cardinality(Conns) /\ Cardinality(Conns) \in Nat
BY ConnsAssumption, FS_CardinalityType DEF Fds

LEMMA StructsAreSequences ==
    \A struct : struct \in Structs <=> struct \in Seq(Pieces) /\ Len(struct) <= StructSize
<1>1. ASSUME NEW struct \in Structs
      PROVE  struct \in Seq(Pieces) /\ Len(struct) <= StructSize
    <2>1. PICK k \in 0 .. StructSize : struct \in [1 .. k -> Pieces]
        BY DEF Structs
    <2>2. k \in Nat /\ k <= StructSize
        BY DEF StructSize
    <2> QED
        BY <2>1, <2>2
<1>2. ASSUME NEW struct \in Seq(Pieces), Len(struct) <= StructSize
      PROVE  struct \in Structs
    <2>1. struct \in [1 .. Len(struct) -> Pieces] /\ Len(struct) \in Nat
        OBVIOUS
    <2>2. Len(struct) \in 0 .. StructSize
        BY <1>2, <2>1 DEF StructSize
    <2> QED
        BY <2>1, <2>2 DEF Structs
<1> QED
    BY <1>1, <1>2

LEMMA EmptyStruct == <<>> \in Structs /\ Len(<<>>) = 0 /\ DOMAIN <<>> = {}
<1>1. <<>> \in Seq(Pieces) /\ Len(<<>>) = 0 /\ DOMAIN <<>> = {}
    OBVIOUS
<1>2. Len(<<>>) <= StructSize
    BY <1>1 DEF StructSize
<1> QED
    BY <1>1, <1>2, StructsAreSequences

\* A piece names its connection.
LEMMA StructElements ==
    ASSUME NEW struct \in Structs
    PROVE  /\ struct \in Seq(Pieces) /\ Len(struct) \in 0 .. 2
           /\ DOMAIN struct = 1 .. Len(struct)
           /\ \A i \in DOMAIN struct :
                 /\ struct[i] = <<struct[i][1], struct[i][2]>> /\ struct[i][1] \in Conns
                 /\ struct[i][2] \in Nat \ {0} /\ struct[i][2] <= Size[struct[i][1]]
<1>1. struct \in Seq(Pieces) /\ Len(struct) \in 0 .. 2
    <2>1. struct \in Seq(Pieces) /\ Len(struct) <= 2
        BY StructsAreSequences DEF StructSize
    <2> DEFINE n == Len(struct)
    <2>2. n \in Nat /\ n <= 2
        BY <2>1
    <2> HIDE DEF n
    <2>3. n \in 0 .. 2
        BY <2>2
    <2> QED
        BY <2>1, <2>3 DEF n
<1>2. ASSUME NEW i \in DOMAIN struct
      PROVE  /\ struct[i] = <<struct[i][1], struct[i][2]>> /\ struct[i][1] \in Conns
             /\ struct[i][2] \in Nat \ {0} /\ struct[i][2] <= Size[struct[i][1]]
    <2>1. PICK c \in Conns : struct[i] \in {c} \X (1 .. Size[c])
        <3>1. struct[i] \in Pieces
            BY <1>1
        <3> QED
            BY <3>1 DEF Pieces
    <2>2. Size[c] \in Nat
        BY SizeAssumption
    <2> QED
        BY <2>1, <2>2
<1> QED
    BY <1>1, <1>2

\* A struct of full size came over one connection; if that is a storage server's,
\* it is the header and the path texts.
LEMMA FullStruct ==
    ASSUME NEW struct \in Structs, Len(struct) = StructSize, InOrder(struct)
    PROVE  /\ DOMAIN struct = 1 .. StructSize /\ {1, 2} \subseteq DOMAIN struct
           /\ struct[1][1] \in Conns
           /\ \A n \in 1 .. StructSize : struct[n][1] = struct[1][1]
           /\ struct[2][2] \in Nat /\ struct[2][2] > 1
           /\ struct[1][1] \notin Strangers => struct = Whole(struct[1][1])
<1> DEFINE c == struct[1][1]
<1>1. Len(struct) = 2 /\ DOMAIN struct = 1 .. 2 /\ struct \in Seq(Pieces)
    BY StructElements DEF StructSize
<1>2. /\ struct[1] = <<c, struct[1][2]>> /\ struct[2] = <<struct[2][1], struct[2][2]>>
      /\ c \in Conns /\ struct[1][2] \in Nat \ {0} /\ struct[2][2] \in Nat \ {0}
      /\ struct[2][2] <= Size[struct[2][1]]
    BY <1>1, StructElements
<1>3. struct[2][1] = c /\ struct[1][2] < struct[2][2]
    BY <1>1 DEF InOrder
<1>4. ASSUME c \notin Strangers PROVE struct = Whole(c)
    <2>1. Size[c] = 2
        BY <1>2, <1>4, SizeAssumption DEF StructSize
    <2>2. struct[1] = <<c, 1>> /\ struct[2] = <<c, 2>>
        BY <1>2, <1>3, <2>1
    <2>3. struct = <<struct[1], struct[2]>>
        BY <1>1
    <2> QED
        BY <2>2, <2>3 DEF Whole, Header, PathTexts
<1>5. \A n \in 1 .. 2 : struct[n][1] = c
    <2>1. \A n \in 1 .. 2 : n = 1 \/ n = 2
        OBVIOUS
    <2> QED
        BY <1>3, <2>1
<1>6. struct[2][2] > 1
    BY <1>2, <1>3
<1> QED
    BY <1>1, <1>2, <1>4, <1>5, <1>6 DEF StructSize

LEMMA FlowInit ==
    ASSUME NEW where \in {"main", "check"}, StartAt(where)
    PROVE  FlowInv
<1> USE DEF StartAt, TableInit
<1>1. <<>> \in Structs /\ Len(<<>>) = 0 /\ DOMAIN <<>> = {}
    BY EmptyStruct
<1>2. FlowTypeOK
    BY <1>1 DEF FlowTypeOK, ActiveType, NoStruct, StructSize
<1>3. DescriptorsInv
    BY DEF DescriptorsInv
<1>4. StreamsInv
    BY SizeAssumption DEF StreamsInv
<1>5. ThreadsInv /\ SlotsInv
    BY <1>1 DEF ThreadsInv, SlotsInv, InOrder, Received, NoStruct
<1>6. OnceInv
    BY <1>1 DEF OnceInv, Disjoint, NoStruct
<1>7. WholeInv
    BY <1>1 DEF WholeInv, WholeOrNothing, NoStruct
<1> QED
    BY <1>2, <1>3, <1>4, <1>5, <1>6, <1>7 DEF FlowInv

\* Steps that receive and store nothing.
LEMMA HeldUnchanged ==
    ASSUME FlowInv, UNCHANGED <<storage_servers, got, new_server>>,
           \A t \in Conns : tpc[t] \in {"recv", "store"} =>
               /\ tpc'[t] \in {"recv", "store"} /\ (tpc'[t] = "recv" => tpc[t] = "recv")
               /\ Socket(t) # NoConn => Socket(t)' = Socket(t),
           \A t \in Conns : tpc'[t] = "recv" => tpc[t] \in {"start", "recv"}
    PROVE  ThreadsInv' /\ SlotsInv' /\ OnceInv'
<1>1. SlotsInv' /\ OnceInv'
    BY DEF FlowInv, SlotsInv, OnceInv, InOrder, Received, Disjoint
<1>2. ThreadsInv'
    <2> SUFFICES ASSUME NEW t \in Conns
                 PROVE  /\ InOrder(new_server'[t]) /\ Received(new_server[t])'
                        /\ \A i \in DOMAIN new_server'[t] :
                              /\ tpc'[t] \in {"recv", "store"}
                              /\ new_server'[t][i][1] = Socket(t)'
                        /\ tpc'[t] = "recv" => Len(new_server'[t]) < StructSize
        BY DEF ThreadsInv, InOrder, Received
    <2>1. new_server[t] \in Structs /\ NoConn \notin Conns
        BY ConnsAssumption DEF FlowInv, FlowTypeOK
    <2>2. InOrder(new_server'[t]) /\ Received(new_server[t])'
        BY DEF FlowInv, ThreadsInv, InOrder, Received
    <2>3. ASSUME NEW i \in DOMAIN new_server'[t]
          PROVE  /\ tpc'[t] \in {"recv", "store"}
                 /\ new_server'[t][i][1] = Socket(t)'
        <3>1. tpc[t] \in {"recv", "store"} /\ new_server[t][i][1] = Socket(t)
            BY DEF FlowInv, ThreadsInv
        <3>2. new_server[t][i][1] \in Conns
            BY <2>1, StructElements
        <3> QED
            BY <2>1, <3>1, <3>2
    <2>4. ASSUME tpc'[t] = "recv" PROVE Len(new_server'[t]) < StructSize
        <3>1. CASE tpc[t] = "recv"
            BY <3>1 DEF FlowInv, ThreadsInv
        <3>2. CASE tpc[t] = "start"
            <4>1. DOMAIN new_server[t] = {}
                BY <3>2 DEF FlowInv, ThreadsInv
            <4>2. Len(new_server[t]) = 0
                BY <2>1, <4>1, StructElements
            <4> QED
                BY <4>2 DEF StructSize
        <3> QED
            BY <2>4, <3>1, <3>2
    <2> QED
        BY <2>2, <2>3, <2>4
<1> QED
    BY <1>1, <1>2

LEMMA PeerFlow == ASSUME FlowInv, NEW c \in Conns, Peer(c) PROVE FlowInv'
<1>1. UNCHANGED <<tableVars, accepted, got, fds, lpc, thread_data, threadVars>>
    BY DEF Peer, Connect, Send, Reset
<1>2. FlowTypeOK'
    <2>1. peer' \in [Conns -> {"away", "open", "reset", "ended"}]
        BY DEF FlowInv, FlowTypeOK, Peer, Connect, Send, Reset, peerVars
    <2>2. sent' \in [Conns -> Nat]
        BY DEF FlowInv, FlowTypeOK, Peer, Connect, Send, Reset
    <2> QED
        BY <1>1, <2>1, <2>2 DEF FlowInv, FlowTypeOK, ActiveType, tableVars, threadVars
<1>3. DescriptorsInv'
    BY <1>1 DEF FlowInv, DescriptorsInv, threadVars
<1>4. StreamsInv'
    <2>1. CASE UNCHANGED sent
        BY <1>1, <2>1 DEF FlowInv, StreamsInv
    <2>2. CASE Send(c)
        <3> SUFFICES ASSUME NEW d \in Conns PROVE got[d] <= sent'[d] /\ sent'[d] <= Size[d]
            BY <1>1 DEF StreamsInv
        <3>1. /\ got[d] \in Nat /\ sent[d] \in Nat /\ Size[d] \in Nat
              /\ got[d] <= sent[d] /\ sent[d] <= Size[d]
            BY SizeAssumption DEF FlowInv, FlowTypeOK, StreamsInv
        <3>2. \/ sent'[d] = sent[d]
              \/ sent'[d] = sent[d] + 1 /\ sent[d] < Size[d]
            BY <2>2 DEF Send, FlowInv, FlowTypeOK
        <3> QED
            BY <3>1, <3>2
    <2> QED
        BY <2>1, <2>2 DEF Peer, Connect, Reset
<1>5. ThreadsInv' /\ SlotsInv' /\ OnceInv'
    BY <1>1, HeldUnchanged DEF Socket, tableVars, threadVars
<1>6. WholeInv'
    <2>1. ~Resets => \A d \in Conns : peer'[d] \in {"away", "open"}
        BY DEF FlowInv, FlowTypeOK, WholeInv, Peer, Connect, Send, Reset
    <2> QED
        BY <1>1, <2>1 DEF FlowInv, WholeInv, tableVars, threadVars
<1> QED
    BY <1>2, <1>3, <1>4, <1>5, <1>6 DEF FlowInv

LEMMA AcceptFlow ==
    ASSUME FlowInv, NEW c \in Conns,
           MainAccept(c) \/ ListenerAccept(c) \/ ListenerAcceptNoThread(c)
    PROVE  FlowInv'
<1>1. PICK k \in Fds : /\ Accept(c, k)
                       /\ fds' = [fds EXCEPT ![k] = c] \/ UNCHANGED fds
                       /\ thread_data' = k \/ UNCHANGED <<thread_data, tpc>>
    BY DEF MainAccept, ListenerAccept, ListenerAcceptNoThread, threadVars
<1>2. c \notin accepted /\ accepted' = accepted \cup {c} /\ fds[k] = NoConn
    BY <1>1 DEF Accept, Backlog, IsLowestFd
<1>3. /\ UNCHANGED <<tableVars, peerVars, got, socket, new_server>> /\ lpc' = "check"
      /\ UNCHANGED tpc \/ tpc' = [tpc EXCEPT ![c] = "start"]
    BY DEF MainAccept, ListenerAccept, ListenerAcceptNoThread, threadVars
<1>4. FlowTypeOK'
    <2>1. /\ fds' \in [Fds -> Conns \cup {NoConn}] /\ thread_data' \in Fds \cup {0}
          /\ accepted' \subseteq Conns
        BY <1>1, <1>2 DEF FlowInv, FlowTypeOK
    <2>2. tpc' \in [Conns -> {"none", "start", "recv", "store", "done"}]
        BY <1>3 DEF FlowInv, FlowTypeOK
    <2> QED
        BY <1>3, <2>1, <2>2
        DEF FlowInv, FlowTypeOK, ActiveType, tableVars, peerVars
<1>5. tpc[c] = "none"
    BY <1>2 DEF FlowInv, FlowTypeOK, DescriptorsInv
<1>6. ASSUME NEW j \in Fds, fds[j] # NoConn PROVE fds'[j] = fds[j] /\ fds[j] # c
    BY <1>1, <1>2, <1>6 DEF FlowInv, FlowTypeOK, DescriptorsInv
<1>7. DescriptorsInv'
    <2> USE DEF FlowInv, FlowTypeOK, DescriptorsInv
    <2>1. \A j \in Fds : fds'[j] # NoConn => fds'[j] \in accepted'
        BY <1>1, <1>2
    <2>2. \A i, j \in Fds : fds'[i] = fds'[j] /\ fds'[i] # NoConn => i = j
        BY <1>1, <1>2, <1>6
    <2>3. \A t \in Conns : tpc'[t] = "start" => thread_data' \in Fds
        BY <1>1, <1>3
    <2>4. \A t \in Conns : tpc'[t] \in {"recv", "store"} => socket'[t] \in Fds
        BY <1>3
    <2>5. \A t \in Conns : tpc'[t] # "none" => t \in accepted'
        BY <1>2, <1>3
    <2> QED
        BY <2>1, <2>2, <2>3, <2>4, <2>5
<1>8. StreamsInv'
    BY <1>3 DEF FlowInv, StreamsInv, peerVars
<1>9. ThreadsInv' /\ SlotsInv' /\ OnceInv'
    <2>1. ASSUME NEW t \in Conns, tpc[t] \in {"recv", "store"}
          PROVE  tpc'[t] = tpc[t] /\ (Socket(t) # NoConn => Socket(t)' = Socket(t))
        <3>1. socket[t] \in Fds /\ t # c
            BY <1>5, <2>1 DEF FlowInv, DescriptorsInv
        <3> QED
            BY <1>3, <1>6, <3>1 DEF Socket, FlowInv, FlowTypeOK
    <2>2. \A t \in Conns : tpc'[t] = "recv" => tpc[t] = "recv"
        BY <1>3 DEF FlowInv, FlowTypeOK
    <2> QED
        BY <1>3, <2>1, <2>2, HeldUnchanged DEF tableVars
<1>10. WholeInv'
    <2>1. \A t \in Conns : tpc'[t] = "store" => tpc[t] = "store"
        BY <1>3 DEF FlowInv, FlowTypeOK
    <2> QED
        BY <1>3, <2>1 DEF FlowInv, WholeInv, tableVars, peerVars
<1> QED
    BY <1>4, <1>7, <1>8, <1>9, <1>10 DEF FlowInv

\* Steps that leave the connections, the threads and the structs alone.
LEMMA TableFlow ==
    ASSUME FlowInv, UNCHANGED <<storage_servers, connVars, thread_data, threadVars>>,
           is_active' \in [Slots -> BOOLEAN], expired' \in [Slots -> BOOLEAN],
           lpc' \in {"main", "check", "accept", "crashed"}
    PROVE  FlowInv'
<1> USE DEF FlowInv, connVars, threadVars
<1>1. FlowTypeOK'
    BY DEF FlowTypeOK, ActiveType
<1>2. DescriptorsInv' /\ StreamsInv'
    BY DEF DescriptorsInv, StreamsInv
<1>3. ThreadsInv' /\ SlotsInv' /\ OnceInv'
    BY HeldUnchanged DEF Socket
<1>4. WholeInv'
    BY DEF WholeInv
<1> QED
    BY <1>1, <1>2, <1>3, <1>4

LEMMA ReadArgsFlow == ASSUME FlowInv, NEW t \in Conns, ReadArgs(t) PROVE FlowInv'
<1>1. /\ tpc[t] = "start" /\ tpc' = [tpc EXCEPT ![t] = "recv"]
      /\ socket' = [socket EXCEPT ![t] = thread_data]
      /\ UNCHANGED <<tableVars, connVars, lpc, thread_data, new_server>>
    BY DEF ReadArgs
<1>2. FlowTypeOK'
    BY <1>1 DEF FlowInv, FlowTypeOK, ActiveType, tableVars, connVars
<1>3. DescriptorsInv'
    BY <1>1 DEF FlowInv, FlowTypeOK, DescriptorsInv, connVars
<1>4. StreamsInv'
    BY <1>1 DEF FlowInv, StreamsInv, connVars
<1>5. ThreadsInv' /\ SlotsInv' /\ OnceInv'
    <2>1. ASSUME NEW u \in Conns, tpc[u] \in {"recv", "store"}
          PROVE  tpc'[u] = tpc[u] /\ Socket(u)' = Socket(u)
        BY <1>1, <2>1 DEF FlowInv, FlowTypeOK, Socket, connVars
    <2>2. \A u \in Conns : tpc'[u] = "recv" => tpc[u] \in {"start", "recv"}
        BY <1>1 DEF FlowInv, FlowTypeOK
    <2> QED
        BY <1>1, <2>1, <2>2, HeldUnchanged DEF tableVars, connVars
<1>6. WholeInv'
    <2>1. \A u \in Conns : tpc'[u] = "store" => tpc[u] = "store"
        BY <1>1 DEF FlowInv, FlowTypeOK
    <2> QED
        BY <1>1, <2>1 DEF FlowInv, WholeInv, tableVars, connVars
<1> QED
    BY <1>2, <1>3, <1>4, <1>5, <1>6 DEF FlowInv

LEMMA RecvErrorFlow == ASSUME FlowInv, NEW t \in Conns, RecvError(t) PROVE FlowInv'
<1>1. /\ tpc[t] = "recv" /\ tpc' = [tpc EXCEPT ![t] = "store"]
      /\ UNCHANGED <<tableVars, accepted, sent, got, fds, lpc, thread_data,
                     socket, new_server>>
    BY DEF RecvError
<1>2. \/ Socket(t) = NoConn /\ UNCHANGED peer
      \/ /\ Socket(t) \in Conns
         /\ peer[Socket(t)] = "reset" /\ peer' = [peer EXCEPT ![Socket(t)] = "ended"]
    <2>1. Socket(t) \in Conns \cup {NoConn}
        BY <1>1 DEF Socket, FlowInv, FlowTypeOK, DescriptorsInv
    <2> QED
        BY <2>1 DEF RecvError
<1>3. FlowTypeOK'
    <2>1. peer' \in [Conns -> {"away", "open", "reset", "ended"}]
        BY <1>2 DEF FlowInv, FlowTypeOK
    <2> QED
        BY <1>1, <2>1 DEF FlowInv, FlowTypeOK, ActiveType, tableVars
<1>4. DescriptorsInv'
    BY <1>1 DEF FlowInv, FlowTypeOK, DescriptorsInv
<1>5. StreamsInv'
    BY <1>1 DEF FlowInv, StreamsInv
<1>6. ThreadsInv' /\ SlotsInv' /\ OnceInv'
    <2>1. ASSUME NEW u \in Conns, tpc[u] \in {"recv", "store"}
          PROVE  /\ tpc'[u] \in {"recv", "store"} /\ (tpc'[u] = "recv" => tpc[u] = "recv")
                 /\ Socket(u)' = Socket(u)
        BY <1>1, <2>1 DEF FlowInv, FlowTypeOK, Socket
    <2>2. \A u \in Conns : tpc'[u] = "recv" => tpc[u] = "recv"
        BY <1>1 DEF FlowInv, FlowTypeOK
    <2> QED
        BY <1>1, <2>1, <2>2, HeldUnchanged DEF tableVars
<1>7. WholeInv'
    <2> SUFFICES ASSUME ~Resets PROVE WholeInv'
        BY DEF WholeInv
    <2>1. Socket(t) = NoConn /\ UNCHANGED peer
        BY <1>2 DEF FlowInv, WholeInv
    <2>2. new_server[t] = <<>>
        <3>1. new_server[t] \in Structs
            BY DEF FlowInv, FlowTypeOK
        <3>2. ASSUME NEW i \in DOMAIN new_server[t] PROVE FALSE
            <4>1. new_server[t][i][1] = NoConn
                BY <2>1 DEF FlowInv, ThreadsInv
            <4> QED
                BY <3>1, <4>1, StructElements, ConnsAssumption
        <3> QED
            BY <3>1, <3>2, StructElements
    <2> QED
        BY <1>1, <2>1, <2>2 DEF FlowInv, FlowTypeOK, WholeInv, WholeOrNothing, tableVars
<1> QED
    BY <1>3, <1>4, <1>5, <1>6, <1>7 DEF FlowInv

LEMMA StructAppend ==
    ASSUME NEW struct \in Structs, Len(struct) < StructSize, NEW piece \in Pieces
    PROVE  /\ Append(struct, piece) \in Structs
           /\ DOMAIN Append(struct, piece) = DOMAIN struct \cup {Len(struct) + 1}
           /\ \A i \in DOMAIN struct : /\ Append(struct, piece)[i] = struct[i]
                                       /\ i < Len(struct) + 1
           /\ Append(struct, piece)[Len(struct) + 1] = piece
           /\ Len(Append(struct, piece)) = Len(struct) + 1
<1> DEFINE longer == Append(struct, piece)
<1>1. struct \in Seq(Pieces) /\ Len(struct) \in 0 .. 2 /\ DOMAIN struct = 1 .. Len(struct)
    BY StructElements
<1>2. /\ longer \in Seq(Pieces) /\ Len(longer) = Len(struct) + 1
      /\ \A i \in 1 .. Len(struct) : longer[i] = struct[i]
      /\ longer[Len(struct) + 1] = piece
      /\ DOMAIN longer = 1 .. Len(longer)
    BY <1>1
<1> HIDE DEF longer
<1>3. DOMAIN longer = DOMAIN struct \cup {Len(struct) + 1}
    BY <1>1, <1>2
<1>4. longer \in Structs
    <2>1. Len(longer) <= StructSize
        BY <1>1, <1>2 DEF StructSize
    <2> QED
        BY <1>2, <2>1, StructsAreSequences
<1>5. \A i \in DOMAIN struct : longer[i] = struct[i] /\ i < Len(struct) + 1
    BY <1>1, <1>2
<1> QED
    BY <1>2, <1>3, <1>4, <1>5 DEF longer

\* A piece that was not received before is in no struct yet.
LEMMA RecvPieceFlow == ASSUME FlowInv, NEW t \in Conns, RecvPiece(t) PROVE FlowInv'
<1> DEFINE s == Socket(t)
           piece == <<s, got[s] + 1>>
           old == new_server[t]
           new == Append(old, piece)
           InGot(struct) == \A i \in DOMAIN struct : struct[i][2] <= got'[struct[i][1]]
<1>1. tpc[t] = "recv" /\ s # NoConn /\ got[s] < sent[s]
    BY DEF RecvPiece
<1>2. /\ got' = [got EXCEPT ![s] = @ + 1]
      /\ new_server' = [new_server EXCEPT ![t] = new]
    BY DEF RecvPiece
<1>3. /\ tpc' = [tpc EXCEPT ![t] = IF Complete(new_server'[t]) THEN "store" ELSE "recv"]
      /\ UNCHANGED <<tableVars, peerVars, accepted, fds, lpc, thread_data, socket>>
    BY DEF RecvPiece
<1>4. s \in Conns
    BY <1>1 DEF Socket, FlowInv, FlowTypeOK, DescriptorsInv
<1>5. got[s] \in Nat /\ sent[s] \in Nat /\ piece \in Pieces
    <2>1. got[s] \in Nat /\ sent[s] \in Nat /\ Size[s] \in Nat /\ sent[s] <= Size[s]
        BY <1>4, SizeAssumption DEF FlowInv, FlowTypeOK, StreamsInv
    <2>2. got[s] + 1 \in 1 .. Size[s]
        BY <1>1, <2>1
    <2>3. piece \in {s} \X (1 .. Size[s])
        BY <2>2
    <2> QED
        BY <1>4, <2>1, <2>3 DEF Pieces
<1>6. old \in Structs /\ Len(old) < StructSize /\ Len(old) \in 0 .. 2
    <2>1. old \in Structs /\ Len(old) < StructSize
        BY <1>1 DEF FlowInv, FlowTypeOK, ThreadsInv
    <2> QED
        BY <2>1, StructElements
<1>7. /\ new \in Structs /\ DOMAIN new = DOMAIN old \cup {Len(old) + 1}
      /\ \A i \in DOMAIN old : new[i] = old[i] /\ i < Len(old) + 1
      /\ new[Len(old) + 1] = piece /\ Len(new) = Len(old) + 1
    BY <1>5, <1>6, StructAppend
<1>8. new_server'[t] = new /\ \A u \in Conns \ {t} : new_server'[u] = new_server[u]
    BY <1>2 DEF FlowInv, FlowTypeOK
<1>9. /\ got'[s] = got[s] + 1 /\ got' \in [Conns -> Nat]
      /\ \A c \in Conns : got[c] <= got'[c]
    <2>1. got \in [Conns -> Nat] /\ got[s] + 1 \in Nat
        BY <1>5 DEF FlowInv, FlowTypeOK
    <2> QED
        BY <1>2, <1>4, <2>1
<1>10. piece[1] = s /\ piece[2] = got[s] + 1
    OBVIOUS
<1> HIDE DEF piece, new
<1>11. \A i \in DOMAIN old : old[i][1] = s /\ old[i][2] <= got[s] /\ old[i][2] \in Nat
    BY <1>6, StructElements DEF FlowInv, ThreadsInv, Received
<1>12. ASSUME NEW struct \in Structs, Received(struct)
       PROVE  InGot(struct) /\ \A i \in DOMAIN struct : struct[i] # piece
    <2>1. ASSUME NEW i \in DOMAIN struct
          PROVE  struct[i][2] <= got'[struct[i][1]] /\ struct[i] # piece
        <3>1. /\ struct[i][1] \in Conns /\ struct[i][2] \in Nat
              /\ struct[i][2] <= got[struct[i][1]]
            BY <1>12, StructElements DEF Received
        <3>2. struct[i][2] <= got'[struct[i][1]]
            <4>1. got[struct[i][1]] \in Nat /\ got'[struct[i][1]] \in Nat
                BY <1>9, <3>1 DEF FlowInv, FlowTypeOK
            <4> QED
                BY <1>9, <3>1, <4>1
        <3>3. struct[i] # piece
            BY <1>5, <1>10, <3>1
        <3> QED
            BY <3>2, <3>3
    <2> QED
        BY <2>1
<1>13. FlowTypeOK'
    <2>1. new_server' \in [Conns -> Structs] /\ got' \in [Conns -> Nat]
        BY <1>2, <1>7, <1>9 DEF FlowInv, FlowTypeOK
    <2> QED
        BY <1>3, <2>1 DEF FlowInv, FlowTypeOK, ActiveType, tableVars, peerVars
<1>14. DescriptorsInv'
    BY <1>1, <1>3 DEF FlowInv, FlowTypeOK, DescriptorsInv
<1>15. StreamsInv'
    <2> SUFFICES ASSUME NEW c \in Conns PROVE got'[c] <= sent[c] /\ sent[c] <= Size[c]
        BY <1>3 DEF StreamsInv, peerVars
    <2>1. got[c] <= sent[c] /\ sent[c] <= Size[c]
        BY DEF FlowInv, StreamsInv
    <2>2. CASE c = s
        BY <1>1, <1>5, <1>9, <2>1, <2>2
    <2>3. CASE c # s
        BY <1>2, <2>1, <2>3 DEF FlowInv, FlowTypeOK
    <2> QED
        BY <2>2, <2>3
<1>16. InOrder(new) /\ InGot(new)
    <2>1. InOrder(old) /\ InGot(old)
        BY <1>6, <1>12 DEF FlowInv, ThreadsInv
    <2>2. ASSUME NEW i \in DOMAIN new, NEW j \in DOMAIN new, i < j
          PROVE  new[i][1] = new[j][1] /\ new[i][2] < new[j][2]
        <3>1. DOMAIN old = 1 .. Len(old)
            BY <1>6, StructElements
        <3>2. i \in DOMAIN old
            BY <1>6, <1>7, <2>2, <3>1
        <3>3. CASE j \in DOMAIN old
            BY <1>7, <2>1, <2>2, <3>2, <3>3 DEF InOrder
        <3>4. CASE j = Len(old) + 1
            <4>1. new[i][1] = s /\ new[i][2] <= got[s] /\ new[i][2] \in Nat
                BY <1>7, <1>11, <3>2
            <4>2. new[j][1] = s /\ new[j][2] = got[s] + 1
                BY <1>7, <1>10, <3>4
            <4> QED
                BY <1>5, <4>1, <4>2
        <3> QED
            BY <1>7, <3>3, <3>4
    <2>3. ASSUME NEW i \in DOMAIN new PROVE new[i][2] <= got'[new[i][1]]
        <3>1. CASE i \in DOMAIN old
            BY <1>7, <2>1, <3>1
        <3>2. CASE i = Len(old) + 1
            BY <1>5, <1>7, <1>9, <1>10, <3>2
        <3> QED
            BY <1>7, <3>1, <3>2
    <2> QED
        BY <2>2, <2>3 DEF InOrder
<1>17. ThreadsInv'
    <2> SUFFICES ASSUME NEW u \in Conns
                 PROVE  /\ InOrder(new_server'[u]) /\ Received(new_server[u])'
                        /\ \A i \in DOMAIN new_server'[u] :
                              /\ tpc'[u] \in {"recv", "store"}
                              /\ new_server'[u][i][1] = Socket(u)'
                        /\ tpc'[u] = "recv" => Len(new_server'[u]) < StructSize
        BY DEF ThreadsInv, InOrder, Received
    <2>1. Socket(u)' = Socket(u)
        BY <1>3 DEF Socket
    <2>2. CASE u = t
        <3>1. tpc'[t] = IF Complete(new) THEN "store" ELSE "recv"
            BY <1>3, <1>8 DEF FlowInv, FlowTypeOK
        <3>2. \A i \in DOMAIN new : new[i][1] = s
            BY <1>7, <1>10, <1>11
        <3>3. InOrder(new_server'[t]) /\ Received(new_server[t])'
            BY <1>8, <1>16 DEF Received
        <3>4. ~Complete(new) => Len(new) < StructSize
            BY <1>6, <1>7 DEF Complete, StructSize
        <3> QED
            BY <1>8, <2>1, <2>2, <3>1, <3>2, <3>3, <3>4
    <2>3. CASE u # t
        <3>1. new_server'[u] = new_server[u] /\ tpc'[u] = tpc[u]
            BY <1>3, <1>8, <2>3 DEF FlowInv, FlowTypeOK
        <3>2. Received(new_server[u]) /\ new_server[u] \in Structs
            BY DEF FlowInv, FlowTypeOK, ThreadsInv
        <3>3. Received(new_server[u])'
            <4>1. InGot(new_server[u])
                BY <1>12, <3>2
            <4> QED
                BY <3>1, <4>1 DEF Received
        <3> QED
            BY <2>1, <3>1, <3>3 DEF FlowInv, ThreadsInv
    <2> QED
        BY <2>2, <2>3
<1>18. SlotsInv'
    <2>1. ASSUME NEW i \in Slots PROVE InOrder(storage_servers'[i])
        BY <1>3 DEF FlowInv, SlotsInv, tableVars
    <2>2. ASSUME NEW i \in Slots PROVE Received(storage_servers[i])'
        <3>1. Received(storage_servers[i]) /\ storage_servers[i] \in Structs
            BY DEF FlowInv, FlowTypeOK, SlotsInv
        <3>2. InGot(storage_servers[i])
            BY <1>12, <3>1
        <3> QED
            BY <1>3, <3>2 DEF Received, tableVars
    <2> QED
        BY <2>1, <2>2 DEF SlotsInv, InOrder, Received
<1>19. OnceInv'
    <2>1. ASSUME NEW other \in Structs, Received(other), Disjoint(old, other)
          PROVE  Disjoint(new, other) /\ Disjoint(other, new)
        BY <1>7, <1>12, <2>1 DEF Disjoint
    <2>2. ASSUME NEW u \in Conns \ {t}
          PROVE  Disjoint(new, new_server[u]) /\ Disjoint(new_server[u], new)
        <3>1. /\ new_server[u] \in Structs /\ Received(new_server[u])
              /\ Disjoint(old, new_server[u])
            BY DEF FlowInv, FlowTypeOK, ThreadsInv, OnceInv
        <3> QED
            BY <2>1, <3>1
    <2>3. ASSUME NEW i \in Slots PROVE Disjoint(new, storage_servers[i])
        <3>1. /\ storage_servers[i] \in Structs /\ Received(storage_servers[i])
              /\ Disjoint(old, storage_servers[i])
            BY DEF FlowInv, FlowTypeOK, SlotsInv, OnceInv
        <3> QED
            BY <2>1, <3>1
    <2>4. \A u, v \in Conns : u # v => Disjoint(new_server'[u], new_server'[v])
        BY <1>8, <2>2 DEF FlowInv, OnceInv
    <2>5. \A u \in Conns, i \in Slots : Disjoint(new_server'[u], storage_servers'[i])
        BY <1>3, <1>8, <2>3 DEF FlowInv, OnceInv, tableVars
    <2>6. \A i, j \in Slots : i # j => Disjoint(storage_servers'[i], storage_servers'[j])
        BY <1>3 DEF FlowInv, OnceInv, tableVars
    <2> QED
        BY <2>4, <2>5, <2>6 DEF OnceInv, Disjoint
<1>20. WholeInv'
    <2>1. ASSUME NEW u \in Conns, tpc'[u] = "store"
          PROVE  \/ u # t /\ tpc[u] = "store" /\ new_server'[u] = new_server[u]
                 \/ Len(new_server'[u]) = StructSize
        <3>1. CASE u # t
            BY <1>3, <1>8, <2>1, <3>1 DEF FlowInv, FlowTypeOK
        <3>2. CASE u = t
            <4>1. Complete(new)
                BY <1>3, <1>8, <2>1, <3>2 DEF FlowInv, FlowTypeOK
            <4>2. Len(new) = StructSize
                BY <1>6, <1>7, <4>1 DEF Complete, StructSize
            <4> QED
                BY <1>8, <3>2, <4>2
        <3> QED
            BY <3>1, <3>2
    <2> QED
        BY <1>3, <2>1 DEF FlowInv, WholeInv, WholeOrNothing, tableVars, peerVars
<1> QED
    BY <1>13, <1>14, <1>15, <1>17, <1>18, <1>19, <1>20 DEF FlowInv

\* A struct moves from its thread to a slot, or is dropped.
LEMMA StoreFlow == ASSUME FlowInv, NEW t \in Conns, Store(t) PROVE FlowInv'
<1>1. /\ tpc[t] = "store" /\ tpc' = [tpc EXCEPT ![t] = "done"]
      /\ socket' = [socket EXCEPT ![t] = 0]
      /\ new_server' = [new_server EXCEPT ![t] = <<>>]
      /\ UNCHANGED <<connVars, lpc, thread_data>>
    BY DEF Store
<1>2. PICK i \in Slots :
          \/ /\ storage_servers' = [storage_servers EXCEPT ![i] = new_server[t]]
             /\ is_active' = [is_active EXCEPT ![i] = TRUE]
             /\ expired' = [expired EXCEPT ![i] = FALSE]
          \/ UNCHANGED <<storage_servers, is_active, expired>>
    <2>1. 1 \in Slots
        BY MaxServersAssumption DEF Slots
    <2> QED
        BY <2>1 DEF Store, StoreServer, StoreRefused, tableVars
<1>3. /\ tpc'[t] = "done" /\ new_server'[t] = <<>> /\ DOMAIN <<>> = {} /\ Len(<<>>) = 0
      /\ \A u \in Conns \ {t} : /\ tpc'[u] = tpc[u] /\ socket'[u] = socket[u]
                                /\ new_server'[u] = new_server[u]
    BY <1>1, EmptyStruct DEF FlowInv, FlowTypeOK
<1>4. \A j \in Slots : \/ storage_servers'[j] = storage_servers[j]
                       \/ j = i /\ storage_servers'[j] = new_server[t]
    BY <1>2 DEF FlowInv, FlowTypeOK
<1>5. UNCHANGED <<peer, accepted, sent, got, fds>>
    BY <1>1 DEF connVars
<1>6. FlowTypeOK'
    <2>1. new_server' \in [Conns -> Structs] /\ storage_servers' \in [Slots -> Structs]
        BY <1>1, <1>2, EmptyStruct DEF FlowInv, FlowTypeOK
    <2>2. /\ tpc' \in [Conns -> {"none", "start", "recv", "store", "done"}]
          /\ socket' \in [Conns -> Fds \cup {0}]
          /\ is_active' \in [Slots -> BOOLEAN] /\ expired' \in [Slots -> BOOLEAN]
        BY <1>1, <1>2 DEF FlowInv, FlowTypeOK, ActiveType
    <2> QED
        BY <1>1, <1>5, <2>1, <2>2 DEF FlowInv, FlowTypeOK, ActiveType
<1>7. DescriptorsInv'
    BY <1>1, <1>3, <1>5 DEF FlowInv, FlowTypeOK, DescriptorsInv
<1>8. StreamsInv'
    BY <1>5 DEF FlowInv, StreamsInv
<1>9. ThreadsInv'
    <2> SUFFICES ASSUME NEW u \in Conns
                 PROVE  /\ InOrder(new_server'[u]) /\ Received(new_server[u])'
                        /\ \A j \in DOMAIN new_server'[u] :
                              /\ tpc'[u] \in {"recv", "store"}
                              /\ new_server'[u][j][1] = Socket(u)'
                        /\ tpc'[u] = "recv" => Len(new_server'[u]) < StructSize
        BY DEF ThreadsInv, InOrder, Received
    <2>1. CASE u = t
        BY <1>3, <2>1 DEF InOrder, Received
    <2>2. CASE u # t
        BY <1>3, <1>5, <2>2 DEF FlowInv, ThreadsInv, InOrder, Received, Socket
    <2> QED
        BY <2>1, <2>2
<1>10. SlotsInv'
    BY <1>4, <1>5 DEF FlowInv, SlotsInv, ThreadsInv, InOrder, Received
<1>11. OnceInv'
    <2>1. \A u, v \in Conns : u # v => Disjoint(new_server'[u], new_server'[v])
        BY <1>3 DEF FlowInv, OnceInv, Disjoint
    <2>2. \A u \in Conns, j \in Slots : Disjoint(new_server'[u], storage_servers'[j])
        <3> SUFFICES ASSUME NEW u \in Conns, NEW j \in Slots
                     PROVE  Disjoint(new_server'[u], storage_servers'[j])
            OBVIOUS
        <3>1. CASE u = t
            BY <1>3, <3>1 DEF Disjoint
        <3>2. CASE u # t
            BY <1>3, <1>4, <3>2 DEF FlowInv, OnceInv
        <3> QED
            BY <3>1, <3>2
    <2>3. \A j, k \in Slots : j # k => Disjoint(storage_servers'[j], storage_servers'[k])
        BY <1>4 DEF FlowInv, OnceInv, Disjoint
    <2> QED
        BY <2>1, <2>2, <2>3 DEF OnceInv, Disjoint
<1>12. WholeInv'
    <2> SUFFICES ASSUME ~Resets PROVE WholeInv'
        BY DEF WholeInv
    <2>1. \A u \in Conns : tpc'[u] = "store" => WholeOrNothing(new_server'[u])
        BY <1>3 DEF FlowInv, WholeInv
    <2>2. \A j \in Slots : WholeOrNothing(storage_servers'[j])
        BY <1>1, <1>4 DEF FlowInv, WholeInv
    <2> QED
        BY <1>5, <2>1, <2>2 DEF FlowInv, WholeInv, WholeOrNothing
<1> QED
    BY <1>6, <1>7, <1>8, <1>9, <1>10, <1>11, <1>12 DEF FlowInv

LEMMA FlowNext == FlowInv /\ [Next]_vars => FlowInv'
<1> SUFFICES ASSUME FlowInv, [Next]_vars PROVE FlowInv'
    OBVIOUS
<1>1. CASE UNCHANGED vars
    BY <1>1, TableFlow DEF vars, tableVars, connVars, FlowInv, FlowTypeOK, ActiveType
<1>2. CASE ListenerCheck
    BY <1>2, TableFlow DEF ListenerCheck, tableVars, FlowInv, FlowTypeOK, ActiveType
<1>3. CASE TimePasses
    <2>1. PICK i \in Slots : Expire(i)
        BY <1>3 DEF TimePasses
    <2>2. is_active' \in [Slots -> BOOLEAN] /\ expired' \in [Slots -> BOOLEAN]
        BY <2>1 DEF Expire, FlowInv, FlowTypeOK, ActiveType
    <2> QED
        BY <1>3, <2>1, <2>2, TableFlow DEF TimePasses, Expire, FlowInv, FlowTypeOK
<1>4. CASE Monitor
    <2>1. /\ is_active' \in [Slots -> BOOLEAN]
          /\ UNCHANGED <<storage_servers, expired, connVars, lpc, thread_data, threadVars>>
        <3>1. PICK swept : is_active' = [i \in Slots |-> is_active[i] /\ i \notin swept]
            BY <1>4 DEF Monitor, Sweep
        <3>2. \A i \in Slots : (is_active[i] /\ i \notin swept) \in BOOLEAN
            OBVIOUS
        <3> QED
            BY <1>4, <3>1, <3>2 DEF Monitor, Sweep
    <2> QED
        BY <2>1, TableFlow DEF FlowInv, FlowTypeOK
<1>5. ASSUME NEW t \in Conns, Overread(t) PROVE FlowInv'
    BY <1>5, TableFlow DEF Overread, tableVars, FlowInv, FlowTypeOK, ActiveType
<1> QED
    BY <1>1, <1>2, <1>3, <1>4, <1>5, PeerFlow, AcceptFlow, ReadArgsFlow, RecvPieceFlow,
       RecvErrorFlow, StoreFlow
    DEF Next, Listener, Thread

-----------------------------------------------------------------------------
(* The trie and the table.                                                 *)

\* The lemmas about tries; what that module says of its own specification is
\* not used.
Tries == INSTANCE TrieProofs WITH
    Registrable <- {}, Queries <- {}, Servers <- {}, trie <- root, registered <- root

RootInv ==
    /\ root = [node \in DOMAIN root |-> root[node]]
    /\ \A node \in DOMAIN root : root[node] \in Slots \cup {NotEnd}

\* Without the monitor the table is filled from below, so that a new entry has
\* a larger slot than any before.
FilledInv == ~MonitorStarted => \A i \in Active : \A j \in 1 .. i - 1 : is_active[j]

TableInv == FlowInv /\ RootInv /\ FilledInv /\ TrieAgreesWithTable

LEMMA ListedPathsAreFinite ==
    ASSUME NEW struct \in Structs, NEW paths \in ListedPaths(struct)
    PROVE  IsFiniteSet(paths) /\ paths \in SUBSET Seq(Nat)
<1>1. IsFiniteSet({}) /\ IsFiniteSet({<<>>}) /\ <<>> \in Seq(Nat)
    <2>1. <<>> \in Seq(Nat)
        OBVIOUS
    <2>2. IsFiniteSet({}) /\ \A x : IsFiniteSet({x})
        BY FS_EmptySet, FS_Singleton
    <2> QED
        BY <2>1, <2>2
<1>2. CASE struct = <<>>
    BY <1>1, <1>2 DEF ListedPaths
<1>3. CASE struct # <<>>
    <2>1. struct[1][1] \in Conns
        <3>1. struct \in Seq(Pieces) /\ DOMAIN struct = 1 .. Len(struct) /\ Len(struct) \in Nat
            BY StructElements
        <3>2. 1 \in DOMAIN struct
            BY <1>3, <3>1
        <3> QED
            BY <3>2, StructElements
    <2> DEFINE c == struct[1][1]
    <2>2. paths \in {{}, {<<>>}, PathsIn[c]}
        BY <1>3 DEF ListedPaths
    <2>3. IsFiniteSet(PathsIn[c]) /\ PathsIn[c] \subseteq Seq(Nat)
        BY <2>1, PathsInAssumption
    <2> QED
        BY <1>1, <2>2, <2>3
<1> QED
    BY <1>2, <1>3

\* What the loop of a registration over its paths leaves.
LEMMA PathsAdded ==
    ASSUME RootInv, NEW paths \in SUBSET Seq(Nat), IsFiniteSet(paths), NEW i
    PROVE  LET after == AddPaths(root, paths, i)
           IN  /\ after = [node \in DOMAIN after |-> after[node]]
               /\ DOMAIN root \subseteq DOMAIN after /\ paths \subseteq DOMAIN after
               /\ \A node \in DOMAIN after :
                     after[node] = IF node \in paths THEN i
                                   ELSE IF node \in DOMAIN root THEN root[node] ELSE NotEnd
<1>1. Tries!AddPaths(root, paths, i) = Tries!WithPaths(root, paths, i)
    <2>1. Tries!IsFiniteSet(paths)
        BY DEF IsFiniteSet, Tries!IsFiniteSet
    <2> QED
        BY <2>1, Tries!AddingPaths DEF RootInv
<1>2. Tries!AddPaths(root, paths, i) = AddPaths(root, paths, i)
    BY DEF AddPaths, Tries!AddPaths, AddPathToTrie, Tries!AddPathToTrie, Spine,
           Tries!Spine, FoldSet, Tries!FoldSet, MapThenFoldSet, Tries!MapThenFoldSet
<1>3. \A p \in paths : p \in Tries!Spine(p)
    BY Tries!PathInSpine
<1> QED
    BY <1>1, <1>2, <1>3 DEF Tries!WithPaths

LEMMA TableInit0 == Init => RootInv /\ FilledInv /\ TrieAgreesWithTable
<1> SUFFICES ASSUME Init PROVE RootInv /\ FilledInv /\ TrieAgreesWithTable
    OBVIOUS
<1>1. root = [node \in {<<>>} |-> NotEnd] /\ Active = {}
    BY DEF Init, StartAt, TableInit, EmptyTrie, Active
<1> QED
    BY <1>1 DEF RootInv, FilledInv, TrieAgreesWithTable

\* A registration takes the first free slot, the largest one in use from then
\* on, and its paths lead there.
LEMMA StoreTable ==
    ASSUME TableInv, NEW t \in Conns, Store(t)
    PROVE  RootInv' /\ FilledInv' /\ TrieAgreesWithTable'
<1>1. CASE StoreRefused
    BY <1>1 DEF StoreRefused, tableVars, TableInv, RootInv, FilledInv,
                TrieAgreesWithTable, Active
<1>2. ASSUME NEW paths \in ListedPaths(new_server[t]), StoreServer(new_server[t], paths)
      PROVE  RootInv' /\ FilledInv' /\ TrieAgreesWithTable'
    <2> DEFINE struct == new_server[t]
    <2>1. PICK i \in Slots :
              /\ IsFirstFree(i)
              /\ storage_servers' = [storage_servers EXCEPT ![i] = struct]
              /\ is_active' = [is_active EXCEPT ![i] = TRUE]
              /\ root' = AddPaths(root, paths, i)
        BY <1>2 DEF StoreServer
    <2>2. ~is_active[i] /\ \A j \in 1 .. i - 1 : is_active[j]
        BY <2>1 DEF IsFirstFree
    <2>3. /\ storage_servers'[i] = struct /\ is_active'[i]
          /\ \A j \in Slots \ {i} : /\ storage_servers'[j] = storage_servers[j]
                                    /\ is_active'[j] = is_active[j]
          /\ Active' = Active \cup {i}
        BY <2>1 DEF TableInv, FlowInv, FlowTypeOK, ActiveType, Active
    <2>4. IsFiniteSet(paths) /\ paths \in SUBSET Seq(Nat)
        BY <1>2, ListedPathsAreFinite DEF TableInv, FlowInv, FlowTypeOK
    <2>5. /\ root' = [node \in DOMAIN root' |-> root'[node]]
          /\ DOMAIN root \subseteq DOMAIN root' /\ paths \subseteq DOMAIN root'
          /\ \A node \in DOMAIN root' :
                root'[node] = IF node \in paths THEN i
                              ELSE IF node \in DOMAIN root THEN root[node] ELSE NotEnd
        BY <2>1, <2>4, PathsAdded DEF TableInv
    <2>6. RootInv'
        BY <2>5 DEF TableInv, RootInv
    <2>7. Slots \subseteq Int /\ NotEnd \notin Slots
        BY MaxServersAssumption, NotASlotAssumption DEF Slots
    <2>8. FilledInv'
        <3> SUFFICES ASSUME ~MonitorStarted, NEW k \in Active', NEW j \in 1 .. k - 1
                     PROVE  is_active'[j]
            BY DEF FilledInv
        <3>1. is_active[j]
            BY <2>2, <2>3 DEF TableInv, FilledInv
        <3>2. j \in Slots
            <4>1. k \in 1 .. MaxServers
                BY <2>3 DEF Active, Slots
            <4> QED
                BY <4>1, MaxServersAssumption DEF Slots
        <3> QED
            BY <2>3, <3>1, <3>2
    <2>9. TrieAgreesWithTable'
        <3> SUFFICES ASSUME ~MonitorStarted PROVE TrieAgreesWithTable'
            BY DEF TrieAgreesWithTable
        <3>1. ASSUME NEW k \in Active PROVE k <= i
            <4>1. k \in Int /\ i \in Int /\ i \in Slots /\ k # i
                BY <2>2, <2>7 DEF Active
            <4>2. i \notin 1 .. k - 1
                BY <2>2 DEF TableInv, FilledInv
            <4> QED
                BY <4>1, <4>2 DEF Slots
        <3>2. ASSUME NEW node \in DOMAIN root', root'[node] # NotEnd
              PROVE  /\ is_active'[root'[node]]
                     /\ \E listed \in ListedPaths(storage_servers'[root'[node]]) : node \in listed
            <4>1. CASE node \in paths
                BY <1>2, <2>3, <2>5, <4>1
            <4>2. CASE node \notin paths
                <5>1. node \in DOMAIN root /\ root'[node] = root[node]
                    BY <2>5, <3>2, <4>2
                <5>2. /\ root[node] \in Slots /\ is_active[root[node]]
                      /\ \E listed \in ListedPaths(storage_servers[root[node]]) : node \in listed
                    BY <3>2, <5>1 DEF TableInv, RootInv, TrieAgreesWithTable
                <5> QED
                    BY <2>2, <2>3, <5>1, <5>2
            <4> QED
                BY <4>1, <4>2
        <3>3. ASSUME NEW k \in Active'
              PROVE  \E listed \in ListedPaths(storage_servers'[k]) :
                        \A p \in listed : p \in DOMAIN root' /\ root'[p] \in Slots /\ root'[p] >= k
            <4>1. CASE k = i
                <5>1. \A p \in paths : p \in DOMAIN root' /\ root'[p] = i /\ i >= k
                    BY <2>5, <2>7, <4>1
                <5> QED
                    BY <1>2, <2>3, <4>1, <5>1
            <4>2. CASE k # i
                <5>1. k \in Active /\ storage_servers'[k] = storage_servers[k] /\ k <= i
                    BY <2>3, <3>1, <4>2 DEF Active
                <5>2. PICK listed \in ListedPaths(storage_servers[k]) :
                          \A p \in listed : p \in DOMAIN root /\ root[p] \in Slots /\ root[p] >= k
                    BY <5>1 DEF TableInv, TrieAgreesWithTable
                <5>3. ASSUME NEW p \in listed
                      PROVE  p \in DOMAIN root' /\ root'[p] \in Slots /\ root'[p] >= k
                    <6>1. p \in DOMAIN root' /\ root'[p] \in {i, root[p]}
                        BY <2>5, <5>2
                    <6>2. i \in Slots /\ i >= k
                        BY <2>7, <5>1 DEF Active
                    <6> QED
                        BY <5>2, <6>1, <6>2
                <5> QED
                    BY <5>1, <5>2, <5>3
            <4> QED
                BY <4>1, <4>2
        <3> QED
            BY <3>2, <3>3 DEF TrieAgreesWithTable
    <2> QED
        BY <2>6, <2>8, <2>9
<1> QED
    BY <1>1, <1>2 DEF Store

LEMMA TableNext == TableInv /\ [Next]_vars => TableInv'
<1> SUFFICES ASSUME TableInv, [Next]_vars PROVE RootInv' /\ FilledInv' /\ TrieAgreesWithTable'
    BY FlowNext DEF TableInv
<1>1. ASSUME UNCHANGED <<storage_servers, is_active, root>>
      PROVE  RootInv' /\ FilledInv' /\ TrieAgreesWithTable'
    BY <1>1 DEF TableInv, RootInv, FilledInv, TrieAgreesWithTable, Active
<1>2. CASE Monitor
    BY <1>2 DEF Monitor, Sweep, TableInv, RootInv, FilledInv, TrieAgreesWithTable
<1>3. CASE UNCHANGED vars
    BY <1>1, <1>3 DEF vars, tableVars
<1>4. CASE ListenerCheck \/ Listener
    <2>1. UNCHANGED tableVars
        BY <1>4 DEF ListenerCheck, Listener, MainAccept, ListenerAccept
    <2> QED
        BY <1>1, <2>1 DEF tableVars
<1>5. CASE TimePasses
    BY <1>1, <1>5 DEF TimePasses, Expire
<1>6. ASSUME NEW c \in Conns, Peer(c) \/ ListenerAcceptNoThread(c)
      PROVE  RootInv' /\ FilledInv' /\ TrieAgreesWithTable'
    BY <1>1, <1>6 DEF Peer, Connect, Send, Reset, ListenerAcceptNoThread, tableVars
<1>7. ASSUME NEW t \in Conns,
             ReadArgs(t) \/ RecvPiece(t) \/ RecvError(t) \/ Overread(t)
      PROVE  RootInv' /\ FilledInv' /\ TrieAgreesWithTable'
    BY <1>1, <1>7 DEF ReadArgs, RecvPiece, RecvError, Overread, tableVars
<1> QED
    BY <1>2, <1>3, <1>4, <1>5, <1>6, <1>7, StoreTable DEF Next, Thread

-----------------------------------------------------------------------------

\* What is received and stored, for any number of connections and slots.
THEOREM FlowInvariance == Spec => []FlowInv
<1>1. Init => FlowInv
    BY FlowInit DEF Init
<1> QED
    BY <1>1, FlowNext, PTL DEF Spec

\* The counter and the flags.
THEOREM Invariance == Spec => []IInv
BY InitInvariant, NextInvariant, PTL DEF Spec

\* The counter the listener reads is exact in every state, however many
\* registrations and sweeps there are.
THEOREM CounterIsExact == Spec => []CountMatches
BY Invariance, PTL DEF IInv

\* The counter never exceeds the size of the table, although the listener
\* tests it before it blocks in accept.
CounterInRange == num_storage_servers \in 0 .. MaxServers

THEOREM CounterStaysInRange == Spec => []CounterInRange
<1>1. IInv => CounterInRange
    BY ActiveFinite DEF IInv, CountMatches, CounterInRange
<1> QED
    BY <1>1, Invariance, PTL

\* A struct of full size in the table is that of one connection, and nothing of it
\* is in another slot, although two threads may have received from one socket
\* (lines 470-484).
THEOREM NoMixedStructs == Spec => []StoredIntact
<1>1. FlowInv => StoredIntact
    <2> SUFFICES ASSUME FlowInv, NEW i \in Active, Len(storage_servers[i]) = StructSize
                 PROVE  /\ \E c \in Conns :
                              /\ \A n \in 1 .. StructSize : storage_servers[i][n][1] = c
                              /\ c \notin Strangers => storage_servers[i] = Whole(c)
                        /\ \A j \in Active \ {i} :
                              Held(storage_servers[i]) \cap Held(storage_servers[j]) = {}
        BY DEF StoredIntact
    <2>1. i \in Slots /\ storage_servers[i] \in Structs /\ InOrder(storage_servers[i])
        BY DEF Active, FlowInv, FlowTypeOK, SlotsInv
    <2>2. \E c \in Conns : /\ \A n \in 1 .. StructSize : storage_servers[i][n][1] = c
                           /\ c \notin Strangers => storage_servers[i] = Whole(c)
        BY <2>1, FullStruct
    <2>3. ASSUME NEW j \in Active \ {i}
          PROVE  Held(storage_servers[i]) \cap Held(storage_servers[j]) = {}
        <3>1. j \in Slots /\ j # i
            BY DEF Active
        <3>2. Disjoint(storage_servers[i], storage_servers[j])
            BY <2>1, <3>1 DEF FlowInv, OnceInv
        <3> QED
            BY <3>2 DEF Disjoint, Held
    <2> QED
        BY <2>2, <2>3
<1> QED
    BY <1>1, FlowInvariance, PTL

LEMMA StrangersSlots ==
    ASSUME FlowInv, ~Resets, NEW c \in Conns
    PROVE  StructSize * Cardinality(SlotsOf(c)) <= sent[c]
<1> DEFINE parts == SlotsOf(c) \X (1 .. 2)
           number == [p \in parts |-> storage_servers[p[1]][p[2]][2]]
<1>1. ASSUME NEW i \in SlotsOf(c)
      PROVE  /\ i \in Slots /\ storage_servers[i] \in Structs
             /\ InOrder(storage_servers[i]) /\ Received(storage_servers[i])
             /\ DOMAIN storage_servers[i] = 1 .. 2
             /\ \A n \in 1 .. 2 : storage_servers[i][n][1] = c
    <2>1. /\ i \in Slots /\ storage_servers[i] \in Structs /\ storage_servers[i] # <<>>
          /\ storage_servers[i][1][1] = c
          /\ InOrder(storage_servers[i]) /\ Received(storage_servers[i])
        BY DEF SlotsOf, Active, NoStruct, FlowInv, FlowTypeOK, SlotsInv
    <2>2. Len(storage_servers[i]) = StructSize
        BY <2>1 DEF FlowInv, WholeInv, WholeOrNothing
    <2> QED
        BY <2>1, <2>2, FullStruct DEF StructSize
<1>2. got[c] \in Nat /\ sent[c] \in Nat /\ got[c] <= sent[c]
    BY DEF FlowInv, FlowTypeOK, StreamsInv
<1>3. ASSUME NEW i \in SlotsOf(c), NEW n \in 1 .. 2
      PROVE  /\ storage_servers[i][n] = <<c, storage_servers[i][n][2]>>
             /\ storage_servers[i][n][2] \in 1 .. got[c]
    <2>1. /\ storage_servers[i][n] = <<c, storage_servers[i][n][2]>>
          /\ storage_servers[i][n][2] \in Nat \ {0}
        BY <1>1, StructElements
    <2>2. storage_servers[i][n][2] <= got[c]
        BY <1>1 DEF Received
    <2> QED
        BY <1>2, <2>1, <2>2
<1>4. number \in Injection(parts, 1 .. got[c])
    <2>1. \A p \in parts : p[1] \in SlotsOf(c) /\ p[2] \in 1 .. 2 /\ p = <<p[1], p[2]>>
        OBVIOUS
    <2>2. number \in [parts -> 1 .. got[c]]
        BY <1>3, <2>1
    <2>3. ASSUME NEW p \in parts, NEW q \in parts, number[p] = number[q] PROVE p = q
        <3>1. storage_servers[p[1]][p[2]] = storage_servers[q[1]][q[2]]
            BY <1>3, <2>1, <2>3
        <3>2. p[1] = q[1]
            BY <1>1, <2>1, <3>1 DEF FlowInv, OnceInv, Disjoint
        <3>3. p[2] = q[2]
            <4> DEFINE struct == storage_servers[p[1]]
            <4>1. /\ \A i, j \in 1 .. 2 : i < j => struct[i][2] < struct[j][2]
                  /\ \A i \in 1 .. 2 : struct[i][2] \in Nat
                BY <1>1, <1>3, <2>1 DEF InOrder
            <4>2. struct[p[2]][2] = struct[q[2]][2]
                BY <3>1, <3>2
            <4> HIDE DEF struct
            <4>3. \A i, j \in 1 .. 2 : struct[i][2] = struct[j][2] => i = j
                BY <4>1
            <4> QED
                BY <2>1, <4>2, <4>3
        <3> QED
            BY <2>1, <3>2, <3>3
    <2> QED
        BY <2>2, <2>3 DEF Injection, IsInjective
<1>5. IsFiniteSet(1 .. got[c]) /\ Cardinality(1 .. got[c]) <= got[c]
    <2> DEFINE n == got[c]
    <2>1. n \in Int /\ 1 \in Int /\ n >= 0
        BY <1>2
    <2> HIDE DEF n
    <2>2. IsFiniteSet(1 .. n) /\ Cardinality(1 .. n) = IF 1 > n THEN 0 ELSE n - 1 + 1
        BY <2>1, FS_Interval
    <2>3. Cardinality(1 .. n) <= n
        BY <2>1, <2>2
    <2> QED
        BY <2>2, <2>3 DEF n
<1>6. Cardinality(parts) <= got[c] /\ Cardinality(parts) \in Nat
    <2> HIDE DEF number, parts
    <2>1. IsFiniteSet(parts) /\ Cardinality(parts) <= Cardinality(1 .. got[c])
        BY <1>4, <1>5, FS_Injection
    <2> QED
        BY <1>2, <1>5, <2>1, FS_CardinalityType
<1>7. Cardinality(parts) = Cardinality(SlotsOf(c)) * 2 /\ Cardinality(SlotsOf(c)) \in Nat
    <2>1. IsFiniteSet(1 .. 2) /\ Cardinality(1 .. 2) = 2
        <3> DEFINE n == 2
        <3>1. n \in Int /\ 1 \in Int /\ n = 2
            OBVIOUS
        <3> HIDE DEF n
        <3>2. IsFiniteSet(1 .. n) /\ Cardinality(1 .. n) = IF 1 > n THEN 0 ELSE n - 1 + 1
            BY <3>1, FS_Interval
        <3> QED
            BY <3>1, <3>2
    <2>2. IsFiniteSet(SlotsOf(c))
        <3>1. SlotsOf(c) \subseteq Slots /\ IsFiniteSet(Slots)
            BY MaxServersAssumption, FS_Interval DEF SlotsOf, Active, Slots
        <3> QED
            BY <3>1, FS_Subset
    <2> QED
        BY <2>1, <2>2, FS_Product, FS_CardinalityType
<1> HIDE DEF parts
<1> QED
    BY <1>2, <1>6, <1>7 DEF StructSize

\* The naming server ends in the loop over the paths of a text that filled a struct.
CrashInv == ~Resets /\ lpc = "crashed" => \E c \in Strangers : sent[c] >= StructSize

LEMMA TextFillsStruct ==
    ASSUME FlowInv, ~Resets, NEW t \in Conns, Overread(t)
    PROVE  \E c \in Strangers : sent[c] >= StructSize
<1> DEFINE struct == new_server[t]
           c == struct[1][1]
<1>1. struct \in Structs /\ InOrder(struct) /\ Received(struct) /\ struct # <<>>
    BY DEF FlowInv, FlowTypeOK, ThreadsInv, Overread, IsText
<1>2. Len(struct) = StructSize
    BY <1>1 DEF FlowInv, WholeInv, WholeOrNothing, Overread
<1>3. /\ c \in Conns /\ 2 \in DOMAIN struct /\ struct[2][1] = c
      /\ struct[2][2] \in Nat /\ struct[2][2] > 1
      /\ c \notin Strangers => struct = Whole(c)
    BY <1>1, <1>2, FullStruct DEF StructSize
<1>4. c \in Strangers
    BY <1>3 DEF Overread, IsText, Whole
<1>5. struct[2][2] <= got[c] /\ got[c] \in Nat /\ sent[c] \in Nat /\ got[c] <= sent[c]
    BY <1>1, <1>3 DEF Received, FlowInv, FlowTypeOK, StreamsInv
<1>6. sent[c] >= StructSize
    <2> HIDE DEF struct, c
    <2> QED
        BY <1>3, <1>5 DEF StructSize
<1> QED
    BY <1>4, <1>6

LEMMA CrashNext == FlowInv /\ CrashInv /\ [Next]_vars => CrashInv'
<1> SUFFICES ASSUME FlowInv, CrashInv, [Next]_vars, ~Resets, lpc' = "crashed"
             PROVE  \E c \in Strangers : sent'[c] >= StructSize
    BY DEF CrashInv
<1>1. ASSUME NEW t \in Conns, Overread(t)
      PROVE  \E c \in Strangers : sent'[c] >= StructSize
    BY <1>1, TextFillsStruct DEF Overread, connVars
<1>2. ASSUME NEW c \in Conns, Send(c)
      PROVE  lpc = "crashed" /\ \A d \in Conns : sent'[d] >= sent[d] /\ sent'[d] \in Nat
    BY <1>2 DEF Send, FlowInv, FlowTypeOK
<1>3. CASE lpc = "crashed" /\ \A d \in Conns : sent'[d] >= sent[d] /\ sent'[d] \in Nat
    <2>1. PICK c \in Strangers : sent[c] >= StructSize
        BY <1>3 DEF CrashInv
    <2>2. c \in Conns /\ sent[c] \in Nat
        BY <2>1, StrangersAssumption DEF FlowInv, FlowTypeOK
    <2> QED
        BY <1>3, <2>1, <2>2 DEF StructSize
<1>4. CASE lpc' = lpc /\ sent' = sent
    BY <1>4 DEF CrashInv
<1>5. CASE UNCHANGED vars
    BY <1>4, <1>5 DEF vars, connVars
<1>6. ASSUME NEW c \in Conns, Peer(c) \/ ListenerAcceptNoThread(c)
      PROVE  \E d \in Strangers : sent'[d] >= StructSize
    BY <1>2, <1>3, <1>4, <1>6 DEF Peer, Connect, Reset, ListenerAcceptNoThread
<1>7. ASSUME NEW t \in Conns, Thread(t)
      PROVE  \E d \in Strangers : sent'[d] >= StructSize
    BY <1>1, <1>4, <1>7
    DEF Thread, ReadArgs, RecvPiece, RecvError, Store, connVars, peerVars
<1>8. CASE Listener \/ ListenerCheck
    BY <1>8 DEF Listener, ListenerCheck, MainAccept, ListenerAccept
<1>9. CASE TimePasses \/ Monitor
    BY <1>4, <1>9 DEF TimePasses, Monitor, connVars
<1> QED
    BY <1>5, <1>6, <1>7, <1>8, <1>9 DEF Next

\* However much the other connections send, and whatever their number: unless
\* connections are reset, what one of them puts into the table is full structs of
\* its own text, each part of it in one slot only, and the naming server overreads
\* num_paths only after one of them has filled a struct (lines 476-484, 505-513).
THEOREM TextFillsStructs == Spec => []TextMustFillStructs
<1>1. FlowInv /\ CrashInv => TextMustFillStructs
    <2> SUFFICES ASSUME FlowInv, CrashInv, ~Resets PROVE TextMustFillStructs
        BY DEF TextMustFillStructs
    <2>1. \A i \in Active : storage_servers[i] = NoStruct
                            \/ Len(storage_servers[i]) = StructSize
        BY DEF FlowInv, WholeInv, WholeOrNothing, Active, NoStruct
    <2>2. \A c \in Strangers : StructSize * Cardinality(SlotsOf(c)) <= sent[c]
        BY StrangersSlots, StrangersAssumption
    <2> QED
        BY <2>1, <2>2 DEF TextMustFillStructs, CrashInv
<1>2. Init => CrashInv
    BY DEF Init, StartAt, CrashInv
<1> QED
    BY <1>1, <1>2, CrashNext, FlowInvariance, PTL DEF Spec

\* The trie is a trie and agrees with the slots, which are filled in order.
THEOREM TableInvariance == Spec => []TableInv
<1>1. Init => TableInv
    BY FlowInit, TableInit0 DEF Init, TableInv
<1> QED
    BY <1>1, TableNext, PTL DEF Spec

\* Every variable keeps its type, the counter and the trie included.
THEOREM TypeInvariance == Spec => []TypeOK
<1>1. TableInv /\ CounterInRange => TypeOK
    BY DEF TableInv, FlowInv, FlowTypeOK, StreamsInv, ActiveType, RootInv, CounterInRange,
           TypeOK, TableTypeOK
<1> QED
    BY <1>1, TableInvariance, CounterStaysInRange, PTL

\* Unless the monitor runs, a path leads to the newest active server that listed
\* it, whatever registrations race for slots (lines 487-513).
THEOREM TrieFollowsTable == Spec => []TrieAgreesWithTable
BY TableInvariance, PTL DEF TableInv

-----------------------------------------------------------------------------
(***************************************************************************)
(* The earlier version.  Its listener and threads are those of             *)
(* Registration, and so is what its peers do, but for the storage server   *)
(* that sends its whole struct at once.                                    *)
(***************************************************************************)
CONSTANTS Servers, Clients, Taken, MaxStrangers
VARIABLE program
Earlier == INSTANCE EarlierVersion

LEMMA EarlierInitFlow == Earlier!EarlierInit => FlowInv
<1> SUFFICES ASSUME Earlier!EarlierInit PROVE FlowInv
    OBVIOUS
<1>1. StartAt("check")
    BY DEF Earlier!EarlierInit, Earlier!StartAt, StartAt, Earlier!TableInit, TableInit,
           Earlier!NoStruct, NoStruct, Earlier!Slots, Slots, Earlier!Fds, Fds,
           Earlier!EmptyTrie, EmptyTrie, Earlier!Cardinality, Cardinality,
           Earlier!IsFiniteSet, IsFiniteSet
<1> QED
    BY <1>1, FlowInit

\* A storage server connects and sends its struct.
LEMMA RegisterFlow ==
    ASSUME Earlier!EarlierAssumption, FlowInv, NEW s \in Servers, Earlier!Register(s)
    PROVE  FlowInv'
<1> DEFINE c == Earlier!RegisterOf(s)
<1>1. c \in Conns \ Strangers
    BY DEF Earlier!EarlierAssumption, Earlier!RegisterOf, Earlier!CommandsOf
<1>2. /\ peer' = [peer EXCEPT ![c] = "open"]
      /\ sent' = [sent EXCEPT ![c] = StructSize]
      /\ UNCHANGED <<tableVars, accepted, got, fds, lpc, thread_data, threadVars>>
    BY DEF Earlier!Register, Earlier!StructSize, StructSize, Earlier!tableVars, tableVars,
           Earlier!threadVars, threadVars
<1> HIDE DEF c
<1>3. FlowTypeOK'
    BY <1>1, <1>2
    DEF FlowInv, FlowTypeOK, ActiveType, tableVars, threadVars, StructSize
<1>4. DescriptorsInv'
    BY <1>2 DEF FlowInv, DescriptorsInv, threadVars
<1>5. StreamsInv'
    BY <1>1, <1>2, SizeAssumption DEF FlowInv, FlowTypeOK, StreamsInv, StructSize
<1>6. ThreadsInv' /\ SlotsInv' /\ OnceInv'
    BY <1>2, HeldUnchanged DEF Socket, tableVars, threadVars
<1>7. WholeInv'
    <2>1. ~Resets => \A d \in Conns : peer'[d] \in {"away", "open"}
        BY <1>2 DEF FlowInv, FlowTypeOK, WholeInv
    <2> QED
        BY <1>2, <2>1 DEF FlowInv, WholeInv, tableVars, threadVars
<1> QED
    BY <1>3, <1>4, <1>5, <1>6, <1>7 DEF FlowInv

\* What the other steps of its programs come to here.
LEMMA EarlierPeer ==
    ASSUME NEW c \in Conns, Earlier!Connect(c) \/ Earlier!Send(c)
    PROVE  Peer(c)
BY DEF Earlier!Connect, Connect, Earlier!Send, Send, Peer,
       Earlier!tableVars, tableVars, Earlier!threadVars, threadVars

LEMMA EarlierListener ==
    ASSUME Earlier!ListenerStep
    PROVE  ListenerCheck \/ \E c \in Conns : ListenerAccept(c) \/ ListenerAcceptNoThread(c)
BY DEF Earlier!ListenerStep, Earlier!ListenerCheck, ListenerCheck, Earlier!ListenerAccept,
       ListenerAccept, Earlier!ListenerAcceptNoThread, ListenerAcceptNoThread,
       Earlier!Accept, Accept, Earlier!IsLowestFd, IsLowestFd, Earlier!Backlog, Backlog,
       Earlier!Fds, Fds, Earlier!Cardinality, Cardinality, Earlier!IsFiniteSet, IsFiniteSet,
       Earlier!tableVars, tableVars, Earlier!connVars, connVars, Earlier!peerVars, peerVars,
       Earlier!threadVars, threadVars

LEMMA EarlierStore ==
    ASSUME NEW t \in Conns, Earlier!Store(t)
    PROVE  Store(t)
<1>1. \A struct : Earlier!ListedPaths(struct) = ListedPaths(struct)
    BY DEF Earlier!ListedPaths, ListedPaths, Earlier!IsText, IsText, Earlier!Header, Header,
           Earlier!StructSize, StructSize
<1>2. \A paths, i : Earlier!AddPaths(root, paths, i) = AddPaths(root, paths, i)
    BY DEF Earlier!AddPaths, AddPaths, Earlier!FoldSet, FoldSet,
           Earlier!MapThenFoldSet, MapThenFoldSet, Earlier!AddPathToTrie, AddPathToTrie,
           Earlier!Spine, Spine
<1>3. ASSUME NEW struct, NEW paths, Earlier!StoreServer(struct, paths)
      PROVE  StoreServer(struct, paths)
    BY <1>2, <1>3 DEF Earlier!StoreServer, StoreServer, Earlier!Slots, Slots,
                      Earlier!IsFirstFree, IsFirstFree
<1>4. ASSUME Earlier!StoreRefused PROVE StoreRefused
    BY <1>4 DEF Earlier!StoreRefused, StoreRefused, Earlier!Full, Full,
                Earlier!Slots, Slots, Earlier!tableVars, tableVars
<1> QED
    BY <1>1, <1>3, <1>4 DEF Earlier!Store, Store, Earlier!connVars, connVars

LEMMA EarlierThread ==
    ASSUME NEW t \in Conns, Earlier!ThreadStep(t)
    PROVE  Thread(t)
<1> USE DEF Earlier!tableVars, tableVars, Earlier!connVars, connVars,
            Earlier!peerVars, peerVars, Earlier!Socket, Socket
<1>0. lpc # "crashed"
    BY DEF Earlier!ThreadStep, Earlier!Thread
<1>1. CASE Earlier!ReadArgs(t)
    BY <1>0, <1>1 DEF Earlier!ReadArgs, ReadArgs, Thread
<1>2. CASE Earlier!RecvPiece(t)
    BY <1>0, <1>2 DEF Earlier!RecvPiece, RecvPiece, Earlier!Complete, Complete,
                Earlier!StructSize, StructSize, Thread
<1>3. CASE Earlier!RecvError(t)
    BY <1>0, <1>3 DEF Earlier!RecvError, RecvError, Thread
<1>4. CASE Earlier!Store(t)
    BY <1>0, <1>4, EarlierStore DEF Thread
<1>5. CASE Earlier!Overread(t)
    BY <1>0, <1>5 DEF Earlier!Overread, Overread, Earlier!IsText, IsText, Earlier!Header, Header,
                Earlier!Full, Full, Earlier!Slots, Slots, Earlier!threadVars, threadVars, Thread
<1> QED
    BY <1>1, <1>2, <1>3, <1>4, <1>5 DEF Earlier!ThreadStep, Earlier!Thread

LEMMA EarlierNextFlow ==
    Earlier!EarlierAssumption /\ FlowInv /\ [Earlier!EarlierNext]_(Earlier!earlierVars)
    => FlowInv'
<1> SUFFICES ASSUME Earlier!EarlierAssumption, FlowInv,
                    [Earlier!EarlierNext]_(Earlier!earlierVars)
             PROVE  FlowInv'
    OBVIOUS
<1>1. CASE UNCHANGED vars
    BY <1>1, FlowNext
<1>2. ASSUME NEW c \in Conns, Earlier!ConnectStranger(c) \/ Earlier!Send(c)
      PROVE  FlowInv'
    BY <1>2, EarlierPeer, PeerFlow DEF Earlier!ConnectStranger
<1>3. ASSUME NEW s \in Servers, Earlier!StorageServer(s) PROVE FlowInv'
    <2>1. Earlier!CommandsOf(s) \in Conns
        BY DEF Earlier!EarlierAssumption, Earlier!CommandsOf
    <2>2. Earlier!BindClientPort(s) => UNCHANGED vars
        BY DEF Earlier!BindClientPort, Earlier!vars, vars, Earlier!tableVars, tableVars,
               Earlier!connVars, connVars, Earlier!threadVars, threadVars
    <2> QED
        BY <1>1, <1>2, <1>3, <2>1, <2>2, RegisterFlow
        DEF Earlier!StorageServer, Earlier!ConnectForCommands
<1>4. ASSUME NEW c \in Clients, Earlier!ClientProgram(c) PROVE FlowInv'
    <2>1. c \in Conns
        BY DEF Earlier!EarlierAssumption
    <2> QED
        BY <1>2, <1>4, <2>1 DEF Earlier!ClientProgram
<1>5. CASE Earlier!ListenerStep
    <2>1. CASE ListenerCheck
        BY <2>1, FlowNext DEF Next
    <2> QED
        BY <1>5, <2>1, EarlierListener, AcceptFlow
<1>6. ASSUME NEW t \in Conns, Earlier!ThreadStep(t) PROVE FlowInv'
    <2>1. Next
        BY <1>6, EarlierThread DEF Next
    <2> QED
        BY <2>1, FlowNext
<1>7. CASE UNCHANGED Earlier!earlierVars
    BY <1>1, <1>7 DEF Earlier!earlierVars, Earlier!vars, vars, Earlier!tableVars, tableVars,
                      Earlier!connVars, connVars, Earlier!threadVars, threadVars
<1> QED
    BY <1>3, <1>4, <1>5, <1>6, <1>7 DEF Earlier!EarlierNext, Earlier!Programs

\* A stranger's text does not fill a struct there.
LEMMA OnlyWholeServers ==
    Earlier!EarlierAssumption /\ FlowInv => Earlier!OnlyServersStored
<1> SUFFICES ASSUME Earlier!EarlierAssumption, FlowInv, ~Resets, NEW i \in Active,
                    storage_servers[i] # NoStruct
             PROVE  \E c \in Conns \ Strangers : storage_servers[i] = Whole(c)
    BY DEF Earlier!OnlyServersStored, Earlier!Active, Active, Earlier!Slots, Slots,
           Earlier!NoStruct, NoStruct, Earlier!Whole, Whole, Earlier!Header, Header,
           Earlier!PathTexts, PathTexts
<1> DEFINE struct == storage_servers[i]
           c == struct[1][1]
<1>1. i \in Slots /\ struct \in Structs /\ InOrder(struct)
    BY DEF Active, FlowInv, FlowTypeOK, SlotsInv
<1>2. Len(struct) = StructSize
    BY <1>1 DEF FlowInv, WholeInv, WholeOrNothing, NoStruct
<1>3. /\ c \in Conns /\ 2 \in DOMAIN struct /\ struct[2][1] = c
      /\ struct[2][2] \in Nat /\ struct[2][2] > 1
      /\ c \notin Strangers => struct = Whole(c)
    BY <1>1, <1>2, FullStruct DEF StructSize
<1>4. struct[2][2] <= Size[c] /\ Size[c] \in Nat
    BY <1>1, <1>3, StructElements, SizeAssumption
<1>5. ASSUME c \in Strangers PROVE FALSE
    <2>1. Size[c] < 2
        BY <1>5 DEF Earlier!EarlierAssumption, Earlier!StructSize
    <2> HIDE DEF struct, c
    <2> QED
        BY <1>3, <1>4, <2>1
<1> QED
    BY <1>3, <1>5

\* In the earlier version too, clients and the connections that storage servers
\* open for commands, which all come to the port for registrations, never become
\* entries of the table, for any number of servers and clients.
THEOREM EarlierOnlyServersRegistered ==
    Earlier!EarlierAssumption /\ Earlier!EarlierSpec => []Earlier!OnlyServersStored
<1>1. Earlier!EarlierAssumption => Earlier!EarlierAssumption'
    BY DEF Earlier!EarlierAssumption
<1> QED
    BY <1>1, EarlierInitFlow, EarlierNextFlow, OnlyWholeServers, PTL
    DEF Earlier!EarlierSpec
=============================================================================
