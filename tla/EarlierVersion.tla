---------------------------- MODULE EarlierVersion ----------------------------
(***************************************************************************)
(* The programs of src/course-project-team_46-main: a naming server that   *)
(* only registers, storage servers that come to it for their commands, and *)
(* clients, all on its one port.                                           *)
(*                                                                         *)
(* The registration listener, its threads and the table are those of       *)
(* module Registration, but no connection is accepted before them: clients *)
(* and the connections that storage servers open for their commands are    *)
(* strangers to it.  Nothing is ever sent on either: no function that      *)
(* sends a command is called, so that a client and a thread for commands   *)
(* wait for ever in their first recv, and what they would do after it is   *)
(* no behaviour of the system.                                             *)
(***************************************************************************)
EXTENDS Registration

CONSTANTS Servers, Clients,
    Taken,          \* servers whose client port is in use on their host
    MaxStrangers    \* at most this many strangers connect

RegisterOf(s) == <<s, "register">>
CommandsOf(s) == <<s, "commands">>

ASSUME EarlierAssumption ==
    /\ Conns = (Servers \X {"register", "commands"}) \cup Clients
    /\ Clients \cap (Servers \X {"register", "commands"}) = {}
    /\ Strangers = {CommandsOf(s) : s \in Servers} \cup Clients
    /\ \A c \in Strangers : Size[c] < StructSize
    /\ Taken \subseteq Servers /\ MaxStrangers \in Nat

VARIABLE program    \* of each server: main and, once that runs, the thread for
                    \* commands

\* Each server lists its home directory, ./ss_1 for all of them: the counter it
\* is numbered by is a variable of its own process.
Home == <<1>>
ASSUME HomeAssumption == \A s \in Servers : Home \in PathsIn[RegisterOf(s)]

earlierVars == <<vars, program>>

EarlierInit ==
    /\ StartAt("check")
    /\ program = [s \in Servers |-> [main |-> "started", commands |-> "none"]]

-----------------------------------------------------------------------------
(* A storage server.                                                       *)

\* Connect, one send of the whole struct, and close: what was sent is still
\* delivered, in pieces.  Only then are the threads created.
Register(s) ==
    /\ program[s].main = "started"
    /\ peer' = [peer EXCEPT ![RegisterOf(s)] = "open"]
    /\ sent' = [sent EXCEPT ![RegisterOf(s)] = StructSize]
    /\ program' = [program EXCEPT ![s] = [main |-> "binding", commands |-> "created"]]
    /\ UNCHANGED <<tableVars, accepted, got, fds, lpc, thread_data, threadVars>>

ConnectStranger(c) ==
    /\ Cardinality({d \in Strangers : peer[d] # "away"}) < MaxStrangers
    /\ Connect(c)

\* The thread for commands opens a connection of its own to the same port.
ConnectForCommands(s) ==
    /\ program[s].commands = "created"
    /\ ConnectStranger(CommandsOf(s))
    /\ program' = [program EXCEPT ![s].commands = "recv"]

\* bind and listen on client_port, while the thread connects; nobody ever
\* connects there.  If the port is in use the program exits, registered.
BindClientPort(s) ==
    /\ program[s].main = "binding"
    /\ program' = [program EXCEPT ![s] =
                      IF s \in Taken THEN [main |-> "exited", commands |-> "none"]
                      ELSE [@ EXCEPT !.main = "serving"]]
    /\ UNCHANGED vars

StorageServer(s) == Register(s) \/ ConnectForCommands(s) \/ BindClientPort(s)

-----------------------------------------------------------------------------

\* Connects, sends the first command and waits for the answer.
ClientProgram(c) == ConnectStranger(c) \/ Send(c)

\* storage_server_listener and handle_storage_server_registration.
ListenerStep == \/ ListenerCheck
                \/ \E c \in Conns : ListenerAccept(c) \/ ListenerAcceptNoThread(c)
ThreadStep(t) == Thread(t)

Programs ==
    \/ \E s \in Servers : StorageServer(s)
    \/ (ListenerStep \/ \E t \in Conns : ThreadStep(t)) /\ UNCHANGED program

EarlierNext == Programs \/ \E c \in Clients : ClientProgram(c) /\ UNCHANGED program

EarlierSpec == EarlierInit /\ [][EarlierNext]_earlierVars

\* Programs go on, clients may not.  Nothing here goes on for ever, so that it
\* is enough that some program goes on while one can.
EarlierFairSpec == EarlierSpec /\ WF_earlierVars(Programs)

-----------------------------------------------------------------------------
(* Properties.                                                             *)

\* The second connection of a storage server and the clients, which come to the
\* port for registrations too, are never stored as servers, as each sends at most
\* one command: a slot holds the whole struct of a storage server, or nothing, for
\* a thread whose socket was closed before it read from it (lines 389-403,
\* 517-544).
OnlyServersStored ==
    ~Resets => \A i \in Active :
                  \/ storage_servers[i] = NoStruct
                  \/ \E c \in Conns \ Strangers : storage_servers[i] = Whole(c)

\* A storage server is registered in the end, or the table is full, unless its
\* thread was not created or read a later connection, or another one shares its
\* connection: the connections that nobody ever answers take threads but no slots
\* (lines 389-455, 517-544).
StartedServersRegister ==
    \A s \in Servers :
        LET c == RegisterOf(s)
        IN  <>(Registered(c) \/ Full \/ (c \in accepted /\ Missed(c)) \/ Split(c))
=============================================================================
