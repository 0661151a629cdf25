---------------------------- MODULE StorageServer ----------------------------
(***************************************************************************)
(* One storage server, from its start on: the two ports main listens on,   *)
(* the thread for the commands of the naming server with the list of files *)
(* it keeps, and who reaches which of the two (src/init_storage_server.c:  *)
(* main, handle_naming_server_commands, create_empty_file, delete_file,    *)
(* create_directory, delete_directory, connection_listener;                *)
(* src/init_naming_server.c: send_command_to_storage_server).              *)
(*                                                                         *)
(* The naming server opens a connection per command, to nm_port of the     *)
(* struct it was sent: the port main was told to find the naming server    *)
(* at.  Other storage servers open theirs for a copy to the same port.     *)
(* What a thread does with the connections of a copy is in module Transfer;*)
(* here a copy brings one file.                                            *)
(*                                                                         *)
(* A definition whose name extends that of the one after it is a faulty    *)
(* variant of it that no action uses.                                      *)
(***************************************************************************)
EXTENDS Naturals, FiniteSets, SequencesExt

CONSTANTS
    Ports, NamingPort,      \* argv[1] is NamingPort
    Paths, Root, Parent,    \* paths below the directory Root, which exists
    FileName,               \* what get_file_name makes of each path
    MaxQueue,               \* connections that wait for accept
    MaxConnections          \* at most this many connections are made to it

ASSUME StorageServerAssumption ==
    /\ NamingPort \in Ports
    /\ IsFiniteSet(Paths) /\ Root \notin Paths
    /\ Parent \in [Paths -> Paths \cup {Root}]
    /\ {MaxQueue, MaxConnections} \subseteq Nat

Operations == {"CREATE_FILE", "CREATE_DIR", "DELETE_FILE", "DELETE_DIR", "COPY"}
Commands == [op : Operations, path : Paths]
\* The connection of a copy begins with "FILE <path>".
Copies == [op : {"FILE"}, path : Paths]

VARIABLES
    nm_listener_port,   \* argv[4]
    client_port,        \* argv[3]
    sameHost,           \* whether the naming server runs on this host
    main,               \* how far main is
    commandThread,      \* where handle_naming_server_commands is
    commandQueue,       \* connections to nm_listener_port not yet accepted
    connection,         \* what is to be received on the accepted one
    clientQueue,        \* connections to client_port not yet accepted
    fs,                 \* what exists at each path
    files,              \* the list of files, file_count is its length
    connections,        \* connections made to this server so far
    executed,           \* history: commands executed
    received            \* history: whether a file has been received

deployment == <<nm_listener_port, client_port, sameHost>>
queues == <<commandQueue, clientQueue>>
disk == <<fs, files>>
history == <<executed, received>>
vars == <<deployment, main, commandThread, queues, connection, disk,
          connections, history>>

Directories == {Root} \cup {p \in Paths : fs[p] = "dir"}

Init ==
    /\ nm_listener_port \in Ports
    /\ client_port \in Ports
    /\ sameHost \in BOOLEAN
    /\ main = "started"
    /\ commandThread = "none"
    /\ commandQueue = <<>> /\ clientQueue = <<>> /\ connection = <<>>
    /\ fs \in [Paths -> {"none", "file", "dir"}]
    /\ \A p \in Paths : fs[p] # "none" => Parent[p] \in Directories
    /\ files = <<>>
    /\ connections = 0
    /\ executed = <<>> /\ received = FALSE

-----------------------------------------------------------------------------
(* main.                                                                   *)

Exit ==
    /\ main' = "exited"
    /\ commandThread' = "none"
    /\ commandQueue' = <<>> /\ clientQueue' = <<>> /\ connection' = <<>>

\* The struct is sent before anything listens.  A server that does not find
\* the naming server exits before that.
Register ==
    /\ main = "started"
    /\ main' = "registered"
    /\ UNCHANGED <<deployment, commandThread, queues, connection, disk,
                   connections, history>>

PortTaken(port) == sameHost /\ port = NamingPort

\* bind, listen and the thread for commands.
ListenForCommands ==
    /\ main = "registered"
    /\ IF PortTaken(nm_listener_port) THEN Exit
       ELSE /\ main' = "commands"
            /\ commandThread' = "accept"
            /\ UNCHANGED <<queues, connection>>
    /\ UNCHANGED <<deployment, disk, connections, history>>

\* One port for both fails: even when the thread for commands has closed its
\* listening socket again, the connection it accepted is left open on the port.
ListenForConnections ==
    /\ main = "commands"
    /\ IF PortTaken(client_port) \/ client_port = nm_listener_port
       THEN Exit
       ELSE main' = "serving" /\ UNCHANGED <<commandThread, queues, connection>>
    /\ UNCHANGED <<deployment, disk, connections, history>>

-----------------------------------------------------------------------------
(* Connections to this server.                                             *)

CommandPort == NamingPort
CopyPortOfClients == client_port
CopyPort == NamingPort

Listens(thread) ==
    CASE thread = "commands" -> commandThread \in {"accept", "recv"}
      [] thread = "client"   -> main = "serving"

\* Which listening socket a connection to the port reaches.
Reaches(port, thread) ==
    /\ ~PortTaken(port)
    /\ Listens(thread)
    /\ port = (IF thread = "commands" THEN nm_listener_port ELSE client_port)

Unreached(port) == \A thread \in {"commands", "client"} : ~Reaches(port, thread)

\* connect, send and close.  A connection that nothing listens for, or that
\* the queue has no place for until connect gives up, is lost.
Deliver(port, message) ==
    \/ /\ Reaches(port, "commands") /\ Len(commandQueue) < MaxQueue
       /\ commandQueue' = Append(commandQueue, message)
       /\ UNCHANGED clientQueue
    \/ /\ Reaches(port, "client")
       /\ clientQueue' = Append(clientQueue, message)
       /\ UNCHANGED commandQueue
    \/ /\ Unreached(port) \/ (Reaches(port, "commands") /\ Len(commandQueue) = MaxQueue)
       /\ UNCHANGED queues

Known == main # "started"

\* The naming server has a command for this server: it takes it for running
\* from its registration on.
SendCommand(command) ==
    /\ Known
    /\ connections < MaxConnections /\ connections' = connections + 1
    /\ Deliver(CommandPort, command)
    /\ UNCHANGED <<deployment, main, commandThread, connection, disk, history>>

\* Another storage server has a file for this one.
SendCopy(copy) ==
    /\ Known
    /\ connections < MaxConnections /\ connections' = connections + 1
    /\ Deliver(CopyPort, copy)
    /\ UNCHANGED <<deployment, main, commandThread, connection, disk, history>>

-----------------------------------------------------------------------------
(* handle_naming_server_commands.                                          *)

AcceptCommands ==
    /\ commandThread = "accept"
    /\ commandQueue # <<>>
    /\ connection' = <<Head(commandQueue)>>
    /\ commandQueue' = Tail(commandQueue)
    /\ commandThread' = "recv"
    /\ UNCHANGED <<deployment, main, clientQueue, disk, connections, history>>

Listed(p, isDirectory) == Append(files, [path |-> p, is_directory |-> isDirectory])

\* fopen for writing: the file is listed, again if it was there.
CreateEmptyFile(p) ==
    IF Parent[p] \in Directories /\ fs[p] # "dir"
    THEN fs' = [fs EXCEPT ![p] = "file"] /\ files' = Listed(p, FALSE)
    ELSE UNCHANGED disk

CreateDirectory(p) ==
    IF Parent[p] \in Directories /\ fs[p] = "none"
    THEN fs' = [fs EXCEPT ![p] = "dir"] /\ files' = Listed(p, TRUE)
    ELSE UNCHANGED disk

\* Of the files listed, the first that has the name of p, in whatever
\* directory.
SameName(p) == {i \in DOMAIN files : /\ FileName[files[i].path] = FileName[p]
                                     /\ ~files[i].is_directory}
Unlisted(p) ==
    IF SameName(p) = {} THEN files
    ELSE RemoveAt(files, CHOOSE i \in SameName(p) : \A j \in SameName(p) : i <= j)

\* remove takes a file or an empty directory.
IsEmpty(p) == \A q \in Paths : Parent[q] = p => fs[q] = "none"
DeleteFile(p) ==
    IF fs[p] = "file" \/ (fs[p] = "dir" /\ IsEmpty(p))
    THEN fs' = [fs EXCEPT ![p] = "none"] /\ files' = Unlisted(p)
    ELSE UNCHANGED disk

BelowShallow(p) == {p}
\* p and everything in it, as the recursion finds them: what every set has that
\* has p in it, and with a directory all that is in it.
Below(p) ==
    {q \in Paths : \A S \in SUBSET Paths :
        p \in S /\ (\A r \in Paths : Parent[r] \in S => r \in S) => q \in S}

\* The list is left as it is.
DeleteDirectory(p) ==
    IF fs[p] = "dir"
    THEN /\ fs' = [q \in Paths |-> IF q \in Below(p) THEN "none" ELSE fs[q]]
         /\ UNCHANGED files
    ELSE UNCHANGED disk

Perform(command) ==
    CASE command.op = "CREATE_FILE" -> CreateEmptyFile(command.path)
      [] command.op = "DELETE_FILE" -> DeleteFile(command.path)
      [] command.op = "DELETE_DIR"  -> DeleteDirectory(command.path)
      [] command.op = "CREATE_DIR"  -> CreateDirectory(command.path)
      [] OTHER -> UNCHANGED disk    \* copies read; "FILE" is unknown

\* recv, and the command under file_mutex.
ReceiveCommand ==
    /\ commandThread = "recv" /\ connection # <<>>
    /\ Perform(Head(connection))
    /\ connection' = <<>>
    /\ executed' = IF Head(connection) \in Commands THEN Append(executed, Head(connection))
                   ELSE executed
    /\ UNCHANGED <<deployment, main, commandThread, queues, connections, received>>

\* The receiver of a copy is gone, and a send to it ends this server.
CopyKilled ==
    /\ commandThread = "recv" /\ connection # <<>>
    /\ Head(connection).op = "COPY"
    /\ Exit
    /\ UNCHANGED <<deployment, disk, connections, history>>

AfterDisconnectAccepting == commandThread' = "accept" /\ UNCHANGED commandQueue
\* The thread closes its listening socket and ends.
AfterDisconnect == commandThread' = "ended" /\ commandQueue' = <<>>

\* recv returns 0: the naming server has closed the connection.
Disconnected ==
    /\ commandThread = "recv" /\ connection = <<>>
    /\ AfterDisconnect
    /\ UNCHANGED <<deployment, main, clientQueue, connection, disk, connections, history>>

-----------------------------------------------------------------------------
(* connection_listener and its threads.  They do not take file_mutex.      *)

\* A command is not what they look for; a file is created, or the server
\* exits.
ServeConnection ==
    /\ main = "serving" /\ clientQueue # <<>>
    /\ LET message == Head(clientQueue)
       IN  IF message \notin Copies
           THEN /\ clientQueue' = Tail(clientQueue)
                /\ UNCHANGED <<main, commandThread, commandQueue, connection, fs, received>>
           ELSE IF Parent[message.path] \in Directories /\ fs[message.path] # "dir"
           THEN /\ clientQueue' = Tail(clientQueue)
                /\ fs' = [fs EXCEPT ![message.path] = "file"]
                /\ received' = TRUE
                /\ UNCHANGED <<main, commandThread, commandQueue, connection>>
           ELSE Exit /\ UNCHANGED <<fs, received>>
    /\ UNCHANGED <<deployment, files, connections, executed>>

-----------------------------------------------------------------------------

Next ==
    \/ Register \/ ListenForCommands \/ ListenForConnections
    \/ \E command \in Commands : SendCommand(command)
    \/ \E copy \in Copies : SendCopy(copy)
    \/ AcceptCommands \/ ReceiveCommand \/ CopyKilled \/ Disconnected
    \/ ServeConnection

Spec == Init /\ [][Next]_vars

-----------------------------------------------------------------------------
(* Properties.                                                             *)

\* Every variable has its type, and what exists is in a directory.
TypeOK ==
    /\ {nm_listener_port, client_port} \subseteq Ports /\ sameHost \in BOOLEAN
    /\ main \in {"started", "registered", "commands", "serving", "exited"}
    /\ commandThread \in {"none", "accept", "recv", "ended"}
    /\ \A queue \in {commandQueue, clientQueue, connection} :
          queue \in Seq(Commands \cup Copies)
    /\ Len(commandQueue) <= MaxQueue /\ Len(connection) <= 1
    /\ fs \in [Paths -> {"none", "file", "dir"}]
    /\ \A p \in Paths : fs[p] # "none" => Parent[p] \in Directories
    /\ files \in Seq([path : Paths, is_directory : BOOLEAN])
    /\ connections \in 0 .. MaxConnections
    /\ executed \in Seq(Commands) /\ received \in BOOLEAN

\* A storage server executes at most one command in its life: the naming
\* server closes each connection after one command, and the thread accepts one
\* connection only (init_storage_server.c:408, 430-433;
\* init_naming_server.c:386-390).
OneCommandInLife == Len(executed) <= 1

\* To those who send to it a storage server is one that serves the first message
\* to reach it while it listens and loses every other: the ones before, those
\* queued behind it and all later ones (init_storage_server.c:408, 430-512, 649).
Shot == INSTANCE OneShotServer WITH
    phase <- IF main \in {"started", "registered"} THEN "starting"
             ELSE IF commandThread = "accept" \/ connection # <<>> THEN "listening"
             ELSE "over",
    queue <- IF commandThread = "accept" \/ connection # <<>>
             THEN connection \o commandQueue ELSE <<>>

ServesFirstOnly == Shot!Spec

\* The list of files never names anything that is not there, although the
\* deletion of a directory leaves the entries below it and the deletion of a
\* file may take that of another: nothing is deleted after a creation
\* (init_storage_server.c:183-242).
ListedExist ==
    \A i \in DOMAIN files :
        fs[files[i].path] = IF files[i].is_directory THEN "dir" ELSE "file"

\* The threads of connection_listener change files without file_mutex.  They
\* never do so in a server that has executed, or has yet to execute, a command:
\* one port number decides which of the two a server is there for
\* (init_storage_server.c:362-390, 437; init_naming_server.c:375, 446).
NoUnlockedRace ==
    received => executed = <<>> /\ \A m \in Range(connection \o commandQueue) : m \notin Commands
=============================================================================
