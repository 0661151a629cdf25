-------------------------- MODULE StorageServerProofs --------------------------
(***************************************************************************)
(* A storage server executes one command, or receives copies, or neither:  *)
(* for all port numbers, any paths on its disk and any number of           *)
(* connections.                                                            *)
(***************************************************************************)
EXTENDS StorageServer, TLAPS

\* The life of the thread for commands: before it has a connection nothing was
\* executed, and what is to be received will be the first command.
LifeOfThread ==
    /\ executed = <<>> \/ \E command \in Commands : executed = <<command>>
    /\ main \in {"started", "registered"}
       => executed = <<>> /\ connection = <<>> /\ commandThread = "none"
    /\ commandThread = "accept" => executed = <<>> /\ connection = <<>>
    /\ connection # <<>> => executed = <<>>

\* The two ports of a running server differ, and a connection got to where it
\* is because that port is NamingPort.
PortDecides ==
    /\ main = "serving" => client_port # nm_listener_port
    /\ commandQueue # <<>> \/ connection # <<>> \/ executed # <<>>
       => nm_listener_port = NamingPort
    /\ clientQueue # <<>> \/ received
       => client_port = NamingPort /\ nm_listener_port # NamingPort

IInv == LifeOfThread /\ PortDecides

-----------------------------------------------------------------------------

LEMMA InitInvariant == Init => IInv
BY DEF Init, IInv, LifeOfThread, PortDecides

LEMMA ExitInvariant ==
    ASSUME IInv, Exit, UNCHANGED <<deployment, executed, received>>
    PROVE  IInv'
BY DEF IInv, LifeOfThread, PortDecides, Exit, deployment

\* A connection is queued only where its port leads.
LEMMA DeliverPortDecides ==
    ASSUME IInv, NEW message, Deliver(NamingPort, message),
           UNCHANGED <<deployment, main, connection, executed, received>>
    PROVE  PortDecides'
<1> USE DEF IInv, PortDecides, deployment
<1>1. CASE /\ Reaches(NamingPort, "commands")
           /\ UNCHANGED clientQueue
    BY <1>1 DEF Reaches
<1>2. CASE /\ Reaches(NamingPort, "client")
           /\ UNCHANGED commandQueue
    BY <1>2 DEF Reaches, Listens
<1>3. CASE UNCHANGED queues
    BY <1>3 DEF queues
<1> QED
    BY <1>1, <1>2, <1>3 DEF Deliver

LEMMA SendInvariant ==
    ASSUME IInv, NEW message,
           SendCommand(message) \/ SendCopy(message)
    PROVE  IInv'
<1>1. /\ Deliver(NamingPort, message)
      /\ UNCHANGED <<deployment, main, commandThread, connection, executed, received>>
    BY DEF SendCommand, SendCopy, CommandPort, CopyPort, history
<1>2. PortDecides'
    BY <1>1, DeliverPortDecides
<1>3. LifeOfThread'
    BY <1>1 DEF IInv, LifeOfThread
<1> QED
    BY <1>2, <1>3 DEF IInv

LEMMA MainInvariant ==
    ASSUME IInv, Register \/ ListenForCommands \/ ListenForConnections
    PROVE  IInv'
<1>1. CASE Register
    BY <1>1 DEF Register, IInv, LifeOfThread, PortDecides, deployment, queues, history
<1>2. CASE ListenForCommands
    <2>1. CASE Exit
        BY <1>2, <2>1, ExitInvariant DEF ListenForCommands, history
    <2>2. CASE ~Exit
        <3>1. /\ main = "registered" /\ main' = "commands" /\ commandThread' = "accept"
              /\ UNCHANGED <<deployment, queues, connection, history>>
            BY <1>2, <2>2 DEF ListenForCommands
        <3>2. connection = <<>>
            BY <3>1 DEF IInv, LifeOfThread
        <3> QED
            BY <3>1, <3>2 DEF IInv, LifeOfThread, PortDecides, deployment, queues, history
    <2> QED
        BY <2>1, <2>2
<1>3. CASE ListenForConnections
    <2>1. CASE Exit
        BY <1>3, <2>1, ExitInvariant DEF ListenForConnections, history
    <2>2. CASE ~Exit
        BY <1>3, <2>2 DEF ListenForConnections, IInv, LifeOfThread, PortDecides,
                          deployment, queues, history
    <2> QED
        BY <2>1, <2>2
<1> QED
    BY <1>1, <1>2, <1>3

LEMMA ThreadInvariant ==
    ASSUME IInv, AcceptCommands \/ ReceiveCommand \/ CopyKilled \/ Disconnected
    PROVE  IInv'
<1> USE DEF IInv, LifeOfThread, PortDecides, deployment, queues, history
<1>1. CASE AcceptCommands
    BY <1>1 DEF AcceptCommands
<1>2. CASE ReceiveCommand
    BY <1>2 DEF ReceiveCommand
<1>3. CASE CopyKilled
    BY <1>3, ExitInvariant DEF CopyKilled
<1>4. CASE Disconnected
    BY <1>4 DEF Disconnected, AfterDisconnect
<1> QED
    BY <1>1, <1>2, <1>3, <1>4

LEMMA ServeInvariant == ASSUME IInv, ServeConnection PROVE IInv'
<1>1. /\ clientQueue # <<>>
      /\ UNCHANGED <<deployment, executed>>
      /\ \/ Exit
         \/ UNCHANGED <<main, commandThread, commandQueue, connection>>
    BY DEF ServeConnection
<1> QED
    BY <1>1 DEF Exit, IInv, LifeOfThread, PortDecides, deployment

LEMMA NextInvariant == IInv /\ [Next]_vars => IInv'
<1> SUFFICES ASSUME IInv, [Next]_vars PROVE IInv'
    OBVIOUS
<1>1. CASE UNCHANGED vars
    BY <1>1 DEF vars, deployment, queues, history, IInv, LifeOfThread, PortDecides
<1>2. CASE Next
    BY <1>2, MainInvariant, SendInvariant, ThreadInvariant, ServeInvariant DEF Next
<1> QED
    BY <1>1, <1>2

\* A storage server executes a first command only from the connection it
\* accepted, and the port decides whether it has one.
THEOREM Invariance == Spec => []IInv
BY InitInvariant, NextInvariant, PTL DEF Spec

\* However many commands the naming server sends to it, a storage server
\* executes one at most.
THEOREM OneCommandOnly == Spec => []OneCommandInLife
<1>1. ASSUME IInv PROVE OneCommandInLife
    <2>1. CASE executed = <<>>
        BY <2>1 DEF OneCommandInLife
    <2>2. ASSUME NEW command \in Commands, executed = <<command>>
          PROVE  OneCommandInLife
        <3>1. Len(<<command>>) = 1
            OBVIOUS
        <3> QED
            BY <2>2, <3>1 DEF OneCommandInLife
    <2> QED
        BY <1>1, <2>1, <2>2 DEF IInv, LifeOfThread
<1> QED
    BY <1>1, Invariance, PTL

\* A server that has received a file has no command executed or on its way to
\* its thread, whatever the ports.
THEOREM ReceivingRunsAlone == Spec => []NoUnlockedRace
<1>1. ASSUME IInv PROVE NoUnlockedRace
    <2> SUFFICES ASSUME received
                 PROVE  /\ executed = <<>>
                        /\ \A m \in Range(connection \o commandQueue) : m \notin Commands
        BY DEF NoUnlockedRace
    <2>1. executed = <<>> /\ connection = <<>> /\ commandQueue = <<>>
        BY <1>1 DEF IInv, PortDecides
    <2>2. Range(connection \o commandQueue) = {}
        BY <2>1 DEF Range
    <2> QED
        BY <2>1, <2>2
<1> QED
    BY <1>1, Invariance, PTL

-----------------------------------------------------------------------------
(* A storage server implements OneShotServer.                              *)

Messages == Commands \cup Copies

\* The thread has at most one message before it, and only while it receives.
ThreadQueues ==
    /\ commandQueue \in Seq(Messages)
    /\ connection = <<>> \/ \E message \in Messages : connection = <<message>>
    /\ connection # <<>> => commandThread = "recv"
    /\ main \in {"started", "registered"} => commandQueue = <<>>

LEMMA DeliverQueues ==
    ASSUME commandQueue \in Seq(Messages), NEW message \in Messages, NEW port,
           Deliver(port, message)
    PROVE  /\ commandQueue' \in Seq(Messages)
           /\ \/ UNCHANGED commandQueue
              \/ /\ Reaches(port, "commands")
                 /\ commandQueue' = Append(commandQueue, message)
BY DEF Deliver, queues

LEMMA QueuesInit == Init => ThreadQueues
BY DEF Init, ThreadQueues

LEMMA QueuesNext == ThreadQueues /\ IInv /\ [Next]_vars => ThreadQueues'
<1> SUFFICES ASSUME ThreadQueues, IInv, [Next]_vars PROVE ThreadQueues'
    OBVIOUS
<1> USE DEF ThreadQueues, queues
<1>e. ASSUME Exit PROVE ThreadQueues'
    BY <1>e DEF Exit
<1>1. CASE UNCHANGED vars
    BY <1>1 DEF vars
<1>2. CASE Register
    BY <1>2 DEF Register
<1>3. CASE ListenForCommands
    BY <1>3, <1>e DEF ListenForCommands, IInv, LifeOfThread
<1>4. CASE ListenForConnections
    BY <1>4, <1>e DEF ListenForConnections
<1>5. ASSUME NEW message \in Messages, NEW port, Deliver(port, message),
             UNCHANGED <<main, commandThread, connection>>
      PROVE  ThreadQueues'
    BY <1>5, DeliverQueues DEF IInv, LifeOfThread, Reaches, Listens
<1>6. ASSUME NEW command \in Commands, SendCommand(command) PROVE ThreadQueues'
    BY <1>5, <1>6 DEF SendCommand, Messages
<1>7. ASSUME NEW copy \in Copies, SendCopy(copy) PROVE ThreadQueues'
    BY <1>5, <1>7 DEF SendCopy, Messages
<1>8. CASE AcceptCommands
    BY <1>8 DEF AcceptCommands
<1>9. CASE ReceiveCommand
    BY <1>9 DEF ReceiveCommand
<1>10. CASE CopyKilled
    BY <1>10, <1>e DEF CopyKilled
<1>11. CASE Disconnected
    BY <1>11 DEF Disconnected, AfterDisconnect
<1>12. CASE ServeConnection
    BY <1>12, <1>e DEF ServeConnection
<1> QED
    BY <1>1, <1>2, <1>3, <1>4, <1>6, <1>7, <1>8, <1>9, <1>10, <1>11, <1>12 DEF Next

\* The state a storage server maps to.
Phase == IF main \in {"started", "registered"} THEN "starting"
         ELSE IF commandThread = "accept" \/ connection # <<>> THEN "listening"
         ELSE "over"
Queue == IF commandThread = "accept" \/ connection # <<>>
         THEN connection \o commandQueue ELSE <<>>

\* A program that exits is over, if it was not before.
LEMMA ExitRefines ==
    ASSUME IInv, ThreadQueues, Exit, UNCHANGED executed
    PROVE  Shot!Fail \/ UNCHANGED Shot!vars
<1>1. Phase' = "over" /\ Queue' = <<>>
    BY DEF Exit, Phase, Queue
<1>2. CASE Phase = "over"
    <2>1. Queue = <<>>
        BY <1>2 DEF Phase, Queue, IInv, LifeOfThread
    <2> QED
        BY <1>1, <1>2, <2>1 DEF Phase, Queue, Shot!vars
<1>3. CASE Phase # "over"
    BY <1>1, <1>3 DEF Phase, Queue, Shot!Fail
<1> QED
    BY <1>2, <1>3

\* A message arrives, or is lost, or is queued where nobody will look for it.
LEMMA DeliverRefines ==
    ASSUME IInv, ThreadQueues, NEW message \in Messages, NEW port,
           Deliver(port, message),
           UNCHANGED <<main, commandThread, connection, executed>>
    PROVE  Shot!Arrive(message) \/ UNCHANGED Shot!vars
<1>1. Phase' = Phase
    BY DEF Phase
<1>2. CASE UNCHANGED commandQueue \/ Phase # "listening"
    <2>1. Queue' = Queue
        BY <1>2 DEF Phase, Queue, IInv, LifeOfThread
    <2> QED
        BY <1>1, <2>1 DEF Phase, Queue, Shot!vars
<1>3. CASE commandQueue' = Append(commandQueue, message) /\ Phase = "listening"
    <2>1. connection \in Seq(Messages) /\ commandQueue \in Seq(Messages)
        <3>1. commandQueue \in Seq(Messages)
            BY DEF ThreadQueues
        <3>2. CASE connection = <<>>
            BY <3>1, <3>2
        <3>3. ASSUME NEW m \in Messages, connection = <<m>>
              PROVE  connection \in Seq(Messages)
            BY <3>3
        <3> QED
            BY <3>1, <3>2, <3>3 DEF ThreadQueues
    <2>2. Queue = connection \o commandQueue
          /\ Queue' = connection \o Append(commandQueue, message)
        BY <1>3 DEF Phase, Queue
    <2>3. Queue' = Append(Queue, message)
        BY <2>1, <2>2
    <2> QED
        BY <1>1, <1>3, <2>3 DEF Phase, Queue, Shot!Arrive
<1> QED
    BY <1>2, <1>3, DeliverQueues DEF ThreadQueues

LEMMA StepRefines ==
    ASSUME IInv, ThreadQueues, [Next]_vars PROVE [Shot!Next]_Shot!vars
<1> USE DEF queues, history
<1>1. CASE UNCHANGED vars
    BY <1>1 DEF vars, Shot!vars
<1>2. CASE Register
    BY <1>2 DEF Register, Shot!vars
<1>3. CASE ListenForCommands
    <2>1. CASE Exit
        BY <1>3, <2>1, ExitRefines DEF ListenForCommands, Shot!Next
    <2>2. CASE main' = "commands" /\ commandThread' = "accept"
               /\ UNCHANGED <<queues, connection>>
        <3>1. /\ main = "registered" /\ connection = <<>> /\ commandThread = "none"
              /\ UNCHANGED executed
            BY <1>3 DEF ListenForCommands, IInv, LifeOfThread
        <3>2. commandQueue = <<>>
            BY <3>1 DEF ThreadQueues
        <3> QED
            BY <2>2, <3>1, <3>2 DEF Shot!Listen, Shot!Next
    <2> QED
        BY <1>3, <2>1, <2>2 DEF ListenForCommands
<1>4. CASE ListenForConnections
    <2>1. CASE Exit
        BY <1>4, <2>1, ExitRefines DEF ListenForConnections, Shot!Next
    <2>2. CASE ~Exit
        BY <1>4, <2>2 DEF ListenForConnections, Shot!vars
    <2> QED
        BY <2>1, <2>2
<1>5. ASSUME NEW command \in Commands, SendCommand(command)
      PROVE  [Shot!Next]_Shot!vars
    BY <1>5, DeliverRefines DEF SendCommand, Messages, Shot!Next
<1>6. ASSUME NEW copy \in Copies, SendCopy(copy)
      PROVE  [Shot!Next]_Shot!vars
    BY <1>6, DeliverRefines DEF SendCopy, Messages, Shot!Next
<1>7. CASE AcceptCommands
    <2>1. /\ commandThread = "accept" /\ commandThread' = "recv"
          /\ connection = <<>> /\ connection' = <<Head(commandQueue)>>
          /\ commandQueue # <<>> /\ commandQueue' = Tail(commandQueue)
          /\ UNCHANGED <<main, executed>>
        BY <1>7 DEF AcceptCommands, IInv, LifeOfThread
    <2>2. commandQueue \in Seq(Messages)
        BY DEF ThreadQueues
    <2>3. <<Head(commandQueue)>> \o Tail(commandQueue) = <<>> \o commandQueue
        BY <2>1, <2>2
    <2> QED
        BY <2>1, <2>3 DEF Shot!vars
<1>8. CASE ReceiveCommand
    <2>1. /\ commandThread = "recv" /\ connection # <<>> /\ connection' = <<>>
          /\ executed' = IF Head(connection) \in Commands
                         THEN Append(executed, Head(connection)) ELSE executed
          /\ UNCHANGED <<main, commandThread, commandQueue>>
        BY <1>8 DEF ReceiveCommand
    <2>2. PICK message \in Messages : connection = <<message>>
        BY <2>1 DEF ThreadQueues
    <2>3. commandQueue \in Seq(Messages)
        BY DEF ThreadQueues
    <2>4. /\ connection \o commandQueue # <<>>
          /\ Head(connection \o commandQueue) = Head(connection)
        BY <2>2, <2>3
    <2>5. main \notin {"started", "registered"}
        BY <2>1 DEF IInv, LifeOfThread
    <2> QED
        BY <2>1, <2>4, <2>5 DEF Shot!Serve, Shot!Next
<1>9. CASE CopyKilled
    BY <1>9, ExitRefines DEF CopyKilled, Shot!Next
<1>10. CASE Disconnected
    BY <1>10 DEF Disconnected, AfterDisconnect, Shot!vars
<1>11. CASE ServeConnection
    <2>1. UNCHANGED executed /\ (Exit \/ UNCHANGED <<main, commandThread, commandQueue, connection>>)
        BY <1>11 DEF ServeConnection
    <2> QED
        BY <2>1, ExitRefines DEF Shot!Next, Shot!vars
<1> QED
    BY <1>1, <1>2, <1>3, <1>4, <1>5, <1>6, <1>7, <1>8, <1>9, <1>10, <1>11 DEF Next

\* A storage server is, to those who send to it, one that serves the first
\* message that reaches it while it listens, and loses all others.
THEOREM ServesFirst == Spec => ServesFirstOnly
<1>1. Init => Shot!Init
    BY DEF Init, Shot!Init
<1>2. IInv /\ ThreadQueues /\ [Next]_vars => [Shot!Next]_Shot!vars
    BY StepRefines
<1> QED
    BY <1>1, <1>2, Invariance, QueuesInit, QueuesNext, PTL
    DEF Spec, ServesFirstOnly, Shot!Spec

-----------------------------------------------------------------------------
(* The disk and the list of files.                                         *)

\* The list is as long as the creations executed, of which there is one.
DiskInv ==
    /\ fs \in [Paths -> {"none", "file", "dir"}]
    /\ \A p \in Paths : fs[p] # "none" => Parent[p] \in Directories
    /\ executed = <<>> => files = <<>>
    /\ \/ files = <<>>
       \/ \E p \in Paths, b \in BOOLEAN :
             /\ files = <<[path |-> p, is_directory |-> b]>>
             /\ fs[p] = IF b THEN "dir" ELSE "file"

RestInv ==
    /\ {nm_listener_port, client_port} \subseteq Ports /\ sameHost \in BOOLEAN
    /\ main \in {"started", "registered", "commands", "serving", "exited"}
    /\ commandThread \in {"none", "accept", "recv", "ended"}
    /\ clientQueue \in Seq(Messages)
    /\ Len(commandQueue) <= MaxQueue
    /\ connections \in 0 .. MaxConnections
    /\ received \in BOOLEAN

LEMMA DeleteKeepsTree ==
    ASSUME NEW p \in Paths,
           fs \in [Paths -> {"none", "file", "dir"}],
           \A q \in Paths : fs[q] # "none" => Parent[q] \in Directories,
           DeleteFile(p) \/ DeleteDirectory(p)
    PROVE  /\ fs' \in [Paths -> {"none", "file", "dir"}]
           /\ \A q \in Paths : fs'[q] # "none" => Parent[q] \in Directories'
<1>1. Root \notin Paths /\ \A q \in Paths : Parent[q] \in Paths \cup {Root}
    BY StorageServerAssumption
<1>2. CASE UNCHANGED disk
    BY <1>2 DEF disk, Directories
<1>3. CASE /\ fs[p] = "file" \/ (fs[p] = "dir" /\ IsEmpty(p))
           /\ fs' = [fs EXCEPT ![p] = "none"]
    <2>1. \A q \in Paths : fs[q] # "none" => Parent[q] # p
        BY <1>1, <1>3 DEF IsEmpty, Directories
    <2> QED
        BY <1>1, <1>3, <2>1 DEF Directories
<1>4. CASE fs' = [q \in Paths |-> IF q \in Below(p) THEN "none" ELSE fs[q]]
    <2>1. \A q \in Paths : Parent[q] \in Below(p) => q \in Below(p)
        BY DEF Below
    <2> QED
        BY <1>1, <1>4, <2>1 DEF Directories
<1> QED
    BY <1>2, <1>3, <1>4 DEF DeleteFile, DeleteDirectory

\* Files and directories that come to be have a directory to be in.
LEMMA CreateKeepsTree ==
    ASSUME NEW p \in Paths, NEW kind \in {"file", "dir"},
           fs \in [Paths -> {"none", "file", "dir"}],
           \A q \in Paths : fs[q] # "none" => Parent[q] \in Directories,
           Parent[p] \in Directories, fs[p] # "dir",
           fs' = [fs EXCEPT ![p] = kind]
    PROVE  /\ fs' \in [Paths -> {"none", "file", "dir"}]
           /\ \A q \in Paths : fs'[q] # "none" => Parent[q] \in Directories'
<1>1. Root \notin Paths
    BY StorageServerAssumption
<1>2. \A x \in Directories : x \in Directories'
    BY <1>1 DEF Directories
<1> QED
    BY <1>2

\* The first command finds the list empty.
LEMMA PerformDisk ==
    ASSUME DiskInv, executed = <<>>, NEW command \in Messages, Perform(command)
    PROVE  /\ fs' \in [Paths -> {"none", "file", "dir"}]
           /\ \A p \in Paths : fs'[p] # "none" => Parent[p] \in Directories'
           /\ command \notin Commands => files' = <<>>
           /\ \/ files' = <<>>
              \/ \E p \in Paths, b \in BOOLEAN :
                    /\ files' = <<[path |-> p, is_directory |-> b]>>
                    /\ fs'[p] = IF b THEN "dir" ELSE "file"
<1> DEFINE p == command.path
<1>1. p \in Paths /\ (command.op = "FILE" \/ command.op \in Operations)
    BY DEF Messages, Commands, Copies
<1>2. command \notin Commands => command.op = "FILE"
    BY DEF Messages, Commands, Copies
<1>3. files = <<>>
    BY DEF DiskInv
<1>4. CASE UNCHANGED disk
    BY <1>3, <1>4 DEF disk, DiskInv, Directories
<1>5. CASE command.op = "CREATE_FILE"
    <2>1. CASE /\ Parent[p] \in Directories /\ fs[p] # "dir"
               /\ fs' = [fs EXCEPT ![p] = "file"] /\ files' = Listed(p, FALSE)
        <3>1. files' = <<[path |-> p, is_directory |-> FALSE]>>
            BY <1>3, <2>1 DEF Listed
        <3>2. fs'[p] = "file"
            BY <1>1, <2>1 DEF DiskInv
        <3> QED
            BY <1>1, <1>2, <1>5, <2>1, <3>1, <3>2, CreateKeepsTree DEF DiskInv
    <2> QED
        BY <1>4, <1>5, <2>1 DEF Perform, CreateEmptyFile
<1>6. CASE command.op = "CREATE_DIR"
    <2>1. CASE /\ Parent[p] \in Directories /\ fs[p] = "none"
               /\ fs' = [fs EXCEPT ![p] = "dir"] /\ files' = Listed(p, TRUE)
        <3>1. files' = <<[path |-> p, is_directory |-> TRUE]>>
            BY <1>3, <2>1 DEF Listed
        <3>2. fs'[p] = "dir"
            BY <1>1, <2>1 DEF DiskInv
        <3> QED
            BY <1>1, <1>2, <1>6, <2>1, <3>1, <3>2, CreateKeepsTree DEF DiskInv
    <2> QED
        BY <1>4, <1>6, <2>1 DEF Perform, CreateDirectory
<1>7. CASE DeleteFile(p) \/ DeleteDirectory(p)
    <2>1. SameName(p) = {}
        BY <1>3 DEF SameName
    <2>2. files' = <<>>
        BY <1>3, <1>7, <2>1 DEF DeleteFile, DeleteDirectory, Unlisted, disk
    <2> QED
        BY <1>1, <1>7, <2>2, DeleteKeepsTree DEF DiskInv
<1> QED
    BY <1>1, <1>4, <1>5, <1>6, <1>7 DEF Perform, Operations

LEMMA OneAtMost ==
    ASSUME NEW S, NEW s, s = <<>> \/ \E x \in S : s = <<x>>
    PROVE  s \in Seq(S) /\ Len(s) <= 1
<1>1. CASE s = <<>>
    BY <1>1
<1>2. ASSUME NEW x \in S, s = <<x>> PROVE s \in Seq(S) /\ Len(s) <= 1
    <2>1. <<x>> \in Seq(S) /\ Len(<<x>>) = 1
        OBVIOUS
    <2> QED
        BY <1>2, <2>1
<1> QED
    BY <1>1, <1>2

LEMMA DiskInit == Init => DiskInv /\ RestInv
<1>1. Init => DiskInv
    BY DEF Init, DiskInv, Directories
<1>2. Init => RestInv
    <2>1. MaxQueue \in Nat /\ MaxConnections \in Nat
        BY StorageServerAssumption
    <2>2. <<>> \in Seq(Messages) /\ Len(<<>>) <= MaxQueue /\ 0 \in 0 .. MaxConnections
        BY <2>1
    <2> QED
        BY <2>2 DEF Init, RestInv
<1> QED
    BY <1>1, <1>2

LEMMA DiskNext == DiskInv /\ ThreadQueues /\ IInv /\ [Next]_vars => DiskInv'
<1> SUFFICES ASSUME DiskInv, ThreadQueues, IInv, [Next]_vars PROVE DiskInv'
    OBVIOUS
<1>1. CASE UNCHANGED disk /\ UNCHANGED executed
    BY <1>1 DEF DiskInv, disk, Directories
<1>2. CASE ReceiveCommand
    <2>1. executed = <<>>
        BY <1>2 DEF ReceiveCommand, IInv, LifeOfThread
    <2>2. PICK message \in Messages : connection = <<message>>
        BY <1>2 DEF ReceiveCommand, ThreadQueues
    <2>3. /\ Perform(message)
          /\ executed' = IF message \in Commands THEN <<message>> ELSE <<>>
        BY <1>2, <2>1, <2>2 DEF ReceiveCommand
    <2>4. message \in Commands => executed' # <<>>
        BY <2>3
    <2> QED
        BY <2>1, <2>3, <2>4, PerformDisk DEF DiskInv
<1>3. CASE ServeConnection
    <2>1. clientQueue # <<>> /\ UNCHANGED <<files, executed>>
        BY <1>3 DEF ServeConnection
    <2>2. executed = <<>> /\ files = <<>>
        BY <2>1 DEF IInv, PortDecides, DiskInv
    <2>3. CASE UNCHANGED fs
        BY <1>1, <2>1, <2>3 DEF disk
    <2>4. CASE /\ Head(clientQueue) \in Copies
               /\ Parent[Head(clientQueue).path] \in Directories
               /\ fs[Head(clientQueue).path] # "dir"
               /\ fs' = [fs EXCEPT ![Head(clientQueue).path] = "file"]
        <3>1. Head(clientQueue).path \in Paths
            BY <2>4 DEF Copies
        <3> QED
            BY <2>1, <2>2, <2>4, <3>1, CreateKeepsTree DEF DiskInv
    <2> QED
        BY <1>3, <2>3, <2>4 DEF ServeConnection
<1>4. ASSUME Next, ~ReceiveCommand, ~ServeConnection PROVE UNCHANGED disk /\ UNCHANGED executed
    BY <1>4 DEF Next, Register, ListenForCommands, ListenForConnections, SendCommand, SendCopy,
                AcceptCommands, CopyKilled, Disconnected, history, disk
<1> QED
    BY <1>1, <1>2, <1>3, <1>4 DEF vars, history

LEMMA RestNext == RestInv /\ ThreadQueues /\ [Next]_vars => RestInv'
<1> SUFFICES ASSUME RestInv, ThreadQueues, [Next]_vars PROVE RestInv'
    OBVIOUS
<1>1. MaxQueue \in Nat /\ MaxConnections \in Nat
    BY StorageServerAssumption
<1> USE <1>1 DEF RestInv, deployment, queues, history
<1>e. ASSUME Exit, UNCHANGED <<deployment, connections, received>> PROVE RestInv'
    BY <1>e DEF Exit
<1>2. CASE UNCHANGED vars
    BY <1>2 DEF vars
<1>3. CASE Register
    BY <1>3 DEF Register
<1>4. CASE ListenForCommands
    BY <1>4, <1>e DEF ListenForCommands
<1>5. CASE ListenForConnections
    BY <1>5, <1>e DEF ListenForConnections
<1>6. ASSUME NEW message \in Messages, NEW port, Deliver(port, message)
      PROVE  clientQueue' \in Seq(Messages) /\ Len(commandQueue') <= MaxQueue
    <2>1. CASE /\ Len(commandQueue) < MaxQueue /\ commandQueue' = Append(commandQueue, message)
               /\ UNCHANGED clientQueue
        <3>1. commandQueue \in Seq(Messages)
            BY DEF ThreadQueues
        <3>2. Len(commandQueue) \in Nat /\ Len(commandQueue') = Len(commandQueue) + 1
            BY <2>1, <3>1
        <3>3. Len(commandQueue') <= MaxQueue
            BY <2>1, <3>2
        <3> QED
            BY <2>1, <3>3
    <2>2. CASE UNCHANGED commandQueue
        BY <1>6, <2>2 DEF Deliver
    <2> QED
        BY <1>6, <2>1, <2>2 DEF Deliver
<1>7. ASSUME connections < MaxConnections, connections' = connections + 1
      PROVE  connections' \in 0 .. MaxConnections
    BY <1>7
<1>8. ASSUME NEW command \in Commands, SendCommand(command) PROVE RestInv'
    BY <1>6, <1>7, <1>8 DEF SendCommand, Messages
<1>9. ASSUME NEW copy \in Copies, SendCopy(copy) PROVE RestInv'
    BY <1>6, <1>7, <1>9 DEF SendCopy, Messages
<1>10. CASE AcceptCommands
    <2>1. commandQueue \in Seq(Messages) /\ commandQueue # <<>>
        BY <1>10 DEF AcceptCommands, ThreadQueues
    <2>2. Len(Tail(commandQueue)) <= MaxQueue
        BY <2>1
    <2> QED
        BY <1>10, <2>2 DEF AcceptCommands
<1>11. CASE ReceiveCommand
    BY <1>11 DEF ReceiveCommand
<1>12. CASE CopyKilled
    BY <1>12, <1>e DEF CopyKilled
<1>13. CASE Disconnected
    BY <1>13 DEF Disconnected, AfterDisconnect
<1>14. CASE ServeConnection
    <2>1. CASE Exit
        BY <1>14, <2>1 DEF ServeConnection, Exit
    <2>2. CASE /\ clientQueue' = Tail(clientQueue) /\ received' \in {received, TRUE}
               /\ UNCHANGED <<main, commandThread, commandQueue>>
        <3>1. Tail(clientQueue) \in Seq(Messages)
            BY <1>14 DEF ServeConnection
        <3> QED
            BY <1>14, <2>2, <3>1 DEF ServeConnection
    <2> QED
        BY <1>14, <2>1, <2>2 DEF ServeConnection
<1> QED
    BY <1>2, <1>3, <1>4, <1>5, <1>8, <1>9, <1>10, <1>11, <1>12, <1>13, <1>14 DEF Next

\* Every variable has its type, and every entry of the disk a directory to be in.
THEOREM TypeInvariance == Spec => []TypeOK
<1>1. IInv /\ ThreadQueues /\ DiskInv /\ RestInv => TypeOK
    <2> SUFFICES ASSUME IInv, ThreadQueues, DiskInv, RestInv PROVE TypeOK
        OBVIOUS
    <2>1. /\ connection \in Seq(Messages) /\ Len(connection) <= 1
          /\ commandQueue \in Seq(Messages) /\ clientQueue \in Seq(Messages)
        BY OneAtMost DEF ThreadQueues, RestInv
    <2>2. files \in Seq([path : Paths, is_directory : BOOLEAN])
        <3>1. \A p \in Paths, b \in BOOLEAN :
                 [path |-> p, is_directory |-> b] \in [path : Paths, is_directory : BOOLEAN]
            OBVIOUS
        <3>2. files = <<>> \/ \E x \in [path : Paths, is_directory : BOOLEAN] : files = <<x>>
            BY <3>1 DEF DiskInv
        <3> QED
            BY <3>2, OneAtMost
    <2>3. executed \in Seq(Commands)
        BY OneAtMost DEF IInv, LifeOfThread
    <2> QED
        BY <2>1, <2>2, <2>3 DEF TypeOK, DiskInv, RestInv, Messages
<1> QED
    BY <1>1, Invariance, QueuesInit, QueuesNext, DiskInit, DiskNext, RestNext, PTL DEF Spec

\* The list of files names only what is there, whatever was on the disk and
\* whatever command was executed: the deletions that would break it come alone.
THEOREM ListedFilesExist == Spec => []ListedExist
<1>1. DiskInv => ListedExist
    <2> SUFFICES ASSUME DiskInv, NEW i \in DOMAIN files
                 PROVE  fs[files[i].path] = IF files[i].is_directory THEN "dir" ELSE "file"
        BY DEF ListedExist
    <2>1. PICK p \in Paths, b \in BOOLEAN :
             /\ files = <<[path |-> p, is_directory |-> b]>>
             /\ fs[p] = IF b THEN "dir" ELSE "file"
        BY DEF DiskInv
    <2>2. files[i] = [path |-> p, is_directory |-> b]
        BY <2>1
    <2> QED
        BY <2>1, <2>2
<1> QED
    BY <1>1, Invariance, QueuesInit, QueuesNext, DiskInit, DiskNext, PTL DEF Spec
=============================================================================
