------------------------------- MODULE Transfer -------------------------------
(***************************************************************************)
(* A directory is copied from one storage server to another                *)
(* (src/init_storage_server.c: copy_directory_to_remote,                   *)
(* copy_file_to_remote, send_file_data on the sending server,              *)
(* connection_listener, connection_handler, receive_file,                  *)
(* receive_directory on the receiving one).                                *)
(*                                                                         *)
(* Every directory and every file travels on a connection of its own,      *)
(* named here by what it was opened for, and the receiver has a thread per *)
(* connection: nothing orders the creation of a directory, announced on    *)
(* the connection of its parent, and of the files in it.  A connection is  *)
(* a stream: a recv takes one or more of the sends that have arrived, run  *)
(* together.  Messages and end markers are far shorter than a segment and  *)
(* not split; splitting a piece of a file makes no difference to the file. *)
(*                                                                         *)
(* Any call of the system that the programs test may fail, MaxFailures     *)
(* times in a copy, with the receiver running: socket, connect, opendir,   *)
(* fopen, mkdir, pthread_create.                                           *)
(*                                                                         *)
(* A definition whose name extends that of the one after it is a faulty    *)
(* variant of it that no action uses.                                      *)
(***************************************************************************)
EXTENDS Naturals, FiniteSets, SequencesExt

CONSTANTS
    Root,       \* the directory that is copied
    Dirs,       \* the directories in it
    Files,      \* the files in it; "EOF" does not occur in their text
    Parent,     \* the directory each of them is in
    Chunks,     \* the number of freads that it takes to send each file
    MaxFailures \* the number of failures of the system in a copy, at most

Entries == Dirs \cup Files
Conns == Entries \cup {Root}

ASSUME TreeAssumption ==
    /\ IsFiniteSet(Entries)
    /\ Root \notin Entries /\ Dirs \cap Files = {}
    /\ Parent \in [Entries -> Dirs \cup {Root}]
    /\ \A S \in SUBSET Entries : S # {} => \E e \in S : Parent[e] \notin S
    /\ Chunks \in [Files -> Nat]
    /\ {"DIR", "FILE", "EOF"} \cap Files = {}      \* messages are not pieces
    /\ MaxFailures \in Nat

\* What a send can put on a connection: "DIR <path>", "FILE <path>", a piece
\* of a file, "EOF".
DirMessage(d) == <<"DIR", d>>
FileMessage(f) == <<"FILE", f>>
Chunk(f, i) == <<f, i>>
EndMarker == <<"EOF", 0>>
Content(f) == [i \in 1 .. Chunks[f] |-> Chunk(f, i)]
Sent == {DirMessage(d) : d \in Dirs} \cup {FileMessage(f) : f \in Files}
        \cup (UNION {{Chunk(f, i) : i \in 1 .. Chunks[f]} : f \in Files})
        \cup {EndMarker}

Absent == <<"absent">>
Directory == <<"directory">>
File(data, complete) == <<"file", data, complete>>
IsFile(node) == node[1] = "file"

VARIABLES
    stack,      \* the directories being copied, innermost first: [dir, todo]
    sending,    \* the file being sent: [file, next] or NoFile
    sender,     \* "running", "done" or "killed"
    stream,     \* connection -> what was sent on it and not yet received
    open,       \* connections that the sender has open
    thread,     \* connection -> where the receiver's thread for it is
    fs,         \* the receiver's copy of each entry
    rootExists, \* whether the destination directory exists
    alive,      \* whether the receiver runs
    merged,     \* history: connections on which a recv took a message or an
                \* end marker together with other sends
    failed      \* history: what a call of the system failed for

senderVars == <<stack, sending, sender, open>>
receiverVars == <<thread, fs, rootExists, alive, merged>>
vars == <<senderVars, stream, receiverVars, failed>>

NoFile == [file |-> Root, next |-> 0]

\* A call of copy_directory_to_remote, with the entries readdir has still to
\* return.
ChildrenFilesOnly(d) == {f \in Files : Parent[f] = d}
Children(d) == {e \in Entries : Parent[e] = d}
Call(d) == [dir |-> d, todo |-> Children(d)]

Init ==
    /\ stack = <<Call(Root)>>
    /\ sending = NoFile
    /\ sender = "running"
    /\ stream = [c \in Conns |-> <<>>]
    /\ open = {}
    /\ thread = [c \in Conns |-> "none"]
    /\ fs = [e \in Entries |-> Absent]
    /\ rootExists \in BOOLEAN
    /\ alive = TRUE
    /\ merged = {}
    /\ failed = {}

-----------------------------------------------------------------------------
(* What the system does.                                                   *)

\* A call made for x fails, as it may while the receiver runs and must
\* afterwards if it is a connect.
Fails(x) ==
    IF alive
    THEN Cardinality(failed) < MaxFailures /\ failed' = failed \cup {x}
    ELSE UNCHANGED failed

Connect(c) ==
    /\ alive
    /\ thread' = [thread EXCEPT ![c] = "backlog"]
    /\ UNCHANGED <<fs, rootExists, alive, merged>>

NoConnection == UNCHANGED receiverVars

\* Nobody receives on connection c any more.
Gone(c) == ~alive \/ thread[c] = "dropped"

\* Then a send is still accepted, or fails, or ends the sender with SIGPIPE,
\* which nothing handles.
Send(c, message) ==
    IF Gone(c)
    THEN sender' \in {sender, "killed"} /\ UNCHANGED stream
    ELSE stream' = [stream EXCEPT ![c] = Append(@, message)] /\ UNCHANGED sender

-----------------------------------------------------------------------------
(* The sender.                                                             *)

Running == sender = "running" /\ stack # <<>> /\ sending = NoFile
Top == Head(stack)
WithoutTop(e) == <<[Top EXCEPT !.todo = @ \ {e}]>> \o Tail(stack)

Return ==
    /\ stack' = Tail(stack)
    /\ sender' = IF Len(stack) = 1 THEN "done" ELSE sender

\* A call begins with a connection and opendir; it returns if one of them fails.
ConnectForDirectory ==
    /\ Running /\ thread[Top.dir] = "none"
    /\ \/ /\ Connect(Top.dir)
          /\ open' = open \cup {Top.dir}
          /\ UNCHANGED <<stack, sender, failed>>
       \/ /\ Connect(Top.dir) \/ NoConnection
          /\ Fails(Top.dir)
          /\ Return
          /\ UNCHANGED open
    /\ UNCHANGED <<sending, stream>>

Listing == Running /\ thread[Top.dir] # "none"

\* readdir returns a subdirectory: it is announced on the connection of the
\* directory it is in, then copied by a call of its own.  The call returns,
\* without a close, if the announcement fails.
CopyDirectory(d) ==
    /\ Listing /\ d \in Top.todo \cap Dirs
    /\ \/ Send(Top.dir, DirMessage(d)) /\ stack' = <<Call(d)>> \o WithoutTop(d)
       \/ Gone(Top.dir) /\ Return /\ UNCHANGED stream
    /\ UNCHANGED <<sending, open, receiverVars, failed>>

\* readdir returns a file: "FILE <path>" opens a connection of its own.  If the
\* file cannot be opened the connection is closed, with nothing sent on it.
CopyFile(f) ==
    /\ Listing /\ f \in Top.todo \cap Files
    /\ Connect(f)
    /\ \/ /\ open' = open \cup {f}
          /\ stream' = [stream EXCEPT ![f] = <<FileMessage(f)>>]
          /\ sending' = [file |-> f, next |-> 1]
          /\ UNCHANGED failed
       \/ Fails(f) /\ UNCHANGED <<open, stream, sending>>
    /\ stack' = WithoutTop(f)
    /\ UNCHANGED sender

\* No connection to be had for a file: it is left out.
SkipFile(f) ==
    /\ Listing /\ f \in Top.todo \cap Files
    /\ NoConnection
    /\ Fails(f)
    /\ stack' = WithoutTop(f)
    /\ UNCHANGED <<sending, sender, open, stream>>

SendChunk ==
    /\ sender = "running" /\ sending # NoFile
    /\ sending.next <= Chunks[sending.file]
    /\ Send(sending.file, Chunk(sending.file, sending.next))
    /\ sending' = [sending EXCEPT !.next = @ + 1]
    /\ UNCHANGED <<stack, open, receiverVars, failed>>

SendEnd ==
    /\ sender = "running" /\ sending # NoFile
    /\ sending.next > Chunks[sending.file]
    /\ Send(sending.file, EndMarker)
    /\ open' = open \ {sending.file}
    /\ sending' = NoFile
    /\ UNCHANGED <<stack, receiverVars, failed>>

CloseDirectory ==
    /\ Listing /\ Top.todo = {}
    /\ open' = open \ {Top.dir}
    /\ Return
    /\ UNCHANGED <<sending, stream, receiverVars, failed>>

-----------------------------------------------------------------------------
(* The receiver.                                                           *)

Accept(c) ==
    /\ alive /\ thread[c] = "backlog"
    /\ thread' = [thread EXCEPT ![c] = "metadata"]
    /\ UNCHANGED <<senderVars, stream, fs, rootExists, alive, merged, failed>>

\* No thread is to be had for a connection: it is closed, with what has arrived.
AcceptNoThread(c) ==
    /\ alive /\ thread[c] = "backlog"
    /\ Fails(c)
    /\ thread' = [thread EXCEPT ![c] = "dropped"]
    /\ stream' = [stream EXCEPT ![c] = <<>>]
    /\ UNCHANGED <<senderVars, fs, rootExists, alive, merged>>

ParentExists(e) == IF Parent[e] = Root THEN rootExists ELSE fs[Parent[e]] = Directory

\* recv takes the first k sends that have arrived on connection c.
Receive(c, k) ==
    /\ k \in 1 .. Len(stream[c])
    /\ stream' = [stream EXCEPT ![c] = SubSeq(@, k + 1, Len(@))]
    /\ merged' = IF k > 1 /\ \E i \in 1 .. k : stream[c][i][1] \notin Files
                 THEN merged \cup {c} ELSE merged

MadeDirAnywhere(c, k) ==
    LET d == Head(stream[c])[2]
    IN  IF k = 1 /\ fs[d] = Absent THEN [fs EXCEPT ![d] = Directory] ELSE fs
\* "DIR <path>" alone: mkdir, which fails without a parent.  Announcements
\* that run together name a path below a directory that does not exist.
MadeDir(c, k) ==
    LET d == Head(stream[c])[2]
    IN  IF k = 1 /\ ParentExists(d) /\ fs[d] = Absent
        THEN [fs EXCEPT ![d] = Directory] ELSE fs

ReceiveDirectory(c) ==
    /\ alive /\ thread[c] = "metadata" /\ c \notin Files
    /\ \E k \in 1 .. Len(stream[c]) :
          /\ Receive(c, k)
          /\ \/ fs' = MadeDir(c, k) /\ UNCHANGED failed
             \/ k = 1 /\ Fails(Head(stream[c])[2]) /\ UNCHANGED fs
    /\ UNCHANGED <<senderVars, thread, rootExists, alive>>

\* "FILE <path>": the file is created, or the receiver exits.
ReceiveFile(f) ==
    /\ alive /\ f \in Files /\ thread[f] = "metadata"
    /\ Receive(f, 1)
    /\ \/ /\ ParentExists(f)
          /\ fs' = [fs EXCEPT ![f] = File(<<>>, FALSE)]
          /\ thread' = [thread EXCEPT ![f] = "file"]
          /\ UNCHANGED <<alive, failed>>
       \/ /\ IF ParentExists(f) THEN Fails(f) ELSE UNCHANGED failed
          /\ alive' = FALSE
          /\ UNCHANGED <<fs, thread>>
    /\ UNCHANGED <<senderVars, rootExists>>

\* "FILE <path>" together with text or the end marker: that becomes part of the
\* path, and a file of another name is created or the receiver exits.
ReceiveFileMerged(f) ==
    /\ alive /\ f \in Files /\ thread[f] = "metadata"
    /\ \E k \in 2 .. Len(stream[f]) : Receive(f, k)
    /\ \/ ParentExists(f) /\ thread' = [thread EXCEPT ![f] = "other"] /\ UNCHANGED alive
       \/ alive' = FALSE /\ UNCHANGED thread
    /\ UNCHANGED <<senderVars, fs, rootExists, failed>>

IsEndContained(received) == Last(received) = EndMarker
IsEnd(received) == received = <<EndMarker>>

Written(data, received) == data \o received

\* The loop of receive_file.  After the end marker the file is closed and the
\* thread waits for metadata again, which never comes.
ReceiveData(f) ==
    /\ alive /\ f \in Files /\ thread[f] \in {"file", "other"}
    /\ \E k \in 1 .. Len(stream[f]) :
          LET received == SubSeq(stream[f], 1, k)
          IN  /\ Receive(f, k)
              /\ thread' = [thread EXCEPT ![f] =
                               IF IsEnd(received) THEN "ended" ELSE @]
              /\ fs' = IF thread[f] = "other" THEN fs
                       ELSE [fs EXCEPT ![f] =
                                IF IsEnd(received) THEN File(@[2], TRUE)
                                ELSE File(Written(@[2], received), FALSE)]
    /\ UNCHANGED <<senderVars, rootExists, alive, failed>>

-----------------------------------------------------------------------------

Sender ==
    \/ ConnectForDirectory \/ SendChunk \/ SendEnd \/ CloseDirectory
    \/ \E d \in Dirs : CopyDirectory(d)
    \/ \E f \in Files : CopyFile(f) \/ SkipFile(f)

Receiver(c) ==
    \/ Accept(c) \/ AcceptNoThread(c) \/ ReceiveDirectory(c)
    \/ ReceiveFile(c) \/ ReceiveFileMerged(c) \/ ReceiveData(c)

Next == Sender \/ \E c \in Conns : Receiver(c)

Spec == Init /\ [][Next]_vars

\* Both programs are scheduled, and what was sent to a running one arrives.
FairSpec == Spec /\ WF_vars(Sender) /\ \A c \in Conns : WF_vars(Receiver(c))

-----------------------------------------------------------------------------
(* Properties.                                                             *)

\* Every variable has its type, and what exists has a directory to exist in.
TypeOK ==
    /\ stack \in Seq([dir : Dirs \cup {Root}, todo : SUBSET Entries])
    /\ sending = NoFile \/ (sending.file \in Files /\ sending.next \in Nat \ {0})
    /\ sender \in {"running", "done", "killed"}
    /\ stream \in [Conns -> Seq(Sent)]
    /\ open \subseteq Conns
    /\ thread \in [Conns -> {"none", "backlog", "metadata", "file", "other", "ended",
                           "dropped"}]
    /\ rootExists \in BOOLEAN /\ alive \in BOOLEAN
    /\ merged \subseteq Conns /\ failed \subseteq Conns
    /\ \A d \in Dirs : fs[d] \in {Absent, Directory}
    /\ \A f \in Files : fs[f] = Absent \/ (IsFile(fs[f]) /\ fs[f][2] \in Seq(Sent))
    /\ \A e \in Entries : fs[e] # Absent => ParentExists(e)

\* Whatever the recvs take at a time, a file of the copy never holds anything
\* but the beginning of what it was copied from, possibly the whole of it and
\* the end marker; and one that the receiver reports as transferred and closes
\* is whole (init_storage_server.c:371-386).
FilesArePrefixes ==
    \A f \in Files : IsFile(fs[f]) =>
        /\ IsPrefix(fs[f][2], Content(f) \o <<EndMarker>>)
        /\ fs[f][3] => fs[f][2] = Content(f)

\* The copy is over: nothing is left to be sent or received.
Quiescent ==
    /\ sender = "done" /\ alive
    /\ \A c \in Conns : stream[c] = <<>> /\ thread[c] # "backlog"

\* The set and all that is in a directory in it.
Within(set) ==
    {e \in Conns : \A S \in SUBSET Conns :
        set \subseteq S /\ (\A x \in Entries : Parent[x] \in S => x \in S) => e \in S}

\* What a failure leaves out.  The failure is reported on the terminal of one of
\* the programs and nowhere else.
LeftOut == Within(failed)

\* When the copy is over and the receiver has survived it, every file is there,
\* whole and closed, except what a failure leaves out and those whose name or
\* end marker was received together with something else: no race between the
\* connections loses one (init_storage_server.c:523-541, 371-386).
FilesWhole == \A f \in Files \ (merged \cup LeftOut) : fs[f] = File(Content(f), TRUE)

\* Then the directories that may be missing, other than those, are the ones
\* without a file sent for them that are not directly in the one copied: a
\* thread may be told to make such a directory before another has made the
\* directory it is in, and receive_directory goes on
\* (init_storage_server.c:391-400).
DirectoriesMade ==
    \A d \in Dirs \ LeftOut :
        \/ fs[d] = Directory \/ Parent[d] \in merged
        \/ Parent[d] # Root /\ \A f \in Files \ LeftOut : Parent[f] # d

\* A failure costs a copy what it was met for and nothing next to it, and
\* nothing else is lost by a copy that is over but what was run together and
\* empty directories (init_storage_server.c:245-357, 391-400).
OnlyExplainedLosses ==
    Quiescent => FilesWhole /\ (rootExists => DirectoriesMade)

\* The copy ends, in one of the ways there are: all files are there but those
\* that a failure leaves out, one of the programs is gone, or some recv has run
\* a message into the next send (init_storage_server.c:245-357, 513-575).
EveryFileArrives ==
    <>(\/ \A f \in Files : fs[f] = File(Content(f), TRUE) \/ f \in LeftOut
       \/ ~alive \/ sender = "killed" \/ merged # {})
=============================================================================
