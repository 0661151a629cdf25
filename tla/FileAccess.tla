------------------------------ MODULE FileAccess ------------------------------
(***************************************************************************)
(* The per-path readers-writer locks of the naming server and the client   *)
(* handler threads that take them (src/init_naming_server.c: FileAccess,   *)
(* get_file_access, acquire_/release_ read/write lock, handle_client).     *)
(*                                                                         *)
(* Every critical section of files_mutex or of FileAccess.lock is one      *)
(* step.  pthread_cond_wait parks the thread in "waitRead" or "waitWrite"  *)
(* and a signal moves it back to "acquire", where it tests its condition   *)
(* again: that is the while loop of lines 101 and 119.  What a forwarded   *)
(* command does beyond this module is in module NamingServer.              *)
(*                                                                         *)
(* A definition whose name extends that of the one after it (IsEntryFor-   *)
(* SkippingLast, HasRoomOffByOne, ...) is a faulty variant of it that no   *)
(* action uses; PROJECT.json says which property tells the two apart.      *)
(***************************************************************************)
EXTENDS Naturals, FiniteSets

CONSTANTS
    Threads,    \* handler threads: one per connected client
    Paths,      \* the values of path1
    Commands,   \* the command words clients send
    MaxFiles,   \* MAX_CLIENTS, the size of file_accesses
    Spurious,   \* TRUE: pthread_cond_wait may return without a signal
    None        \* no path

ASSUME ThreadsAssumption == IsFiniteSet(Threads)
ASSUME MaxFilesAssumption == MaxFiles \in Nat \ {0}
ASSUME SpuriousAssumption == Spurious \in BOOLEAN
ASSUME NoneAssumption == None \notin Paths

VARIABLES
    filepath,   \* file_accesses[i].filepath
    readers,    \* file_accesses[i].readers
    writers,    \* file_accesses[i].writers
    num_files,
    pc,         \* where each handler thread is
    req,        \* the command the thread is working on
    fa          \* its FileAccess pointer, as an index; 0 is NULL

table == <<filepath, num_files>>
vars == <<filepath, readers, writers, num_files, pc, req, fa>>

Slots == 1 .. MaxFiles
Requests == [cmd : Commands, path1 : Paths]
Idle == [cmd |-> "", path1 |-> None]

PCs == {"closed", "recv", "lookup", "acquire", "waitRead", "waitWrite",
        "dispatch", "release", "ack"}

\* The command words the lock selection of handle_client compares with.
ReadLocked == {"READ"}
WriteLocked == {"WRITE", "CREATE_FILE"}

Reads(t) == req[t].cmd \in ReadLocked
Writes(t) == req[t].cmd \in WriteLocked

WaitingReaders(i) == {t \in Threads : pc[t] = "waitRead" /\ fa[t] = i}
WaitingWriters(i) == {t \in Threads : pc[t] = "waitWrite" /\ fa[t] = i}

\* pthread_cond_signal on a condition with these waiters: one of them, if any.
Signalled(waiters) == IF waiters = {} THEN {{}} ELSE {{u} : u \in waiters}

\* Thread t goes on to pc value "to" and the threads in woken recheck.
Advance(t, to, woken) ==
    pc' = [u \in Threads |-> IF u = t THEN to
                             ELSE IF u \in woken THEN "acquire" ELSE pc[u]]

Init ==
    /\ filepath = [i \in Slots |-> None]
    /\ readers = [i \in Slots |-> 0]
    /\ writers = [i \in Slots |-> 0]
    /\ num_files = 0
    /\ pc = [t \in Threads |-> "closed"]
    /\ req = [t \in Threads |-> Idle]
    /\ fa = [t \in Threads |-> 0]

-----------------------------------------------------------------------------
(* One handler thread.                                                     *)

\* A connection is accepted and its thread reaches the recv loop.
Connect(t) ==
    /\ pc[t] = "closed"
    /\ Advance(t, "recv", {})
    /\ UNCHANGED <<table, readers, writers, req, fa>>

\* recv returned 0 or an error: the loop ends and the socket is closed.
Disconnect(t) ==
    /\ pc[t] = "recv"
    /\ Advance(t, "closed", {})
    /\ UNCHANGED <<table, readers, writers, req, fa>>

\* A well-formed command arrives.  (A malformed one is answered with "Invalid
\* command format" and the thread is back at recv: a stuttering step.)
Receive(t) ==
    /\ pc[t] = "recv"
    /\ \E r \in Requests :
          /\ req' = [req EXCEPT ![t] = r]
          /\ Advance(t, IF r.cmd \in ReadLocked \cup WriteLocked
                        THEN "lookup" ELSE "dispatch", {})
    /\ UNCHANGED <<table, readers, writers, fa>>

\* get_file_access: the loop returns the first entry that has the path.
IsEntryForSkippingLast(i, p) == i \in 1 .. num_files - 1 /\ filepath[i] = p

IsEntryFor(i, p) ==
    /\ i \in 1 .. num_files
    /\ filepath[i] = p
    /\ \A j \in 1 .. i - 1 : filepath[j] # p

GetExisting(t) ==
    /\ pc[t] = "lookup"
    /\ \E i \in Slots :
          /\ IsEntryFor(i, req[t].path1)
          /\ fa' = [fa EXCEPT ![t] = i]
    /\ Advance(t, "acquire", {})
    /\ UNCHANGED <<table, readers, writers, req>>

Missing(p) == \A i \in Slots : ~IsEntryFor(i, p)

HasRoomOffByOne == num_files <= MaxFiles
HasRoom == num_files < MaxFiles

\* No entry: initialise the next one, with both counters zero.

GetNew(t) ==
    /\ pc[t] = "lookup"
    /\ Missing(req[t].path1)
    /\ HasRoom
    /\ num_files' = num_files + 1
    /\ filepath' = [filepath EXCEPT ![num_files + 1] = req[t].path1]
    /\ readers' = [readers EXCEPT ![num_files + 1] = 0]
    /\ writers' = [writers EXCEPT ![num_files + 1] = 0]
    /\ fa' = [fa EXCEPT ![t] = num_files + 1]
    /\ Advance(t, "acquire", {})
    /\ UNCHANGED req

\* The table is full: NULL comes back and the command runs without a lock.
GetNull(t) ==
    /\ pc[t] = "lookup"
    /\ Missing(req[t].path1)
    /\ ~HasRoom
    /\ Advance(t, "dispatch", {})
    /\ UNCHANGED <<table, readers, writers, req, fa>>

\* The conditions under which acquire_read_lock and acquire_write_lock wait.
MustWaitWriteIgnoringReaders(i) == writers[i] > 0
MustWaitWriteIgnoringWriters(i) == readers[i] > 0
MustWaitRead(i) == writers[i] > 0
MustWaitWrite(i) == writers[i] > 0 \/ readers[i] > 0

AcquireRead(t) ==
    /\ pc[t] = "acquire"
    /\ Reads(t)
    /\ ~MustWaitRead(fa[t])
    /\ readers' = [readers EXCEPT ![fa[t]] = @ + 1]
    /\ Advance(t, "dispatch", {})
    /\ UNCHANGED <<table, writers, req, fa>>

WaitRead(t) ==
    /\ pc[t] = "acquire"
    /\ Reads(t)
    /\ MustWaitRead(fa[t])
    /\ Advance(t, "waitRead", {})
    /\ UNCHANGED <<table, readers, writers, req, fa>>

AcquireWrite(t) ==
    /\ pc[t] = "acquire"
    /\ Writes(t)
    /\ ~MustWaitWrite(fa[t])
    /\ writers' = [writers EXCEPT ![fa[t]] = 1]
    /\ Advance(t, "dispatch", {})
    /\ UNCHANGED <<table, readers, req, fa>>

WaitWrite(t) ==
    /\ pc[t] = "acquire"
    /\ Writes(t)
    /\ MustWaitWrite(fa[t])
    /\ Advance(t, "waitWrite", {})
    /\ UNCHANGED <<table, readers, writers, req, fa>>

\* POSIX lets a condition wait return without a signal.
SpuriousWakeup(t) ==
    /\ Spurious
    /\ pc[t] \in {"waitRead", "waitWrite"}
    /\ Advance(t, "acquire", {})
    /\ UNCHANGED <<table, readers, writers, req, fa>>

\* The command is forwarded or answered with "Unknown command"; the lock is
\* released afterwards only by a thread whose fa is not NULL.
Dispatch(t) ==
    /\ pc[t] = "dispatch"
    /\ Advance(t, IF fa[t] # 0 THEN "release" ELSE "ack", {})
    /\ UNCHANGED <<table, readers, writers, req, fa>>

\* Whom release_read_lock wakes: a writer, when the last reader leaves.
WokenByReaderNobody(i) == {{}}
WokenByReader(i) == IF readers[i] = 1 THEN Signalled(WaitingWriters(i)) ELSE {{}}

ReleaseRead(t) ==
    /\ pc[t] = "release"
    /\ Reads(t)
    /\ readers' = [readers EXCEPT ![fa[t]] = @ - 1]
    /\ \E woken \in WokenByReader(fa[t]) : Advance(t, "ack", woken)
    /\ UNCHANGED <<table, writers, req, fa>>

\* Whom release_write_lock wakes: every waiting reader and one writer.
WokenByWriterReadersOnly(i) == {WaitingReaders(i)}
WokenByWriter(i) == {WaitingReaders(i) \cup w : w \in Signalled(WaitingWriters(i))}

ReleaseWrite(t) ==
    /\ pc[t] = "release"
    /\ Writes(t)
    /\ writers' = [writers EXCEPT ![fa[t]] = 0]
    /\ \E woken \in WokenByWriter(fa[t]) : Advance(t, "ack", woken)
    /\ UNCHANGED <<table, readers, req, fa>>

\* FINAL_ACK is sent and the loop starts over with fa = NULL.
SendFinalAck(t) ==
    /\ pc[t] = "ack"
    /\ req' = [req EXCEPT ![t] = Idle]
    /\ fa' = [fa EXCEPT ![t] = 0]
    /\ Advance(t, "recv", {})
    /\ UNCHANGED <<table, readers, writers>>

-----------------------------------------------------------------------------

\* The steps a thread takes on its own, without its client.
Work(t) ==
    \/ GetExisting(t) \/ GetNew(t) \/ GetNull(t)
    \/ AcquireRead(t) \/ WaitRead(t) \/ AcquireWrite(t) \/ WaitWrite(t)
    \/ Dispatch(t) \/ ReleaseRead(t) \/ ReleaseWrite(t) \/ SendFinalAck(t)

Next ==
    \E t \in Threads :
        Connect(t) \/ Disconnect(t) \/ Receive(t) \/ Work(t) \/ SpuriousWakeup(t)

Spec == Init /\ [][Next]_vars

\* A thread that can run is scheduled: nothing is assumed of the clients, nor
\* of the order in which runnable threads get a lock.
FairSpec == Spec /\ \A t \in Threads : WF_vars(Work(t))

-----------------------------------------------------------------------------
(* Properties.                                                             *)

\* Threads that run a command under the lock of entry i.
Holders(i) == {t \in Threads : pc[t] \in {"dispatch", "release"} /\ fa[t] = i}
Readers(i) == {t \in Holders(i) : Reads(t)}
Writers(i) == {t \in Holders(i) : Writes(t)}

TypeOK ==
    /\ filepath \in [Slots -> Paths \cup {None}]
    /\ readers \in [Slots -> Nat]
    /\ writers \in [Slots -> {0, 1}]
    /\ num_files \in 0 .. MaxFiles
    /\ pc \in [Threads -> PCs]
    /\ req \in [Threads -> Requests \cup {Idle}]
    /\ fa \in [Threads -> Slots \cup {0}]

Running(t) == pc[t] \in {"dispatch", "release"}

\* Two commands the lock selection knows never run together on one path when
\* one of them writes, whatever entries they were given and even once the
\* table is full, provided that one of the two was given a lock (lines 74-132
\* and 783-822).  In particular a locked and an unlocked command never meet.
PathExclusion ==
    \A t, u \in Threads :
        (/\ t # u
         /\ Running(t) /\ Running(u)
         /\ req[t].path1 = req[u].path1
         /\ Writes(t)
         /\ Reads(u) \/ Writes(u))
        => fa[t] = 0 /\ fa[u] = 0

\* A command that needs a lock runs without one only when the table is full of
\* other paths (lines 83-96).
UnlockedOnlyWhenFull ==
    \A t \in Threads :
        Running(t) /\ (Reads(t) \/ Writes(t)) /\ fa[t] = 0
        => num_files = MaxFiles /\ \A i \in Slots : filepath[i] # req[t].path1

\* The counters are the numbers of commands that hold the lock, so that no
\* command sequence leaks or loses a count (lines 104, 110, 122, 128).
CountsExact ==
    \A i \in Slots : /\ readers[i] = Cardinality(Readers(i))
                     /\ writers[i] = Cardinality(Writers(i))

\* No wakeup is lost: while a reader sleeps a writer holds the lock, and while
\* a writer sleeps the lock is held or a writer is already on its way to take
\* it (the signals of lines 112, 129 and 130 against the waits of 102, 120).
NoLostWakeup ==
    \A i \in Slots :
        /\ WaitingReaders(i) # {} => writers[i] = 1
        /\ WaitingWriters(i) # {} =>
              \/ writers[i] = 1
              \/ readers[i] > 0
              \/ \E t \in Threads : pc[t] = "acquire" /\ fa[t] = i /\ Writes(t)

\* If clients stop sending, every command that was waiting for a lock gets to
\* run: the handlers do not deadlock and do not leave a sleeper behind.
SomeReceive == \E t \in Threads : Receive(t)

EveryWaiterServed ==
    <>[][~SomeReceive]_vars =>
        \A t \in Threads :
            pc[t] \in {"acquire", "waitRead", "waitWrite"} ~> pc[t] = "dispatch"
=============================================================================
