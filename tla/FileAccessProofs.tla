-------------------------- MODULE FileAccessProofs --------------------------
(***************************************************************************)
(* Proofs about FileAccess, for any finite set of threads, any paths, any  *)
(* command words and any table size.                                       *)
(***************************************************************************)
EXTENDS FileAccess, FiniteSetTheorems, TLAPS

\* The used part of the table is a prefix without repetitions.
TableInv ==
    /\ \A i \in Slots : filepath[i] = None <=> i > num_files
    /\ \A i, j \in 1 .. num_files : filepath[i] = filepath[j] => i = j

\* What the program counter of a thread says of its command and its pointer.
ThreadInv ==
    \A t \in Threads :
        /\ pc[t] \in {"closed", "recv", "lookup"} => fa[t] = 0
        /\ pc[t] \in {"lookup", "acquire", "waitRead", "waitWrite", "release"}
              => req[t] \in Requests /\ (Reads(t) \/ Writes(t))
        /\ pc[t] \in {"acquire", "waitRead", "waitWrite", "release"} => fa[t] # 0
        /\ pc[t] = "waitRead" => Reads(t)
        /\ pc[t] = "waitWrite" => Writes(t)
        /\ fa[t] # 0 => /\ fa[t] <= num_files
                        /\ filepath[fa[t]] = req[t].path1
                        /\ Reads(t) \/ Writes(t)

\* A writer excludes readers.
Exclusive == \A i \in Slots : writers[i] = 1 => readers[i] = 0

IInv ==
    /\ TypeOK
    /\ TableInv
    /\ ThreadInv
    /\ UnlockedOnlyWhenFull
    /\ CountsExact
    /\ Exclusive
    /\ NoLostWakeup

-----------------------------------------------------------------------------

LEMMA InitInvariant == Init => IInv
<1> SUFFICES ASSUME Init PROVE IInv
    OBVIOUS
<1> USE DEF Init
<1>1. TypeOK
    BY MaxFilesAssumption DEF TypeOK, Slots, PCs
<1>2. TableInv
    BY MaxFilesAssumption, NoneAssumption DEF TableInv, Slots
<1>3. ThreadInv
    BY DEF ThreadInv
<1>4. UnlockedOnlyWhenFull
    BY DEF UnlockedOnlyWhenFull, Running
<1>5. \A i \in Slots : Readers(i) = {} /\ Writers(i) = {}
    BY DEF Readers, Writers, Holders
<1>6. CountsExact
    BY <1>5, FS_EmptySet DEF CountsExact
<1>7. Exclusive
    BY DEF Exclusive
<1>8. NoLostWakeup
    BY DEF NoLostWakeup, WaitingReaders, WaitingWriters
<1> QED
    BY <1>1, <1>2, <1>3, <1>4, <1>6, <1>7, <1>8 DEF IInv

\* A step that keeps the table, the counters and the set of lock holders keeps
\* the counting and the exclusion.
LEMMA SameHolders ==
    ASSUME CountsExact, Exclusive,
           UNCHANGED <<readers, writers>>,
           \A i \in Slots : Readers(i)' = Readers(i) /\ Writers(i)' = Writers(i)
    PROVE  CountsExact' /\ Exclusive'
BY DEF CountsExact, Exclusive

\* Paths do not repeat in the table, so no first entry means no entry.
LEMMA MissingMeansAbsent ==
    ASSUME TypeOK, TableInv, NEW p \in Paths, Missing(p)
    PROVE  \A i \in Slots : filepath[i] # p
<1> SUFFICES ASSUME NEW i \in Slots, filepath[i] = p
             PROVE  FALSE
    OBVIOUS
<1>1. i \in 1 .. num_files
    BY NoneAssumption DEF TableInv, TypeOK, Slots
<1>2. \A j \in 1 .. i - 1 : filepath[j] # p
    BY <1>1 DEF TableInv, TypeOK, Slots
<1> QED
    BY <1>1, <1>2 DEF Missing, IsEntryFor

LEMMA ConnectInvariant == ASSUME NEW t \in Threads, IInv, Connect(t) PROVE IInv'
<1> USE DEF IInv, Connect, Advance, table
<1>1. TypeOK'
    BY DEF TypeOK, PCs, Requests, Idle
<1>2. TableInv'
    BY DEF TableInv, TypeOK
<1>3. ThreadInv'
    BY DEF ThreadInv, TypeOK, Reads, Writes, Requests, Idle
<1>4. UnlockedOnlyWhenFull'
    BY DEF UnlockedOnlyWhenFull, ThreadInv, Running, TypeOK, Reads, Writes, Requests, Idle
<1>5. \A i \in Slots : Readers(i)' = Readers(i) /\ Writers(i)' = Writers(i)
    BY DEF Readers, Writers, Holders, TypeOK, ThreadInv, Reads, Writes, Slots
<1>6. CountsExact' /\ Exclusive'
    BY <1>5, SameHolders
<1>7. NoLostWakeup'
    BY DEF NoLostWakeup, WaitingReaders, WaitingWriters, TypeOK, ThreadInv, Reads, Writes
<1> QED
    BY <1>1, <1>2, <1>3, <1>4, <1>6, <1>7 DEF IInv

LEMMA DisconnectInvariant == ASSUME NEW t \in Threads, IInv, Disconnect(t) PROVE IInv'
<1> USE DEF IInv, Disconnect, Advance, table
<1>1. TypeOK'
    BY DEF TypeOK, PCs, Requests, Idle
<1>2. TableInv'
    BY DEF TableInv, TypeOK
<1>3. ThreadInv'
    BY DEF ThreadInv, TypeOK, Reads, Writes, Requests, Idle
<1>4. UnlockedOnlyWhenFull'
    BY DEF UnlockedOnlyWhenFull, ThreadInv, Running, TypeOK, Reads, Writes, Requests, Idle
<1>5. \A i \in Slots : Readers(i)' = Readers(i) /\ Writers(i)' = Writers(i)
    BY DEF Readers, Writers, Holders, TypeOK, ThreadInv, Reads, Writes, Slots
<1>6. CountsExact' /\ Exclusive'
    BY <1>5, SameHolders
<1>7. NoLostWakeup'
    BY DEF NoLostWakeup, WaitingReaders, WaitingWriters, TypeOK, ThreadInv, Reads, Writes
<1> QED
    BY <1>1, <1>2, <1>3, <1>4, <1>6, <1>7 DEF IInv

LEMMA WaitReadInvariant == ASSUME NEW t \in Threads, IInv, WaitRead(t) PROVE IInv'
<1> USE DEF IInv, WaitRead, Advance, table
<1>1. TypeOK'
    BY DEF TypeOK, PCs, Requests, Idle
<1>2. TableInv'
    BY DEF TableInv, TypeOK
<1>3. ThreadInv'
    BY DEF ThreadInv, TypeOK, Reads, Writes, Requests, Idle
<1>4. UnlockedOnlyWhenFull'
    BY DEF UnlockedOnlyWhenFull, ThreadInv, Running, TypeOK, Reads, Writes, Requests, Idle
<1>5. \A i \in Slots : Readers(i)' = Readers(i) /\ Writers(i)' = Writers(i)
    BY DEF Readers, Writers, Holders, TypeOK, ThreadInv, Reads, Writes, Slots
<1>6. CountsExact' /\ Exclusive'
    BY <1>5, SameHolders
<1>7. NoLostWakeup'
    <2>1. MustWaitRead(fa[t]) /\ fa[t] \in Slots
        BY DEF ThreadInv, TypeOK
    <2>2. \A i \in Slots : WaitingWriters(i)' = WaitingWriters(i)
        BY DEF WaitingWriters, TypeOK
    <2>3. \A i \in Slots \ {fa[t]} : WaitingReaders(i)' = WaitingReaders(i)
        BY DEF WaitingReaders, TypeOK
    <2>4. \A i \in Slots \ {fa[t]}, u \in Threads :
             pc[u] = "acquire" /\ fa[u] = i /\ Writes(u)
             => (pc[u] = "acquire" /\ fa[u] = i /\ Writes(u))'
        BY DEF TypeOK, Writes
    <2> QED
        BY <2>1, <2>2, <2>3, <2>4 DEF NoLostWakeup, MustWaitRead, TypeOK, WaitingReaders, WaitingWriters
<1> QED
    BY <1>1, <1>2, <1>3, <1>4, <1>6, <1>7 DEF IInv

LEMMA WaitWriteInvariant == ASSUME NEW t \in Threads, IInv, WaitWrite(t) PROVE IInv'
<1> USE DEF IInv, WaitWrite, Advance, table
<1>1. TypeOK'
    BY DEF TypeOK, PCs, Requests, Idle
<1>2. TableInv'
    BY DEF TableInv, TypeOK
<1>3. ThreadInv'
    BY DEF ThreadInv, TypeOK, Reads, Writes, Requests, Idle
<1>4. UnlockedOnlyWhenFull'
    BY DEF UnlockedOnlyWhenFull, ThreadInv, Running, TypeOK, Reads, Writes, Requests, Idle
<1>5. \A i \in Slots : Readers(i)' = Readers(i) /\ Writers(i)' = Writers(i)
    BY DEF Readers, Writers, Holders, TypeOK, ThreadInv, Reads, Writes, Slots
<1>6. CountsExact' /\ Exclusive'
    BY <1>5, SameHolders
<1>7. NoLostWakeup'
    <2>1. MustWaitWrite(fa[t]) /\ fa[t] \in Slots
        BY DEF ThreadInv, TypeOK
    <2>2. \A i \in Slots : WaitingReaders(i)' = WaitingReaders(i)
        BY DEF WaitingReaders, TypeOK
    <2>3. \A i \in Slots \ {fa[t]} : WaitingWriters(i)' = WaitingWriters(i)
        BY DEF WaitingWriters, TypeOK
    <2>4. \A i \in Slots \ {fa[t]}, u \in Threads :
             pc[u] = "acquire" /\ fa[u] = i /\ Writes(u)
             => (pc[u] = "acquire" /\ fa[u] = i /\ Writes(u))'
        BY DEF TypeOK, Writes
    <2> QED
        BY <2>1, <2>2, <2>3, <2>4 DEF NoLostWakeup, MustWaitWrite, TypeOK, WaitingReaders, WaitingWriters
<1> QED
    BY <1>1, <1>2, <1>3, <1>4, <1>6, <1>7 DEF IInv

LEMMA SpuriousWakeupInvariant == ASSUME NEW t \in Threads, IInv, SpuriousWakeup(t) PROVE IInv'
<1> USE DEF IInv, SpuriousWakeup, Advance, table
<1>1. TypeOK'
    BY DEF TypeOK, PCs, Requests, Idle
<1>2. TableInv'
    BY DEF TableInv, TypeOK
<1>3. ThreadInv'
    BY DEF ThreadInv, TypeOK, Reads, Writes, Requests, Idle
<1>4. UnlockedOnlyWhenFull'
    BY DEF UnlockedOnlyWhenFull, ThreadInv, Running, TypeOK, Reads, Writes, Requests, Idle
<1>5. \A i \in Slots : Readers(i)' = Readers(i) /\ Writers(i)' = Writers(i)
    BY DEF Readers, Writers, Holders, TypeOK, ThreadInv, Reads, Writes, Slots
<1>6. CountsExact' /\ Exclusive'
    BY <1>5, SameHolders
<1>7. NoLostWakeup'
    BY DEF NoLostWakeup, WaitingReaders, WaitingWriters, TypeOK, ThreadInv, Reads, Writes
<1> QED
    BY <1>1, <1>2, <1>3, <1>4, <1>6, <1>7 DEF IInv

LEMMA DispatchInvariant == ASSUME NEW t \in Threads, IInv, Dispatch(t) PROVE IInv'
<1> USE DEF IInv, Dispatch, Advance, table
<1>1. TypeOK'
    BY DEF TypeOK, PCs, Requests, Idle
<1>2. TableInv'
    BY DEF TableInv, TypeOK
<1>3. ThreadInv'
    <2>1. fa[t] # 0 => req[t] # Idle
        <3>1. Idle.cmd = ""
            BY DEF Idle
        <3>2. fa[t] # 0 => req[t].cmd # ""
            BY DEF ThreadInv, Reads, Writes, ReadLocked, WriteLocked
        <3> QED
            BY <3>1, <3>2
    <2>2. fa[t] # 0 => req[t] \in Requests
        BY <2>1 DEF TypeOK
    <2> QED
        BY <2>2 DEF ThreadInv, TypeOK, Reads, Writes
<1>4. UnlockedOnlyWhenFull'
    BY DEF UnlockedOnlyWhenFull, ThreadInv, Running, TypeOK, Reads, Writes, Requests, Idle
<1>5. \A i \in Slots : Readers(i)' = Readers(i) /\ Writers(i)' = Writers(i)
    BY DEF Readers, Writers, Holders, TypeOK, ThreadInv, Reads, Writes, Slots
<1>6. CountsExact' /\ Exclusive'
    BY <1>5, SameHolders
<1>7. NoLostWakeup'
    BY DEF NoLostWakeup, WaitingReaders, WaitingWriters, TypeOK, ThreadInv, Reads, Writes
<1> QED
    BY <1>1, <1>2, <1>3, <1>4, <1>6, <1>7 DEF IInv

LEMMA SendFinalAckInvariant == ASSUME NEW t \in Threads, IInv, SendFinalAck(t) PROVE IInv'
<1> USE DEF IInv, SendFinalAck, Advance, table
<1>1. TypeOK'
    BY DEF TypeOK, PCs, Requests, Idle
<1>2. TableInv'
    BY DEF TableInv, TypeOK
<1>3. ThreadInv'
    BY DEF ThreadInv, TypeOK, Reads, Writes, Requests, Idle
<1>4. UnlockedOnlyWhenFull'
    BY DEF UnlockedOnlyWhenFull, ThreadInv, Running, TypeOK, Reads, Writes, Requests, Idle
<1>5. \A i \in Slots : Readers(i)' = Readers(i) /\ Writers(i)' = Writers(i)
    BY DEF Readers, Writers, Holders, TypeOK, ThreadInv, Reads, Writes, Slots
<1>6. CountsExact' /\ Exclusive'
    BY <1>5, SameHolders
<1>7. NoLostWakeup'
    BY DEF NoLostWakeup, WaitingReaders, WaitingWriters, TypeOK, ThreadInv, Reads, Writes
<1> QED
    BY <1>1, <1>2, <1>3, <1>4, <1>6, <1>7 DEF IInv

LEMMA ReceiveInvariant == ASSUME NEW t \in Threads, IInv, Receive(t) PROVE IInv'
<1> USE DEF IInv, Receive, Advance, table
<1>1. TypeOK'
    <2>1. PICK r \in Requests :
             /\ req' = [req EXCEPT ![t] = r]
             /\ pc' = [u \in Threads |-> IF u = t
                         THEN IF r.cmd \in ReadLocked \cup WriteLocked
                              THEN "lookup" ELSE "dispatch"
                         ELSE pc[u]]
        OBVIOUS
    <2> QED
        BY <2>1 DEF TypeOK, PCs
<1>2. TableInv'
    BY DEF TableInv, TypeOK
<1>3. ThreadInv'
    BY ZenonT(40) DEF ThreadInv, TypeOK, Reads, Writes, Requests, Idle
<1>4. UnlockedOnlyWhenFull'
    BY DEF UnlockedOnlyWhenFull, Running, TypeOK, Reads, Writes
<1>5. \A i \in Slots : Readers(i)' = Readers(i) /\ Writers(i)' = Writers(i)
    BY DEF Readers, Writers, Holders, TypeOK, ThreadInv, Reads, Writes, Slots
<1>6. CountsExact' /\ Exclusive'
    BY <1>5, SameHolders
<1>7. NoLostWakeup'
    BY DEF NoLostWakeup, WaitingReaders, WaitingWriters, TypeOK, ThreadInv, Reads, Writes
<1> QED
    BY <1>1, <1>2, <1>3, <1>4, <1>6, <1>7 DEF IInv

LEMMA GetNullInvariant == ASSUME NEW t \in Threads, IInv, GetNull(t) PROVE IInv'
<1> USE DEF IInv, GetNull, Advance, table
<1>1. TypeOK'
    BY DEF TypeOK, PCs, Requests, Idle
<1>2. TableInv'
    BY DEF TableInv, TypeOK
<1>3. ThreadInv'
    BY DEF ThreadInv, TypeOK, Reads, Writes, Requests, Idle
<1>4. UnlockedOnlyWhenFull'
    <2>1. req[t].path1 \in Paths
        BY DEF ThreadInv, Requests
    <2>2. \A i \in Slots : filepath[i] # req[t].path1
        BY <2>1, MissingMeansAbsent
    <2> QED
        BY <2>2, MaxFilesAssumption DEF UnlockedOnlyWhenFull, HasRoom, Running, TypeOK, Reads, Writes
<1>5. \A i \in Slots : Readers(i)' = Readers(i) /\ Writers(i)' = Writers(i)
    BY DEF Readers, Writers, Holders, TypeOK, ThreadInv, Reads, Writes, Slots
<1>6. CountsExact' /\ Exclusive'
    BY <1>5, SameHolders
<1>7. NoLostWakeup'
    BY DEF NoLostWakeup, WaitingReaders, WaitingWriters, TypeOK, ThreadInv, Reads, Writes
<1> QED
    BY <1>1, <1>2, <1>3, <1>4, <1>6, <1>7 DEF IInv

LEMMA GetExistingInvariant == ASSUME NEW t \in Threads, IInv, GetExisting(t) PROVE IInv'
<1> USE DEF IInv, GetExisting, Advance, table
<1>1. TypeOK'
    BY DEF TypeOK, PCs, Requests, Idle
<1>2. TableInv'
    BY DEF TableInv, TypeOK
<1>3. ThreadInv'
    BY DEF ThreadInv, TypeOK, Reads, Writes, IsEntryFor, Slots
<1>4. UnlockedOnlyWhenFull'
    BY DEF UnlockedOnlyWhenFull, ThreadInv, Running, TypeOK, Reads, Writes, Requests, Idle
<1>5. \A i \in Slots : Readers(i)' = Readers(i) /\ Writers(i)' = Writers(i)
    BY DEF Readers, Writers, Holders, TypeOK, ThreadInv, Reads, Writes, Slots
<1>6. CountsExact' /\ Exclusive'
    BY <1>5, SameHolders
<1>7. NoLostWakeup'
    BY DEF NoLostWakeup, WaitingReaders, WaitingWriters, TypeOK, ThreadInv, Reads, Writes
<1> QED
    BY <1>1, <1>2, <1>3, <1>4, <1>6, <1>7 DEF IInv

LEMMA HoldersFinite ==
    \A i \in Slots : IsFiniteSet(Readers(i)) /\ IsFiniteSet(Writers(i))
BY ThreadsAssumption, FS_Subset DEF Readers, Writers, Holders

\* One word cannot be both a reading and a writing command.
LEMMA ReadsOrWrites == \A t \in Threads : ~(Reads(t) /\ Writes(t))
BY DEF Reads, Writes, ReadLocked, WriteLocked

LEMMA GetNewInvariant == ASSUME NEW t \in Threads, IInv, GetNew(t) PROVE IInv'
<1> USE DEF IInv, GetNew, Advance
<1> DEFINE n == num_files + 1
<1>1. n \in Slots /\ num_files \in Nat
    BY MaxFilesAssumption DEF HasRoom, TypeOK, Slots
<1>2. req[t].path1 \in Paths
    BY DEF ThreadInv, Requests
<1>3. TypeOK'
    BY <1>1, <1>2 DEF TypeOK, PCs, Slots
<1>4. TableInv'
    <2>1. \A i \in Slots : filepath[i] # req[t].path1
        BY <1>2, MissingMeansAbsent
    <2>2. /\ filepath' = [filepath EXCEPT ![n] = req[t].path1]
          /\ num_files' = n
          /\ req[t].path1 # None
        BY <1>2, NoneAssumption
    <2>3. \A i \in Slots : filepath'[i] = None <=> i > n
        BY <1>1, <2>2 DEF TableInv, TypeOK, Slots
    <2>4. \A i, j \in 1 .. n : filepath'[i] = filepath'[j] => i = j
        <3>1. filepath'[n] = req[t].path1
            BY <1>1, <2>2 DEF TypeOK
        <3>2. \A i \in 1 .. num_files : i \in Slots /\ i # n
            BY <1>1, MaxFilesAssumption DEF TypeOK, Slots
        <3>4. \A i \in 1 .. num_files : filepath'[i] = filepath[i]
            BY <2>2, <3>2 DEF TypeOK
        <3>3. \A i \in 1 .. n : i \in 1 .. num_files \/ i = n
            BY <1>1
        <3> QED
            BY <2>1, <3>1, <3>2, <3>4, <3>3 DEF TableInv
    <2> QED
        BY <2>2, <2>3, <2>4 DEF TableInv
<1>5. ThreadInv'
    BY <1>1 DEF ThreadInv, TypeOK, Reads, Writes, Slots
<1>6. UnlockedOnlyWhenFull'
    BY <1>1 DEF UnlockedOnlyWhenFull, Running, TypeOK, Reads, Writes, HasRoom
<1>7. \A u \in Threads : fa[u] # n
    BY <1>1 DEF ThreadInv, TypeOK, Slots
<1>8. \A i \in Slots : Readers(i)' = Readers(i) /\ Writers(i)' = Writers(i)
    BY <1>1 DEF Readers, Writers, Holders, TypeOK, ThreadInv, Reads, Writes
<1>9. Readers(n) = {} /\ Writers(n) = {}
    BY <1>7 DEF Readers, Writers, Holders
<1>10. CountsExact'
    BY <1>1, <1>8, <1>9, FS_EmptySet, ZenonT(40) DEF CountsExact, TypeOK
<1>11. Exclusive'
    BY <1>1 DEF Exclusive, TypeOK
<1>12. NoLostWakeup'
    <2>1. \A i \in Slots : /\ WaitingReaders(i)' = WaitingReaders(i)
                           /\ WaitingWriters(i)' = WaitingWriters(i)
        BY DEF WaitingReaders, WaitingWriters, TypeOK, ThreadInv
    <2>2. WaitingReaders(n) = {} /\ WaitingWriters(n) = {}
        BY <1>7 DEF WaitingReaders, WaitingWriters
    <2>3. \A i \in Slots, u \in Threads :
             pc[u] = "acquire" /\ fa[u] = i /\ Writes(u)
             => (pc[u] = "acquire" /\ fa[u] = i /\ Writes(u))'
        BY DEF TypeOK, Writes
    <2> QED
        BY <1>1, <2>1, <2>2, <2>3 DEF NoLostWakeup, TypeOK
<1> QED
    BY <1>3, <1>4, <1>5, <1>6, <1>10, <1>11, <1>12 DEF IInv

LEMMA AcquireReadInvariant ==
    ASSUME NEW t \in Threads, IInv, AcquireRead(t) PROVE IInv'
<1> USE DEF IInv, AcquireRead, Advance, table
<1> DEFINE s == fa[t]
<1>1. s \in Slots /\ s <= num_files /\ writers[s] = 0
    BY DEF ThreadInv, TypeOK, MustWaitRead
<1>2. TypeOK'
    BY <1>1 DEF TypeOK, PCs
<1>3. TableInv'
    BY DEF TableInv
<1>4. ThreadInv'
    BY DEF ThreadInv, TypeOK, Reads, Writes
<1>5. UnlockedOnlyWhenFull'
    BY <1>1 DEF UnlockedOnlyWhenFull, Running, TypeOK, Reads, Writes, Slots
<1>6. Readers(s)' = Readers(s) \cup {t} /\ t \notin Readers(s)
    BY <1>1 DEF Readers, Holders, TypeOK, Reads
<1>7. \A i \in Slots : Writers(i)' = Writers(i)
    BY <1>1, ReadsOrWrites DEF Writers, Holders, TypeOK, Writes
<1>8. \A i \in Slots \ {s} : Readers(i)' = Readers(i)
    BY <1>1 DEF Readers, Holders, TypeOK, Reads
<1>9. Cardinality(Readers(s)') = Cardinality(Readers(s)) + 1
    BY <1>1, <1>6, HoldersFinite, FS_AddElement
<1>10. CountsExact'
    BY <1>1, <1>7, <1>8, <1>9 DEF CountsExact, TypeOK
<1>11. Exclusive'
    BY <1>1 DEF Exclusive, TypeOK
<1>12. NoLostWakeup'
    <2>1. \A i \in Slots : /\ WaitingReaders(i)' = WaitingReaders(i)
                           /\ WaitingWriters(i)' = WaitingWriters(i)
        BY DEF WaitingReaders, WaitingWriters, TypeOK
    <2>2. \A i \in Slots, u \in Threads :
             pc[u] = "acquire" /\ fa[u] = i /\ Writes(u)
             => (pc[u] = "acquire" /\ fa[u] = i /\ Writes(u))'
        BY ReadsOrWrites DEF TypeOK, Writes
    <2>3. \A i \in Slots : readers[i] > 0 => readers'[i] > 0
        BY <1>1 DEF TypeOK
    <2> QED
        BY <2>1, <2>2, <2>3 DEF NoLostWakeup
<1> QED
    BY <1>2, <1>3, <1>4, <1>5, <1>10, <1>11, <1>12 DEF IInv

LEMMA AcquireWriteInvariant ==
    ASSUME NEW t \in Threads, IInv, AcquireWrite(t) PROVE IInv'
<1> USE DEF IInv, AcquireWrite, Advance, table
<1> DEFINE s == fa[t]
<1>1. s \in Slots /\ s <= num_files /\ writers[s] = 0 /\ readers[s] = 0
    BY DEF ThreadInv, TypeOK, MustWaitWrite
<1>2. TypeOK'
    BY <1>1 DEF TypeOK, PCs
<1>3. TableInv'
    BY DEF TableInv
<1>4. ThreadInv'
    BY DEF ThreadInv, TypeOK, Reads, Writes
<1>5. UnlockedOnlyWhenFull'
    BY <1>1 DEF UnlockedOnlyWhenFull, Running, TypeOK, Reads, Writes, Slots
<1>6. Writers(s)' = Writers(s) \cup {t} /\ t \notin Writers(s)
    BY <1>1 DEF Writers, Holders, TypeOK, Writes
<1>7. \A i \in Slots : Readers(i)' = Readers(i)
    BY <1>1, ReadsOrWrites DEF Readers, Holders, TypeOK, Reads
<1>8. \A i \in Slots \ {s} : Writers(i)' = Writers(i)
    BY <1>1 DEF Writers, Holders, TypeOK, Writes
<1>9. Cardinality(Writers(s)') = Cardinality(Writers(s)) + 1
    BY <1>1, <1>6, HoldersFinite, FS_AddElement
<1>10. CountsExact'
    BY <1>1, <1>7, <1>8, <1>9 DEF CountsExact, TypeOK
<1>11. Exclusive'
    BY <1>1 DEF Exclusive, TypeOK
<1>12. NoLostWakeup'
    <2>1. \A i \in Slots : /\ WaitingReaders(i)' = WaitingReaders(i)
                           /\ WaitingWriters(i)' = WaitingWriters(i)
        BY DEF WaitingReaders, WaitingWriters, TypeOK
    <2>2. \A i \in Slots \ {s}, u \in Threads :
             pc[u] = "acquire" /\ fa[u] = i /\ Writes(u)
             => (pc[u] = "acquire" /\ fa[u] = i /\ Writes(u))'
        BY DEF TypeOK, Writes
    <2>3. writers'[s] = 1 /\ \A i \in Slots \ {s} : writers'[i] = writers[i]
        BY <1>1 DEF TypeOK
    <2> QED
        BY <2>1, <2>2, <2>3 DEF NoLostWakeup
<1> QED
    BY <1>2, <1>3, <1>4, <1>5, <1>10, <1>11, <1>12 DEF IInv

\* The woken threads of a release were asleep on its entry.
LEMMA WokenAsleep ==
    ASSUME NEW i \in Slots
    PROVE  /\ \A w \in WokenByReader(i) : w \subseteq WaitingWriters(i)
           /\ \A w \in WokenByWriter(i) :
                 w \subseteq WaitingReaders(i) \cup WaitingWriters(i)
BY DEF WokenByReader, WokenByWriter, Signalled

LEMMA ReleaseReadInvariant ==
    ASSUME NEW t \in Threads, IInv, ReleaseRead(t) PROVE IInv'
<1> USE DEF IInv, ReleaseRead
<1> DEFINE s == fa[t]
<1>1. s \in Slots /\ s <= num_files
    BY DEF ThreadInv, TypeOK
<1>2. PICK woken \in WokenByReader(s) : Advance(t, "ack", woken)
    OBVIOUS
<1>3. /\ woken \subseteq WaitingWriters(s)
      /\ pc' = [u \in Threads |-> IF u = t THEN "ack"
                   ELSE IF u \in woken THEN "acquire" ELSE pc[u]]
    BY <1>1, <1>2, WokenAsleep DEF Advance
<1>4. \A u \in woken : pc[u] = "waitWrite" /\ fa[u] = s /\ Writes(u)
    BY <1>3 DEF WaitingWriters, ThreadInv
<1>5. t \in Readers(s)
    BY <1>1 DEF Readers, Holders
<1>6. Readers(s)' = Readers(s) \ {t}
    BY <1>1, <1>3, <1>4 DEF Readers, Holders, TypeOK, Reads, table
<1>7. \A i \in Slots : Writers(i)' = Writers(i)
    BY <1>1, <1>3, <1>4, ReadsOrWrites DEF Writers, Holders, TypeOK, Writes, table
<1>8. \A i \in Slots \ {s} : Readers(i)' = Readers(i)
    BY <1>1, <1>3, <1>4 DEF Readers, Holders, TypeOK, Reads, table
<1>9. /\ Cardinality(Readers(s)') = Cardinality(Readers(s)) - 1
      /\ Cardinality(Readers(s)') \in Nat
    BY <1>1, <1>5, <1>6, HoldersFinite, FS_RemoveElement, FS_CardinalityType
<1>10. readers[s] - 1 \in Nat /\ readers' = [readers EXCEPT ![s] = readers[s] - 1]
    BY <1>1, <1>9 DEF CountsExact, TypeOK
<1>11. TypeOK'
    BY <1>3, <1>10 DEF TypeOK, PCs, table
<1>12. TableInv'
    BY DEF TableInv, table
<1>13. ThreadInv'
    BY <1>3, <1>4 DEF ThreadInv, TypeOK, Reads, Writes, table
<1>14. UnlockedOnlyWhenFull'
    BY <1>3 DEF UnlockedOnlyWhenFull, Running, TypeOK, Reads, Writes, table
<1>15. CountsExact'
    BY <1>1, <1>7, <1>8, <1>9, <1>10 DEF CountsExact, TypeOK
<1>16. Exclusive'
    BY <1>1, <1>10 DEF Exclusive, TypeOK
<1>17. NoLostWakeup'
    <2>1. \A i \in Slots : WaitingReaders(i)' = WaitingReaders(i)
        BY <1>3, <1>4 DEF WaitingReaders, TypeOK
    <2>2. \A i \in Slots \ {s} : WaitingWriters(i)' = WaitingWriters(i)
        BY <1>3, <1>4 DEF WaitingWriters, TypeOK
    <2>3. \A i \in Slots, u \in Threads :
             pc[u] = "acquire" /\ fa[u] = i /\ Writes(u)
             => (pc[u] = "acquire" /\ fa[u] = i /\ Writes(u))'
        BY <1>3 DEF TypeOK, Writes
    <2>4. WaitingWriters(s)' \subseteq WaitingWriters(s)
        BY <1>3, <1>4 DEF WaitingWriters, TypeOK
    <2>5. CASE readers[s] = 1 /\ WaitingWriters(s) # {}
        <3>1. PICK u \in WaitingWriters(s) : woken = {u}
            BY <1>2, <2>5 DEF WokenByReader, Signalled
        <3>2. u \in Threads /\ (pc[u] = "acquire" /\ fa[u] = s /\ Writes(u))'
            BY <1>3, <1>4, <3>1 DEF WaitingWriters, TypeOK, Writes
        <3>3. \A i \in Slots \ {s} : readers'[i] = readers[i]
            BY <1>10 DEF TypeOK
        <3> QED
            BY <1>1, <2>1, <2>2, <2>3, <3>2, <3>3 DEF NoLostWakeup
    <2>6. CASE readers[s] # 1 \/ WaitingWriters(s) = {}
        <3>1. \A i \in Slots \ {s} : readers'[i] = readers[i]
            BY <1>10 DEF TypeOK
        <3>2. WaitingWriters(s)' # {} => readers'[s] > 0
            BY <1>1, <1>10, <2>4, <2>6 DEF TypeOK
        <3> QED
            BY <1>1, <2>1, <2>2, <2>3, <3>1, <3>2 DEF NoLostWakeup
    <2> QED
        BY <2>5, <2>6
<1> QED
    BY <1>11, <1>12, <1>13, <1>14, <1>15, <1>16, <1>17 DEF IInv

LEMMA ReleaseWriteInvariant ==
    ASSUME NEW t \in Threads, IInv, ReleaseWrite(t) PROVE IInv'
<1> USE DEF IInv, ReleaseWrite
<1> DEFINE s == fa[t]
<1>1. s \in Slots /\ s <= num_files
    BY DEF ThreadInv, TypeOK
<1>2. PICK woken \in WokenByWriter(s) : Advance(t, "ack", woken)
    OBVIOUS
<1>3. /\ woken \subseteq WaitingReaders(s) \cup WaitingWriters(s)
      /\ pc' = [u \in Threads |-> IF u = t THEN "ack"
                   ELSE IF u \in woken THEN "acquire" ELSE pc[u]]
    BY <1>1, <1>2, WokenAsleep DEF Advance
<1>4. \A u \in woken : /\ pc[u] \in {"waitRead", "waitWrite"}
                       /\ fa[u] = s
                       /\ Reads(u) \/ Writes(u)
    BY <1>3 DEF WaitingReaders, WaitingWriters, ThreadInv
<1>5. \A u \in Threads : (Writes(u)' <=> Writes(u)) /\ (Reads(u)' <=> Reads(u))
    BY DEF Writes, Reads
<1>6. /\ fa' = fa
      /\ \A u \in Threads : pc'[u] \in {"dispatch", "release"}
                            <=> u # t /\ pc[u] \in {"dispatch", "release"}
    <2>1. \A u \in woken : pc[u] \in {"waitRead", "waitWrite"}
        BY <1>3 DEF WaitingReaders, WaitingWriters
    <2>2. fa' = fa
        OBVIOUS
    <2> QED
        BY <1>3, <2>1, <2>2
<1>7. t \in Writers(s)
    BY <1>1 DEF Writers, Holders
<1>8. Writers(s)' = Writers(s) \ {t}
    BY <1>5, <1>6 DEF Writers, Holders
<1>9. \A i \in Slots : Readers(i)' = Readers(i)
    BY <1>1, <1>3, <1>4, ReadsOrWrites DEF Readers, Holders, TypeOK, Reads, table
<1>10. \A i \in Slots \ {s} : Writers(i)' = Writers(i)
    BY <1>5, <1>6 DEF Writers, Holders
<1>11. /\ Cardinality(Writers(s)') = Cardinality(Writers(s)) - 1
       /\ Cardinality(Writers(s)') \in Nat
    BY <1>1, <1>7, <1>8, HoldersFinite, FS_RemoveElement, FS_CardinalityType
<1>12. writers[s] = 1 /\ Cardinality(Writers(s)') = 0
    BY <1>1, <1>11 DEF CountsExact, TypeOK
<1>13. TypeOK'
    BY <1>3 DEF TypeOK, PCs, table
<1>14. TableInv'
    BY DEF TableInv, table
<1>15. ThreadInv'
    <2>1. /\ UNCHANGED <<fa, req, filepath, num_files>>
          /\ pc'[t] = "ack"
          /\ \A u \in Threads \ {t} :
                pc'[u] = pc[u] \/ (pc'[u] = "acquire" /\ u \in woken)
        BY <1>3 DEF TypeOK, table
    <2>2. \A u \in woken : fa[u] # 0 /\ req[u] \in Requests
        BY <1>1, <1>3, <1>4 DEF ThreadInv, WaitingReaders, WaitingWriters, Slots
    <2> QED
        BY <1>4, <1>5, <2>1, <2>2 DEF ThreadInv
<1>16. UnlockedOnlyWhenFull'
    BY <1>3 DEF UnlockedOnlyWhenFull, Running, TypeOK, Reads, Writes, table
<1>17. CountsExact'
    BY <1>1, <1>9, <1>10, <1>12 DEF CountsExact, TypeOK
<1>18. Exclusive'
    BY <1>1 DEF Exclusive, TypeOK
<1>19. NoLostWakeup'
    <2>1. \A i \in Slots \ {s} : /\ WaitingReaders(i)' = WaitingReaders(i)
                                 /\ WaitingWriters(i)' = WaitingWriters(i)
        BY <1>3, <1>4 DEF WaitingReaders, WaitingWriters, TypeOK
    <2>2. \A i \in Slots, u \in Threads :
             pc[u] = "acquire" /\ fa[u] = i /\ Writes(u)
             => (pc[u] = "acquire" /\ fa[u] = i /\ Writes(u))'
        BY <1>3 DEF TypeOK, Writes
    <2>3. \A i \in Slots \ {s} : writers'[i] = writers[i] /\ readers'[i] = readers[i]
        BY DEF TypeOK
    <2>4. PICK w \in Signalled(WaitingWriters(s)) : woken = WaitingReaders(s) \cup w
        BY <1>2 DEF WokenByWriter
    <2>5. WaitingReaders(s)' = {}
        BY <1>3, <2>4 DEF WaitingReaders, TypeOK
    <2>6. CASE WaitingWriters(s) = {}
        <3>1. WaitingWriters(s)' = {}
            BY <1>3, <2>6 DEF WaitingWriters, TypeOK
        <3> QED
            BY <1>1, <2>1, <2>2, <2>3, <2>5, <3>1 DEF NoLostWakeup
    <2>7. CASE WaitingWriters(s) # {}
        <3>1. PICK u \in WaitingWriters(s) : u \in woken
            BY <2>4, <2>7 DEF Signalled
        <3>2. u \in Threads /\ (pc[u] = "acquire" /\ fa[u] = s /\ Writes(u))'
            BY <1>3, <3>1 DEF WaitingWriters, TypeOK, Writes, ThreadInv
        <3> QED
            BY <1>1, <2>1, <2>2, <2>3, <2>5, <3>2 DEF NoLostWakeup
    <2> QED
        BY <2>6, <2>7
<1> QED
    BY <1>13, <1>14, <1>15, <1>16, <1>17, <1>18, <1>19 DEF IInv

-----------------------------------------------------------------------------

LEMMA NextInvariant == IInv /\ [Next]_vars => IInv'
<1> SUFFICES ASSUME IInv, [Next]_vars PROVE IInv'
    OBVIOUS
<1>1. CASE UNCHANGED vars
    <2> USE <1>1 DEF IInv, vars, Reads, Writes
    <2>1. TypeOK' /\ TableInv' /\ ThreadInv' /\ UnlockedOnlyWhenFull'
        BY DEF TypeOK, TableInv, ThreadInv, UnlockedOnlyWhenFull, Running
    <2>2. CountsExact' /\ Exclusive'
        BY DEF CountsExact, Exclusive, Readers, Writers, Holders
    <2>3. NoLostWakeup'
        BY DEF NoLostWakeup, WaitingReaders, WaitingWriters
    <2> QED
        BY <2>1, <2>2, <2>3
<1>2. CASE Next
    <2>1. PICK t \in Threads :
              \/ Connect(t) \/ Disconnect(t) \/ Receive(t)
              \/ Work(t) \/ SpuriousWakeup(t)
        BY <1>2 DEF Next
    <2> QED
        BY <2>1, ConnectInvariant, DisconnectInvariant, ReceiveInvariant,
           SpuriousWakeupInvariant, GetExistingInvariant, GetNewInvariant,
           GetNullInvariant, AcquireReadInvariant, WaitReadInvariant,
           AcquireWriteInvariant, WaitWriteInvariant, DispatchInvariant,
           ReleaseReadInvariant, ReleaseWriteInvariant, SendFinalAckInvariant
        DEF Work
<1> QED
    BY <1>1, <1>2

\* Every reachable state satisfies the inductive invariant.
THEOREM Invariance == Spec => []IInv
BY InitInvariant, NextInvariant, PTL DEF Spec

\* The variables keep their types: in particular a reader count never goes
\* below zero and writers is a flag.
THEOREM TypeCorrect == Spec => []TypeOK
BY Invariance, PTL DEF IInv

\* The counters of every entry equal the numbers of commands that hold it.
THEOREM CountsAreExact == Spec => []CountsExact
BY Invariance, PTL DEF IInv

\* A command goes without a lock only when the table is full of other paths.
THEOREM UnlockedOnlyWhenTableFull == Spec => []UnlockedOnlyWhenFull
BY Invariance, PTL DEF IInv

\* No release leaves a thread asleep that nobody will wake.
THEOREM WakeupsAreNotLost == Spec => []NoLostWakeup
BY Invariance, PTL DEF IInv

LEMMA InvariantExcludes == IInv => PathExclusion
<1> SUFFICES ASSUME IInv,
                    NEW t \in Threads, NEW u \in Threads, t # u,
                    Running(t), Running(u), req[t].path1 = req[u].path1,
                    Writes(t), Reads(u) \/ Writes(u)
             PROVE  fa[t] = 0 /\ fa[u] = 0
    BY DEF PathExclusion
<1> USE DEF IInv
<1>1. CASE fa[t] # 0 /\ fa[u] # 0
    <2>1. fa[t] = fa[u] /\ fa[t] \in Slots
        BY <1>1 DEF ThreadInv, TableInv, TypeOK, Slots
    <2>2. t \in Writers(fa[t])
        BY DEF Writers, Holders, Running
    <2>3. Cardinality(Writers(fa[t])) = 1 /\ writers[fa[t]] = 1
        <3>1. Cardinality(Writers(fa[t])) # 0
            BY <2>1, <2>2, HoldersFinite, FS_EmptySet
        <3> QED
            BY <2>1, <3>1 DEF CountsExact, TypeOK
    <2>4. CASE Writes(u)
        <3>1. u \in Writers(fa[t])
            BY <2>1, <2>4 DEF Writers, Holders, Running
        <3> QED
            BY <2>1, <2>2, <2>3, <3>1, HoldersFinite, FS_Singleton
    <2>5. CASE Reads(u)
        <3>1. u \in Readers(fa[t])
            BY <2>1, <2>5 DEF Readers, Holders, Running
        <3>2. Cardinality(Readers(fa[t])) # 0
            BY <2>1, <3>1, HoldersFinite, FS_EmptySet
        <3> QED
            BY <2>1, <2>3, <3>2 DEF CountsExact, Exclusive
    <2> QED
        BY <2>4, <2>5
<1>2. CASE fa[t] = 0 /\ fa[u] # 0
    BY <1>2 DEF UnlockedOnlyWhenFull, ThreadInv, TypeOK, Slots
<1>3. CASE fa[t] # 0 /\ fa[u] = 0
    BY <1>3 DEF UnlockedOnlyWhenFull, ThreadInv, TypeOK, Slots
<1> QED
    BY <1>1, <1>2, <1>3

\* A writing command never runs together with another locked command on the
\* same path, for any number of threads, paths and table entries.
THEOREM PathsAreExclusive == Spec => []PathExclusion
BY Invariance, InvariantExcludes, PTL

=============================================================================
