---------------------------- MODULE TransferProofs ----------------------------
(***************************************************************************)
(* What a copy leaves on the receiving storage server, for any tree of     *)
(* directories and files of any length, and for any cuts of the streams.   *)
(***************************************************************************)
EXTENDS Transfer, FiniteSetTheorems, SequenceTheorems, TLAPS

Frames == [dir : Dirs \cup {Root}, todo : SUBSET Entries]

\* The entries the sender has come to.
Visited(e) == thread[e] # "none" \/ \E i \in 1 .. Len(stack) : stack[i].dir = e

\* Every entry is come to once, after the directory it is in.
StackInv ==
    /\ stack \in Seq(Frames)
    /\ \A i \in 1 .. Len(stack) :
          /\ stack[i].todo \subseteq Children(stack[i].dir)
          /\ \A e \in stack[i].todo : ~Visited(e)
          /\ thread[stack[i].dir] = "none" => stack[i].todo = Children(stack[i].dir)
          /\ \A j \in 1 .. Len(stack) : stack[i].dir = stack[j].dir => i = j
    /\ \A e \in Entries : Visited(e) => Parent[e] = Root \/ Visited(Parent[e])
    /\ sender = "done" => stack = <<>> /\ sending = NoFile

\* As long as the receiver lives none is passed over without a failure.
CoverInv ==
    alive => /\ Visited(Root) \/ Root \in LeftOut
             /\ \A e \in Entries :
                   Visited(Parent[e]) => \/ Visited(e) \/ e \in LeftOut
                                         \/ \E i \in 1 .. Len(stack) : e \in stack[i].todo

BasicInv ==
    /\ sending = NoFile \/ /\ sending \in [file : Files, next : Nat]
                           /\ sending.next \in 1 .. Chunks[sending.file] + 1
    /\ sender \in {"running", "done", "killed"}
    /\ stream \in [Conns -> Seq(Sent)]
    /\ open \subseteq Conns
    /\ thread \in [Conns -> {"none", "backlog", "metadata", "file", "other", "ended",
                           "dropped"}]
    /\ rootExists \in BOOLEAN /\ alive \in BOOLEAN
    /\ merged \subseteq Conns /\ failed \subseteq Conns
    /\ \A c \in Conns : thread[c] = "dropped" => c \in failed
    /\ fs = [e \in Entries |-> fs[e]]

\* The connection of a directory carries announcements of what is in it.
AnnouncedInv ==
    \A c \in Conns \ Files : \A i \in 1 .. Len(stream[c]) :
        \E d \in Dirs : Parent[d] = c /\ stream[c][i] = DirMessage(d)

\* A directory is made after the one it is in, and one in the directory that is
\* copied is lost only in announcements that run together.
DirsInv ==
    /\ \A d \in Dirs : fs[d] \in {Absent, Directory}
    /\ \A d \in Dirs : fs[d] = Directory => ParentExists(d)
    /\ alive /\ rootExists =>
          \A d \in Dirs : Parent[d] = Root /\ Visited(d) =>
              \/ fs[d] = Directory \/ Root \in merged \/ d \in LeftOut
              \/ \E i \in 1 .. Len(stream[Root]) : stream[Root][i] = DirMessage(d)

\* What is sent for a file, from 0.
Piece(f, i) == IF i = 0 THEN FileMessage(f)
               ELSE IF i <= Chunks[f] THEN Chunk(f, i) ELSE EndMarker

\* The text in the file, for a thread that has created it.
Data(f) == fs[f][2]

FileInv(f) ==
    /\ thread[f] = "none" => stream[f] = <<>>
    /\ thread[f] \in {"none", "backlog", "metadata", "other", "dropped"} =>
          fs[f] = Absent
    /\ thread[f] \in {"file", "other", "ended"} => ParentExists(f)
    /\ thread[f] = "file" =>
          /\ fs[f] = File(Data(f), FALSE) /\ Data(f) \in Seq(Sent)
          /\ Len(Data(f)) <= Chunks[f] + 1
          /\ \A i \in 1 .. Len(Data(f)) : Data(f)[i] = Piece(f, i)
          /\ Len(Data(f)) = Chunks[f] + 1 => f \in merged
    /\ thread[f] = "other" => f \in merged
    /\ thread[f] = "ended" => \/ fs[f] = File(Content(f), TRUE)
                              \/ fs[f] = Absent /\ f \in merged

\* What has been received of a file; it is followed by what is on the way.
Taken(f) == IF thread[f] = "file" THEN Len(Data(f)) + 1 ELSE 0
Due(f) == IF sending.file = f THEN sending.next ELSE Chunks[f] + 2
\* A connection that was closed because the file could not be opened.
Unopened(f) == /\ f \in failed /\ sending.file # f
               /\ stream[f] = <<>> /\ thread[f] \in {"backlog", "metadata"}
FlowInv(f) ==
    alive /\ thread[f] \in {"backlog", "metadata", "file"} =>
        \/ Unopened(f)
        \/ /\ \A i \in 1 .. Len(stream[f]) : stream[f][i] = Piece(f, Taken(f) + i - 1)
           /\ Taken(f) + Len(stream[f]) = Due(f)

SendingInv == \A f \in Files : sending.file = f => thread[f] # "none"

IInv ==
    /\ BasicInv /\ StackInv /\ CoverInv /\ AnnouncedInv /\ DirsInv /\ SendingInv
    /\ \A f \in Files : FileInv(f) /\ FlowInv(f)

-----------------------------------------------------------------------------
(* The tree, the messages and the stack.                                   *)

LEMMA TreeFacts ==
    /\ Root \in Conns /\ Root \notin Entries /\ Root \notin Files /\ Root \notin Dirs
    /\ Entries = Dirs \cup Files /\ Conns = Dirs \cup Files \cup {Root}
    /\ \A d \in Dirs : d \notin Files
    /\ \A e \in Entries : /\ Parent[e] \in Dirs \cup {Root}
                          /\ Parent[e] \in Conns /\ Parent[e] \notin Files
    /\ \A f \in Files : Chunks[f] \in Nat
BY TreeAssumption DEF Entries, Conns

LEMMA PieceFacts ==
    ASSUME NEW f \in Files, NEW i \in 0 .. Chunks[f] + 1
    PROVE  /\ Piece(f, i) \in Sent
           /\ Piece(f, i) = EndMarker <=> i = Chunks[f] + 1
           /\ Piece(f, i)[1] \in Files <=> i \in 1 .. Chunks[f]
<1>1. Chunks[f] \in Nat
    BY TreeFacts
<1>2. {"DIR", "FILE", "EOF"} \cap Files = {}
    BY TreeAssumption
<1>3. CASE i = 0
    <2>1. Piece(f, i) = <<"FILE", f>> /\ i # Chunks[f] + 1 /\ i \notin 1 .. Chunks[f]
        BY <1>1, <1>3 DEF Piece, FileMessage
    <2>2. <<"FILE", f>> # <<"EOF", 0>> /\ <<"FILE", f>>[1] \notin Files
        BY <1>2
    <2>3. <<"FILE", f>> \in Sent
        BY DEF Sent, FileMessage
    <2> QED
        BY <2>1, <2>2, <2>3 DEF EndMarker
<1>4. CASE i \in 1 .. Chunks[f]
    <2>1. Piece(f, i) = <<f, i>> /\ i # Chunks[f] + 1 /\ i # 0
        BY <1>1, <1>4 DEF Piece, Chunk
    <2>2. <<f, i>> # <<"EOF", 0>> /\ <<f, i>>[1] \in Files
        BY <2>1
    <2>3. Chunk(f, i) \in {Chunk(f, j) : j \in 1 .. Chunks[f]}
        BY <1>4
    <2>4. Chunk(f, i) \in UNION {{Chunk(g, j) : j \in 1 .. Chunks[g]} : g \in Files}
        BY <2>3
    <2>5. Chunk(f, i) \in Sent
        BY <2>4 DEF Sent
    <2>6. <<f, i>> \in Sent
        BY <2>5 DEF Chunk
    <2> QED
        BY <1>4, <2>1, <2>2, <2>6 DEF EndMarker
<1>5. CASE i = Chunks[f] + 1
    <2>1. Piece(f, i) = <<"EOF", 0>> /\ i \notin 1 .. Chunks[f]
        BY <1>1, <1>5 DEF Piece, EndMarker
    <2>2. <<"EOF", 0>>[1] \notin Files
        BY <1>2
    <2>3. EndMarker \in Sent
        BY DEF Sent
    <2> QED
        BY <1>5, <2>1, <2>2, <2>3 DEF EndMarker
<1> QED
    BY <1>1, <1>3, <1>4, <1>5

LEMMA WithinFacts ==
    ASSUME NEW F \in SUBSET Conns
    PROVE  /\ F \subseteq Within(F)
           /\ \A e \in Entries : Parent[e] \in Within(F) => e \in Within(F)
           /\ \A G \in SUBSET F : Within(G) \subseteq Within(F)
<1>1. \A e \in Entries : e \in Conns
    BY DEF Conns
<1> QED
    BY <1>1 DEF Within

\* More failures leave out more.
LEMMA LeavingOut ==
    ASSUME failed \subseteq failed', failed' \subseteq Conns
    PROVE  /\ LeftOut \subseteq LeftOut' /\ failed' \subseteq LeftOut'
           /\ \A e \in Entries : Parent[e] \in LeftOut' => e \in LeftOut'
<1>1. LeftOut = Within(failed) /\ LeftOut' = Within(failed')
    BY DEF LeftOut, Within
<1> QED
    BY <1>1, WithinFacts

\* A recv takes the first k sends and leaves the others.
LEMMA Taking ==
    ASSUME NEW s \in Seq(Sent), NEW k \in 1 .. Len(s)
    PROVE  /\ SubSeq(s, 1, k) \in Seq(Sent) /\ Len(SubSeq(s, 1, k)) = k
           /\ \A i \in 1 .. k : SubSeq(s, 1, k)[i] = s[i]
           /\ SubSeq(s, k + 1, Len(s)) \in Seq(Sent)
           /\ Len(SubSeq(s, k + 1, Len(s))) = Len(s) - k
           /\ \A i \in 1 .. Len(s) - k : SubSeq(s, k + 1, Len(s))[i] = s[k + i]
<1> DEFINE n == Len(s)
           first == SubSeq(s, 1, k)
           rest == SubSeq(s, k + 1, n)
<1>1. n \in Nat /\ k \in Nat /\ 1 <= k /\ k <= n
    OBVIOUS
<1>2. \A i \in 1 .. n : s[i] \in Sent
    OBVIOUS
<1> HIDE DEF n
<1>3. \A i \in 1 .. k : s[i] \in Sent
    BY <1>1, <1>2
<1>4. /\ first \in Seq(Sent) /\ Len(first) = IF 1 <= k THEN k - 1 + 1 ELSE 0
      /\ \A i \in 1 .. k - 1 + 1 : first[i] = s[1 + i - 1]
    BY <1>1, <1>3, SubSeqProperties
<1>5. \A i \in k + 1 .. n : s[i] \in Sent
    BY <1>1, <1>2
<1>6. /\ rest \in Seq(Sent) /\ Len(rest) = IF k + 1 <= n THEN n - (k + 1) + 1 ELSE 0
      /\ \A i \in 1 .. n - (k + 1) + 1 : rest[i] = s[k + 1 + i - 1]
    BY <1>1, <1>5, SubSeqProperties
<1> HIDE DEF first, rest
<1>7. Len(first) = k /\ \A i \in 1 .. k : first[i] = s[i]
    BY <1>1, <1>4
<1>8. Len(rest) = n - k /\ \A i \in 1 .. n - k : rest[i] = s[k + i]
    BY <1>1, <1>6
<1> QED
    BY <1>4, <1>6, <1>7, <1>8 DEF first, rest, n

LEMMA TopFacts ==
    ASSUME stack \in Seq(Frames), stack # <<>>
    PROVE  /\ Len(stack) \in Nat /\ 1 \in 1 .. Len(stack)
           /\ Top = stack[1] /\ Top \in Frames /\ Top.dir \in Dirs \cup {Root}
           /\ Top.dir \in Conns /\ Top.dir \notin Files
           /\ Tail(stack) \in Seq(Frames) /\ Len(Tail(stack)) = Len(stack) - 1
           /\ \A i \in 1 .. Len(stack) - 1 : Tail(stack)[i] = stack[i + 1]
<1>1. /\ Len(stack) \in Nat /\ 1 \in 1 .. Len(stack)
      /\ Top = stack[1] /\ Top \in Frames
    BY DEF Top
<1>2. Top.dir \in Dirs \cup {Root}
    BY <1>1 DEF Frames
<1>3. /\ Tail(stack) \in Seq(Frames) /\ Len(Tail(stack)) = Len(stack) - 1
      /\ \A i \in 1 .. Len(stack) - 1 : Tail(stack)[i] = stack[i + 1]
    OBVIOUS
<1> QED
    BY <1>1, <1>2, <1>3, TreeFacts

LEMMA WithoutTopFacts ==
    ASSUME stack \in Seq(Frames), stack # <<>>, NEW e
    PROVE  /\ WithoutTop(e) \in Seq(Frames) /\ Len(WithoutTop(e)) = Len(stack)
           /\ WithoutTop(e)[1] = [dir |-> Top.dir, todo |-> Top.todo \ {e}]
           /\ \A i \in 2 .. Len(stack) : WithoutTop(e)[i] = stack[i]
<1> DEFINE frame == [dir |-> Top.dir, todo |-> Top.todo \ {e}]
           rest == Tail(stack)
<1>1. Top \in [dir : Dirs \cup {Root}, todo : SUBSET Entries]
    BY TopFacts DEF Frames
<1>2. /\ frame \in Frames
      /\ [Top EXCEPT !.todo = @ \ {e}] = frame
    <2>1. Top.dir \in Dirs \cup {Root} /\ Top.todo \in SUBSET Entries
        BY <1>1
    <2>2. Top.todo \ {e} \in SUBSET Entries
        BY <2>1
    <2>3. frame \in Frames
        BY <2>1, <2>2 DEF Frames
    <2>4. [Top EXCEPT !.todo = @ \ {e}] = frame
        <3> DEFINE left == Top.todo \ {e}
        <3>1. \A y \in SUBSET Entries : [Top EXCEPT !.todo = y] = [dir |-> Top.dir, todo |-> y]
            <4> HIDE DEF Top
            <4> QED
                BY <1>1
        <3>2. left \in SUBSET Entries
            BY <2>2
        <3>3. [Top EXCEPT !.todo = left] = [dir |-> Top.dir, todo |-> left]
            <4> HIDE DEF Top, left
            <4> QED
                BY <3>1, <3>2
        <3> QED
            BY <3>3
    <2> QED
        BY <2>3, <2>4
<1>3. WithoutTop(e) = <<frame>> \o rest
    BY <1>2 DEF WithoutTop
<1>4. /\ rest \in Seq(Frames) /\ Len(rest) = Len(stack) - 1 /\ Len(stack) \in Nat
      /\ \A i \in 1 .. Len(stack) - 1 : rest[i] = stack[i + 1]
    BY TopFacts
<1> HIDE DEF frame, rest
<1>5. /\ <<frame>> \o rest \in Seq(Frames)
      /\ Len(<<frame>> \o rest) = Len(rest) + 1
      /\ (<<frame>> \o rest)[1] = frame
      /\ \A i \in 2 .. Len(rest) + 1 : (<<frame>> \o rest)[i] = rest[i - 1]
    BY <1>2, <1>4
<1>6. \A i \in 2 .. Len(stack) : (<<frame>> \o rest)[i] = stack[i]
    <2> SUFFICES ASSUME NEW i \in 2 .. Len(stack) PROVE (<<frame>> \o rest)[i] = stack[i]
        OBVIOUS
    <2>1. i \in 2 .. Len(rest) + 1 /\ i - 1 \in 1 .. Len(stack) - 1 /\ (i - 1) + 1 = i
        BY <1>4
    <2> QED
        BY <1>4, <1>5, <2>1
<1>7. Len(rest) + 1 = Len(stack)
    BY <1>4
<1> QED
    BY <1>3, <1>5, <1>6, <1>7 DEF frame

LEMMA PushFacts ==
    ASSUME stack \in Seq(Frames), stack # <<>>, NEW d \in Dirs
    PROVE  LET after == <<Call(d)>> \o WithoutTop(d)
           IN  /\ after \in Seq(Frames) /\ Len(after) = Len(stack) + 1
               /\ after[1] = [dir |-> d, todo |-> Children(d)]
               /\ after[2] = [dir |-> Top.dir, todo |-> Top.todo \ {d}]
               /\ \A i \in 3 .. Len(stack) + 1 : after[i] = stack[i - 1]
<1> DEFINE frame == [dir |-> d, todo |-> Children(d)]
           rest == WithoutTop(d)
<1>1. frame \in Frames /\ Call(d) = frame
    BY DEF Frames, Call, Children
<1>2. /\ rest \in Seq(Frames) /\ Len(rest) = Len(stack)
      /\ rest[1] = [dir |-> Top.dir, todo |-> Top.todo \ {d}]
      /\ \A i \in 2 .. Len(stack) : rest[i] = stack[i]
    BY WithoutTopFacts
<1>3. Len(stack) \in Nat /\ 1 \in 1 .. Len(stack)
    BY TopFacts
<1> HIDE DEF frame, rest
<1>4. /\ <<frame>> \o rest \in Seq(Frames)
      /\ Len(<<frame>> \o rest) = Len(rest) + 1
      /\ (<<frame>> \o rest)[1] = frame
      /\ \A i \in 2 .. Len(rest) + 1 : (<<frame>> \o rest)[i] = rest[i - 1]
    BY <1>1, <1>2
<1>5. (<<frame>> \o rest)[2] = rest[1]
    BY <1>2, <1>3, <1>4
<1>6. \A i \in 3 .. Len(stack) + 1 : (<<frame>> \o rest)[i] = stack[i - 1]
    <2> SUFFICES ASSUME NEW i \in 3 .. Len(stack) + 1
                 PROVE  (<<frame>> \o rest)[i] = stack[i - 1]
        OBVIOUS
    <2>1. i \in 2 .. Len(rest) + 1 /\ i - 1 \in 2 .. Len(stack)
        BY <1>2, <1>3
    <2> QED
        BY <1>2, <1>4, <2>1
<1> QED
    BY <1>1, <1>2, <1>4, <1>5, <1>6 DEF frame, rest

LEMMA InitInvariant == Init => IInv
<1> SUFFICES ASSUME Init PROVE IInv
    OBVIOUS
<1> USE DEF Init
<1>1. BasicInv
    <2>1. <<>> \in Seq(Sent)
        OBVIOUS
    <2> QED
        BY <2>1 DEF BasicInv
<1>2. /\ Len(stack) = 1 /\ stack[1] = [dir |-> Root, todo |-> Children(Root)]
      /\ stack \in Seq(Frames)
    <2>1. [dir |-> Root, todo |-> Children(Root)] \in Frames
        BY DEF Frames, Children
    <2> QED
        BY <2>1 DEF Call
<1>3. \A e \in Conns : Visited(e) <=> e = Root
    BY <1>2 DEF Visited
<1>4. StackInv
    <2>1. \A e \in Children(Root) : e \in Conns /\ e # Root
        BY TreeFacts DEF Children
    <2> QED
        BY <1>2, <1>3, <2>1, TreeFacts DEF StackInv
<1>5. CoverInv
    BY <1>2, <1>3, TreeFacts DEF CoverInv, Children
<1>6. AnnouncedInv
    BY TreeFacts DEF AnnouncedInv
<1>7. DirsInv
    BY <1>3, TreeFacts DEF DirsInv, Absent, Directory
<1>8. \A f \in Files : FileInv(f) /\ FlowInv(f)
    BY TreeFacts DEF FileInv, FlowInv
<1>9. SendingInv
    BY TreeFacts DEF SendingInv, NoFile
<1> QED
    BY <1>1, <1>4, <1>5, <1>6, <1>7, <1>8, <1>9 DEF IInv

-----------------------------------------------------------------------------
(* The stack of calls.                                                     *)

\* A step that neither calls nor returns nor comes to an entry.
LEMMA StackSame ==
    ASSUME StackInv, CoverInv, stack' = stack,
           \A c \in Conns : Visited(c)' <=> Visited(c),
           \A c \in Conns : thread'[c] = "none" => thread[c] = "none",
           alive' => alive, failed \subseteq failed', failed' \subseteq Conns,
           sender' = "done" => sender = "done" /\ sending' = sending
    PROVE  StackInv' /\ CoverInv'
<1>1. \A i \in 1 .. Len(stack) : stack[i].todo \subseteq Conns /\ stack[i].dir \in Conns
    <2>1. \A i \in 1 .. Len(stack) : stack[i] \in Frames
        BY DEF StackInv
    <2>2. \A frame \in Frames : frame.todo \subseteq Entries /\ frame.dir \in Dirs \cup {Root}
        BY DEF Frames
    <2> QED
        BY <2>1, <2>2, TreeFacts DEF Conns
<1>2. \A e \in Entries : e \in Conns /\ Parent[e] \in Conns
    BY TreeFacts
<1>3. StackInv'
    <2>1. \A i \in 1 .. Len(stack) :
              /\ \A e \in stack[i].todo : ~Visited(e)'
              /\ thread'[stack[i].dir] = "none" => stack[i].todo = Children(stack[i].dir)
        BY <1>1 DEF StackInv
    <2>2. \A e \in Entries : Visited(e)' => Parent[e] = Root \/ Visited(Parent[e])'
        BY <1>2 DEF StackInv
    <2>3. sender' = "done" => stack' = <<>> /\ sending' = NoFile
        BY DEF StackInv
    <2> QED
        BY <2>1, <2>2, <2>3 DEF StackInv
<1>4. CoverInv'
    BY <1>2, LeavingOut, TreeFacts DEF CoverInv
<1> QED
    BY <1>3, <1>4

\* A call returns: its directory is listed to the end, or something has failed
\* for it.
LEMMA Returning ==
    ASSUME BasicInv, StackInv, CoverInv, sender = "running", stack # <<>>,
           sending = NoFile, Return, alive' = alive, sending' = sending,
           thread' = thread \/ thread' = [thread EXCEPT ![Top.dir] = "backlog"],
           failed \subseteq failed', failed' \subseteq Conns,
           ~alive \/ Top.dir \in failed' \/ (thread[Top.dir] # "none" /\ Top.todo = {})
    PROVE  /\ StackInv' /\ CoverInv'
           /\ \A e \in Conns : Visited(e)' => Visited(e)
<1> DEFINE n == Len(stack)
<1>1. /\ \A c \in Conns : /\ thread'[c] # "none" => thread[c] # "none" \/ c = Top.dir
                          /\ thread[c] # "none" => thread'[c] # "none"
      /\ \A c \in Conns : c # Top.dir => thread'[c] = thread[c]
    BY DEF BasicInv
<1>2. stack \in Seq(Frames) /\ n \in Nat /\ 1 \in 1 .. n /\ Top = stack[1]
    BY TopFacts DEF StackInv
<1>3. /\ stack' \in Seq(Frames) /\ Len(stack') = n - 1
      /\ \A i \in 1 .. n - 1 : stack'[i] = stack[i + 1]
    BY <1>2, TopFacts DEF Return
<1>4. \A i \in 1 .. n - 1 : i + 1 \in 1 .. n /\ i + 1 # 1
    BY <1>2
<1>5. \A i \in 1 .. n : i = 1 \/ (i - 1 \in 1 .. n - 1 /\ (i - 1) + 1 = i)
    BY <1>2
<1>6. \A i \in 1 .. n : i = 1 \/ \E j \in 1 .. n - 1 : stack'[j] = stack[i]
    BY <1>3, <1>5
<1>7. \A e \in Conns : Visited(e)' => Visited(e)
    <2>1. Visited(Top.dir)
        BY <1>2 DEF Visited
    <2> QED
        BY <1>1, <1>3, <1>4, <2>1 DEF Visited
<1>8. \A e \in Conns : Visited(e) =>
          Visited(e)' \/ (e = Top.dir /\ thread[Top.dir] = "none")
    <2> SUFFICES ASSUME NEW e \in Conns, Visited(e), ~Visited(e)'
                 PROVE  e = Top.dir /\ thread[Top.dir] = "none"
        OBVIOUS
    <2>1. thread[e] = "none"
        BY <1>1 DEF Visited
    <2>2. PICK i \in 1 .. n : stack[i].dir = e
        BY <2>1 DEF Visited
    <2>3. i = 1
        BY <1>3, <1>6, <2>2 DEF Visited
    <2> QED
        BY <1>2, <2>1, <2>2, <2>3
<1>9. /\ \A i \in 1 .. n : /\ stack[i].todo \subseteq Children(stack[i].dir)
                           /\ \A e \in stack[i].todo : ~Visited(e)
                           /\ thread[stack[i].dir] = "none" =>
                                 stack[i].todo = Children(stack[i].dir)
                           /\ \A j \in 1 .. n : stack[i].dir = stack[j].dir => i = j
      /\ \A e \in Entries : Visited(e) => Parent[e] = Root \/ Visited(Parent[e])
    BY DEF StackInv
<1>10. \A i \in 1 .. n : stack[i].todo \subseteq Conns /\ stack[i].dir \in Conns
    <2>1. \A i \in 1 .. n : stack[i] \in Frames
        BY <1>2
    <2>2. \A frame \in Frames : frame.todo \subseteq Entries /\ frame.dir \in Dirs \cup {Root}
        BY DEF Frames
    <2> QED
        BY <2>1, <2>2, TreeFacts DEF Conns
<1>11. \A e \in Entries : e \in Conns /\ Parent[e] \in Conns
    BY TreeFacts
<1>12. StackInv'
    <2>1. ASSUME NEW i \in 1 .. n - 1
          PROVE  /\ stack'[i].todo \subseteq Children(stack'[i].dir)
                 /\ \A e \in stack'[i].todo : ~Visited(e)'
                 /\ thread'[stack'[i].dir] = "none" =>
                       stack'[i].todo = Children(stack'[i].dir)
        <3>1. i + 1 \in 1 .. n /\ i + 1 # 1 /\ stack'[i] = stack[i + 1]
            BY <1>3, <1>4
        <3>2. stack[i + 1].dir # Top.dir /\ stack[i + 1].dir \in Conns
            BY <1>2, <1>9, <1>10, <3>1
        <3>3. thread'[stack[i + 1].dir] = thread[stack[i + 1].dir]
            BY <1>1, <3>2
        <3>4. \A e \in stack[i + 1].todo : ~Visited(e)'
            BY <1>7, <1>9, <1>10, <3>1
        <3> QED
            BY <1>9, <3>1, <3>3, <3>4
    <2>2. ASSUME NEW i \in 1 .. n - 1, NEW j \in 1 .. n - 1, stack'[i].dir = stack'[j].dir
          PROVE  i = j
        <3>1. i + 1 = j + 1
            BY <1>3, <1>4, <1>9, <2>2
        <3> QED
            BY <1>2, <3>1
    <2>3. ASSUME NEW e \in Entries, Visited(e)'
          PROVE  Parent[e] = Root \/ Visited(Parent[e])'
        <3>1. Visited(e) /\ (Parent[e] = Root \/ Visited(Parent[e]))
            BY <1>7, <1>9, <1>11, <2>3
        <3>2. Parent[e] = Top.dir /\ thread[Top.dir] = "none" => e \in Top.todo
            BY <1>2, <1>9 DEF Children
        <3>3. ~(Parent[e] = Top.dir /\ thread[Top.dir] = "none")
            BY <1>2, <1>9, <3>1, <3>2
        <3> QED
            BY <1>8, <1>11, <3>1, <3>3
    <2>4. sender' = "done" => stack' = <<>> /\ sending' = NoFile
        <3>1. sender' = "done" => n = 1
            BY DEF Return
        <3>2. Len(stack') = 0 => stack' = <<>>
            BY <1>3
        <3> QED
            BY <1>3, <3>1, <3>2
    <2> QED
        BY <1>3, <2>1, <2>2, <2>3, <2>4 DEF StackInv
<1>13. CoverInv'
    <2> SUFFICES ASSUME alive' PROVE CoverInv'
        BY DEF CoverInv
    <2>1. LeftOut \subseteq LeftOut' /\ failed' \subseteq LeftOut'
          /\ \A e \in Entries : Parent[e] \in LeftOut' => e \in LeftOut'
        BY LeavingOut
    <2>2. ASSUME NEW e \in Conns, Visited(e) PROVE Visited(e)' \/ e \in LeftOut'
        BY <1>8, <2>1, <2>2
    <2>3. ASSUME NEW e \in Entries, NEW i \in 1 .. n, e \in stack[i].todo
          PROVE  e \in LeftOut' \/ \E j \in 1 .. n - 1 : e \in stack'[j].todo
        <3>1. CASE i = 1
            <4>1. Parent[e] = Top.dir
                BY <1>2, <1>9, <2>3, <3>1 DEF Children
            <4>2. Top.dir \in failed'
                BY <1>2, <2>3, <3>1
            <4> QED
                BY <2>1, <4>1, <4>2
        <3>2. CASE i # 1
            BY <1>6, <2>3, <3>2
        <3> QED
            BY <3>1, <3>2
    <2>4. ASSUME NEW e \in Entries, Visited(Parent[e])'
          PROVE  \/ Visited(e)' \/ e \in LeftOut'
                 \/ \E j \in 1 .. n - 1 : e \in stack'[j].todo
        <3>1. \/ Visited(e) \/ e \in LeftOut
              \/ \E i \in 1 .. n : e \in stack[i].todo
            BY <1>7, <1>11, <2>4 DEF CoverInv
        <3> QED
            BY <1>11, <2>1, <2>2, <2>3, <3>1
    <2>5. Visited(Root)' \/ Root \in LeftOut'
        BY <2>1, <2>2, TreeFacts DEF CoverInv
    <2> QED
        BY <1>3, <2>4, <2>5 DEF CoverInv
<1> QED
    BY <1>7, <1>12, <1>13

\* An entry is come to: it leaves what is to be done, and becomes a call if it
\* is a directory.
LEMMA Coming ==
    ASSUME BasicInv, StackInv, CoverInv, sender = "running", stack # <<>>,
           NEW e \in Top.todo, thread[Top.dir] # "none",
           \/ /\ e \in Dirs /\ stack' = <<Call(e)>> \o WithoutTop(e)
              /\ thread' = thread
           \/ /\ e \in Files /\ stack' = WithoutTop(e)
              /\ \/ thread' = [thread EXCEPT ![e] = "backlog"]
                 \/ thread' = thread /\ (~alive \/ e \in failed'),
           failed \subseteq failed', failed' \subseteq Conns,
           alive' = alive, sender' # "done"
    PROVE  /\ StackInv' /\ CoverInv'
           /\ Parent[e] = Top.dir /\ thread[e] = "none"
           /\ \A c \in Conns : c # e => (Visited(c)' <=> Visited(c))
           /\ alive => Visited(e)' \/ e \in failed'
<1> DEFINE n == Len(stack)
           m == Len(stack')
           k == m - n
           new == [dir |-> e, todo |-> Children(e)]
<1>1. /\ stack \in Seq(Frames) /\ n \in Nat /\ 1 \in 1 .. n /\ Top = stack[1]
      /\ Top \in Frames
    BY TopFacts DEF StackInv
<1>2. /\ \A i \in 1 .. n : /\ stack[i].todo \subseteq Children(stack[i].dir)
                           /\ \A c \in stack[i].todo : ~Visited(c)
                           /\ thread[stack[i].dir] = "none" =>
                                 stack[i].todo = Children(stack[i].dir)
                           /\ \A j \in 1 .. n : stack[i].dir = stack[j].dir => i = j
      /\ \A c \in Entries : Visited(c) => Parent[c] = Root \/ Visited(Parent[c])
    BY DEF StackInv
<1>3. /\ e \in Entries /\ Parent[e] = Top.dir /\ ~Visited(e) /\ thread[e] = "none"
      /\ Visited(Top.dir)
    BY <1>1, <1>2 DEF Children, Visited
\* The new stack is the old one, with less to do at the top, below k calls.
<1>4. /\ stack' \in Seq(Frames) /\ m = n + k /\ k \in {0, 1}
      /\ k = 1 => e \in Dirs /\ stack'[1] = new /\ thread' = thread
      /\ k = 0 => e \in Files
      /\ stack'[k + 1] = [dir |-> Top.dir, todo |-> Top.todo \ {e}]
      /\ \A i \in 2 .. n : stack'[k + i] = stack[i]
    <2>1. CASE e \in Dirs /\ stack' = <<Call(e)>> \o WithoutTop(e) /\ thread' = thread
        <3>1. /\ stack' \in Seq(Frames) /\ m = n + 1 /\ stack'[1] = new
              /\ stack'[2] = [dir |-> Top.dir, todo |-> Top.todo \ {e}]
              /\ \A i \in 3 .. n + 1 : stack'[i] = stack[i - 1]
            BY <1>1, <2>1, PushFacts
        <3>2. \A i \in 2 .. n : 1 + i \in 3 .. n + 1 /\ (1 + i) - 1 = i
            BY <1>1
        <3>3. k = 1 /\ m = n + k
            BY <1>1, <3>1
        <3> HIDE DEF n, m, k, new
        <3>4. \A i \in 2 .. n : stack'[1 + i] = stack[i]
            BY <3>1, <3>2
        <3>5. k + 1 = 2 /\ stack'[k + 1] = [dir |-> Top.dir, todo |-> Top.todo \ {e}]
            BY <3>1, <3>3
        <3>6. \A i \in 2 .. n : stack'[k + i] = stack[i]
            BY <3>3, <3>4
        <3>7. stack' \in Seq(Frames) /\ m = n + k /\ k = 1 /\ k # 0
            BY <3>1, <3>3
        <3>8. e \in Dirs /\ stack'[1] = new /\ thread' = thread
            BY <2>1, <3>1
        <3> QED
            BY <3>5, <3>6, <3>7, <3>8
    <2>2. CASE e \in Files /\ stack' = WithoutTop(e)
        <3>1. /\ stack' \in Seq(Frames) /\ m = n
              /\ stack'[1] = [dir |-> Top.dir, todo |-> Top.todo \ {e}]
              /\ \A i \in 2 .. n : stack'[i] = stack[i]
            BY <1>1, <2>2, WithoutTopFacts
        <3>2. \A i \in 2 .. n : 0 + i = i
            BY <1>1
        <3>3. k = 0 /\ m = n + k
            BY <1>1, <3>1
        <3> HIDE DEF n, m, k, new
        <3> QED
            BY <2>2, <3>1, <3>2, <3>3
    <2> QED
        BY <2>1, <2>2
<1> HIDE DEF n, m, k, new
<1>5. \A i \in 1 .. m : \/ i = k + 1
                        \/ k = 1 /\ i = 1
                        \/ i - k \in 2 .. n /\ stack'[i] = stack[i - k]
    <2> SUFFICES ASSUME NEW i \in 1 .. m, i # k + 1, ~(k = 1 /\ i = 1)
                 PROVE  i - k \in 2 .. n /\ stack'[i] = stack[i - k]
        OBVIOUS
    <2>1. i - k \in 2 .. n /\ k + (i - k) = i
        BY <1>1, <1>4
    <2> QED
        BY <1>4, <2>1
<1>6. /\ \A i \in 1 .. n : k + i \in 1 .. m /\ stack'[k + i].dir = stack[i].dir
      /\ k + 1 \in 1 .. m /\ stack'[k + 1].dir = Top.dir
      /\ stack'[k + 1].todo = Top.todo \ {e}
      /\ k = 1 => 1 \in 1 .. m /\ stack'[1].dir = e /\ stack'[1].todo = Children(e)
    <2>1. \A i \in 1 .. n : k + i \in 1 .. m /\ (i = 1 \/ i \in 2 .. n)
        BY <1>1, <1>4
    <2>2. k + 1 \in 1 .. m /\ (k = 1 => 1 \in 1 .. m)
        BY <1>1, <1>4
    <2> QED
        BY <1>1, <1>4, <2>1, <2>2 DEF new
<1>7. \A c \in Conns : /\ thread'[c] # "none" => thread[c] # "none" \/ c = e
                       /\ thread[c] # "none" => thread'[c] # "none"
    BY DEF BasicInv
<1>8. \A c \in Conns : Visited(c)' => Visited(c) \/ c = e
    <2> SUFFICES ASSUME NEW c \in Conns, c # e, thread'[c] = "none", Visited(c)'
                 PROVE  Visited(c)
        BY <1>7 DEF Visited
    <2>1. PICK i \in 1 .. m : stack'[i].dir = c
        BY DEF Visited, m
    <2>2. CASE i = k + 1
        BY <1>3, <1>6, <2>1, <2>2
    <2>3. CASE k = 1 /\ i = 1
        BY <1>6, <2>1, <2>3
    <2>4. CASE i - k \in 2 .. n /\ stack'[i] = stack[i - k]
        <3>1. i - k \in 1 .. n /\ stack[i - k].dir = c
            BY <1>1, <2>1, <2>4
        <3> QED
            BY <3>1 DEF Visited, n
    <2> QED
        BY <1>5, <2>2, <2>3, <2>4
<1>9. \A c \in Conns : Visited(c) => Visited(c)'
    <2> SUFFICES ASSUME NEW c \in Conns, thread[c] = "none", Visited(c)
                 PROVE  Visited(c)'
        BY <1>7 DEF Visited
    <2>1. PICK i \in 1 .. n : stack[i].dir = c
        BY DEF Visited, n
    <2> QED
        BY <1>6, <2>1 DEF Visited, m
<1>10. /\ alive => Visited(e)' \/ e \in failed'
       /\ k = 1 => Visited(e)'
       /\ thread'[Top.dir] # "none"
    <2>1. e \in Conns /\ Top.dir \in Conns
        BY <1>1, <1>3, TreeFacts, TopFacts
    <2>2. k = 1 => Visited(e)'
        BY <1>6 DEF Visited, m
    <2>3. k = 0 /\ alive => thread'[e] # "none" \/ e \in failed'
        BY <1>4, <2>1, TreeFacts DEF BasicInv
    <2> QED
        BY <1>4, <1>7, <2>1, <2>2, <2>3 DEF Visited
<1>11. Children(e) # {} => e \in Dirs
    BY TreeFacts DEF Children
<1>12. \A c \in Children(e) : c \in Conns /\ c \in Entries /\ c # e /\ Parent[c] = e
    <2>1. Parent[e] # e
        <3>1. {e} \in SUBSET Entries /\ {e} # {}
            BY <1>3
        <3>2. \E c \in {e} : Parent[c] \notin {e}
            BY <3>1, TreeAssumption
        <3> QED
            BY <3>2
    <2> QED
        BY <2>1, TreeFacts DEF Children
<1>13. \A i \in 1 .. n : stack[i].todo \subseteq Conns /\ stack[i].dir \in Conns
    <2>1. \A i \in 1 .. n : stack[i] \in Frames
        BY <1>1 DEF n
    <2>2. \A frame \in Frames : frame.todo \subseteq Entries /\ frame.dir \in Dirs \cup {Root}
        BY DEF Frames
    <2> QED
        BY <2>1, <2>2, TreeFacts DEF Conns
<1>14. \A i \in 1 .. n : stack[i].dir # e /\ (i # 1 => e \notin stack[i].todo)
    <2> SUFFICES ASSUME NEW i \in 1 .. n
                 PROVE  stack[i].dir # e /\ (i # 1 => e \notin stack[i].todo)
        OBVIOUS
    <2>1. stack[i].dir # e
        BY <1>3 DEF Visited, n
    <2>2. e \in stack[i].todo => stack[i].dir = stack[1].dir
        BY <1>1, <1>2, <1>3 DEF Children
    <2> QED
        BY <1>1, <1>2, <2>1, <2>2
<1>15. StackInv'
    <2>1. ASSUME NEW i \in 1 .. m
          PROVE  /\ stack'[i].todo \subseteq Children(stack'[i].dir)
                 /\ \A c \in stack'[i].todo : ~Visited(c)'
                 /\ thread'[stack'[i].dir] = "none" =>
                       stack'[i].todo = Children(stack'[i].dir)
        <3>1. CASE i = k + 1
            BY <1>1, <1>2, <1>6, <1>8, <1>10, <1>13, <3>1
        <3>2. CASE k = 1 /\ i = 1
            <4>1. \A c \in Children(e) : ~Visited(c)
                BY <1>2, <1>3, <1>12, TreeFacts
            <4> QED
                BY <1>6, <1>8, <1>12, <3>2, <4>1
        <3>3. CASE i - k \in 2 .. n /\ stack'[i] = stack[i - k]
            <4>1. i - k \in 1 .. n /\ i - k # 1
                BY <1>1, <3>3
            <4> DEFINE j == i - k
            <4> HIDE DEF j
            <4>2. j \in 1 .. n /\ j # 1 /\ stack'[i] = stack[j]
                BY <3>3, <4>1 DEF j
            <4> QED
                BY <1>2, <1>7, <1>8, <1>13, <1>14, <4>2
        <3> QED
            BY <1>5, <3>1, <3>2, <3>3
    <2>2. ASSUME NEW i \in 1 .. m, NEW j \in 1 .. m, stack'[i].dir = stack'[j].dir
          PROVE  i = j
        <3>1. ASSUME NEW l \in 1 .. m
              PROVE  \/ k = 1 /\ l = 1 /\ stack'[l].dir = e
                     \/ l - k \in 1 .. n /\ stack'[l].dir = stack[l - k].dir
            <4>1. k + 1 - k = 1
                BY <1>4
            <4>2. 2 .. n \subseteq 1 .. n
                BY <1>1
            <4>3. CASE l = k + 1
                <5>1. stack'[k + 1].dir = stack[1].dir /\ 1 \in 1 .. n
                    BY <1>1, <1>6 DEF n
                <5>2. l - k = 1
                    BY <1>4, <4>3
                <5> QED
                    BY <4>3, <5>1, <5>2
            <4>4. CASE k = 1 /\ l = 1
                BY <1>6, <4>4
            <4>5. CASE l - k \in 2 .. n /\ stack'[l] = stack[l - k]
                BY <4>2, <4>5
            <4> QED
                BY <1>5, <4>3, <4>4, <4>5
        <3>2. CASE k = 1 /\ i = 1
            BY <1>6, <1>14, <2>2, <3>1, <3>2
        <3>3. CASE k = 1 /\ j = 1
            BY <1>6, <1>14, <2>2, <3>1, <3>3
        <3>4. CASE ~(k = 1 /\ i = 1) /\ ~(k = 1 /\ j = 1)
            <4>1. i - k = j - k
                BY <1>2, <2>2, <3>1, <3>4
            <4> QED
                BY <1>1, <1>4, <4>1
        <3> QED
            BY <3>2, <3>3, <3>4
    <2>3. ASSUME NEW c \in Entries, Visited(c)'
          PROVE  Parent[c] = Root \/ Visited(Parent[c])'
        <3>1. c \in Conns /\ Parent[c] \in Conns
            BY TreeFacts
        <3>2. c = e => Visited(Parent[c])'
            BY <1>3, <1>9, <3>1
        <3> QED
            BY <1>2, <1>8, <1>9, <2>3, <3>1, <3>2
    <2> QED
        BY <1>4, <2>1, <2>2, <2>3 DEF StackInv, m
<1>16. CoverInv'
    <2> SUFFICES ASSUME alive PROVE CoverInv'
        BY DEF CoverInv
    <2>1. LeftOut \subseteq LeftOut' /\ failed' \subseteq LeftOut'
        BY LeavingOut
    <2>2. Visited(Root)' \/ Root \in LeftOut'
        BY <1>9, <2>1, TreeFacts DEF CoverInv
    <2>3. ASSUME NEW c \in Entries, Visited(Parent[c])'
          PROVE  Visited(c)' \/ c \in LeftOut' \/ \E i \in 1 .. m : c \in stack'[i].todo
        <3>1. c \in Conns /\ Parent[c] \in Conns
            BY TreeFacts
        <3>2. CASE c = e
            BY <1>10, <2>1, <3>2
        <3>3. CASE Parent[c] = e
            <4>1. c \in Children(e) /\ k = 1
                BY <1>4, <1>11, <3>3, TreeFacts DEF Children
            <4> QED
                BY <1>6, <4>1
        <3>4. CASE Parent[c] # e /\ c # e
            <4>1. Visited(c) \/ c \in LeftOut \/ \E i \in 1 .. n : c \in stack[i].todo
                BY <1>8, <2>3, <3>1, <3>4 DEF CoverInv, n
            <4>2. ASSUME NEW i \in 1 .. n, c \in stack[i].todo
                  PROVE  \E l \in 1 .. m : c \in stack'[l].todo
                <5>1. CASE i = 1
                    BY <1>1, <1>6, <3>4, <4>2, <5>1
                <5>2. CASE i # 1
                    <6>1. i \in 2 .. n
                        BY <1>1, <5>2
                    <6> QED
                        BY <1>4, <1>6, <4>2, <6>1
                <5> QED
                    BY <5>1, <5>2
            <4> QED
                BY <1>9, <2>1, <3>1, <4>1, <4>2
        <3> QED
            BY <3>2, <3>3, <3>4
    <2> QED
        BY <2>2, <2>3 DEF CoverInv, m
<1> QED
    BY <1>3, <1>8, <1>9, <1>10, <1>15, <1>16

-----------------------------------------------------------------------------
(* What a step leaves alone.                                               *)

LEMMA DirsSame ==
    ASSUME DirsInv, rootExists' = rootExists, alive' => alive,
           \A d \in Dirs : fs'[d] = fs[d],
           stream'[Root] = stream[Root], Root \in merged => Root \in merged',
           failed \subseteq failed', failed' \subseteq Conns,
           \A d \in Dirs : Visited(d)' => Visited(d)
    PROVE  DirsInv'
<1>1. \A d \in Dirs : ParentExists(d) => ParentExists(d)'
    BY TreeFacts DEF ParentExists, Entries
<1>2. LeftOut \subseteq LeftOut'
    BY LeavingOut
<1> QED
    BY <1>1, <1>2 DEF DirsInv

LEMMA AnnouncedSame ==
    ASSUME AnnouncedInv, \A c \in Conns \ Files : stream'[c] = stream[c]
    PROVE  AnnouncedInv'
BY DEF AnnouncedInv

LEMMA ParentsStay ==
    ASSUME rootExists' = rootExists,
           \A d \in Dirs : fs[d] = Directory => fs'[d] = Directory
    PROVE  \A e \in Entries : ParentExists(e) => ParentExists(e)'
BY TreeFacts DEF ParentExists

LEMMA FileSame ==
    ASSUME NEW f \in Files, FileInv(f), fs'[f] = fs[f], thread'[f] = thread[f],
           stream'[f] = stream[f],
           ParentExists(f) => ParentExists(f)', f \in merged => f \in merged'
    PROVE  FileInv(f)'
<1>1. Data(f)' = Data(f)
    BY DEF Data
<1> QED
    BY <1>1 DEF FileInv

LEMMA FlowSame ==
    ASSUME NEW f \in Files, FlowInv(f), fs'[f] = fs[f], thread'[f] = thread[f],
           alive' => alive, stream'[f] = stream[f], failed \subseteq failed',
           sending' = sending \/ (sending.file # f /\ sending'.file # f)
    PROVE  FlowInv(f)'
<1>1. Taken(f)' = Taken(f)
    BY DEF Taken, Data
<1>2. Due(f)' = Due(f)
    BY DEF Due
<1>3. Unopened(f) => Unopened(f)'
    BY DEF Unopened
<1> QED
    BY <1>1, <1>2, <1>3 DEF FlowInv

LEMMA FilesSame ==
    ASSUME \A f \in Files : FileInv(f) /\ FlowInv(f),
           \A f \in Files : /\ fs'[f] = fs[f] /\ thread'[f] = thread[f]
                            /\ stream'[f] = stream[f]
                            /\ f \in merged => f \in merged',
           \A e \in Entries : ParentExists(e) => ParentExists(e)',
           alive' => alive, sending' = sending, failed \subseteq failed'
    PROVE  \A f \in Files : FileInv(f)' /\ FlowInv(f)'
<1> SUFFICES ASSUME NEW f \in Files PROVE FileInv(f)' /\ FlowInv(f)'
    OBVIOUS
<1>1. f \in Entries
    BY TreeFacts
<1>2. FileInv(f)'
    BY <1>1, FileSame
<1>3. FlowInv(f)'
    BY <1>1, FlowSame
<1> QED
    BY <1>2, <1>3

LEMMA Receiving ==
    ASSUME BasicInv, NEW c \in Conns, NEW k, Receive(c, k)
    PROVE  /\ k \in 1 .. Len(stream[c]) /\ k \in Nat
           /\ stream[c] \in Seq(Sent) /\ Len(stream[c]) \in Nat
           /\ stream' \in [Conns -> Seq(Sent)]
           /\ Len(stream'[c]) = Len(stream[c]) - k
           /\ \A i \in 1 .. Len(stream[c]) - k : stream'[c][i] = stream[c][k + i]
           /\ \A x \in Conns : x # c => stream'[x] = stream[x]
           /\ merged' \subseteq Conns
           /\ \A x : x \in merged => x \in merged'
           /\ \A i \in 1 .. k : k # 1 /\ stream[c][i][1] \notin Files => c \in merged'
<1>1. stream \in [Conns -> Seq(Sent)] /\ merged \subseteq Conns
    BY DEF BasicInv
<1>2. k \in 1 .. Len(stream[c]) /\ stream[c] \in Seq(Sent)
    BY <1>1 DEF Receive
<1>3. Len(stream[c]) \in Nat /\ k \in Nat
    BY <1>2
<1> DEFINE rest == SubSeq(stream[c], k + 1, Len(stream[c]))
<1>4. /\ rest \in Seq(Sent) /\ Len(rest) = Len(stream[c]) - k
      /\ \A i \in 1 .. Len(stream[c]) - k : rest[i] = stream[c][k + i]
    BY <1>2, Taking
<1>5. stream' = [stream EXCEPT ![c] = rest]
    BY DEF Receive
<1> HIDE DEF rest
<1>6. stream'[c] = rest /\ stream' \in [Conns -> Seq(Sent)]
    BY <1>1, <1>4, <1>5
<1>7. \A x \in Conns : x # c => stream'[x] = stream[x]
    BY <1>1, <1>5
<1>8. merged' \subseteq Conns /\ \A x : x \in merged => x \in merged'
    BY <1>1 DEF Receive
<1>9. \A i \in 1 .. k : k # 1 /\ stream[c][i][1] \notin Files => c \in merged'
    <2>1. k # 1 => k > 1
        BY <1>2, <1>3
    <2> QED
        BY <2>1 DEF Receive
<1> QED
    BY <1>2, <1>3, <1>4, <1>6, <1>7, <1>8, <1>9

LEMMA Sending ==
    ASSUME BasicInv, NEW c \in Conns, NEW message \in Sent, Send(c, message)
    PROVE  /\ stream' \in [Conns -> Seq(Sent)] /\ Len(stream[c]) \in Nat
           /\ \A x \in Conns : x # c => stream'[x] = stream[x]
           /\ \A i \in 1 .. Len(stream[c]) : /\ i \in 1 .. Len(stream'[c])
                                              /\ stream'[c][i] = stream[c][i]
           /\ \A i \in 1 .. Len(stream'[c]) : \/ i \in 1 .. Len(stream[c])
                                               \/ stream'[c][i] = message
           /\ ~Gone(c) => /\ Len(stream'[c]) = Len(stream[c]) + 1
                          /\ stream'[c][Len(stream[c]) + 1] = message
           /\ sender' = sender \/ sender' = "killed"
<1>1. stream \in [Conns -> Seq(Sent)] /\ stream[c] \in Seq(Sent)
    BY DEF BasicInv
<1>2. CASE /\ stream' = [stream EXCEPT ![c] = Append(@, message)]
           /\ sender' = sender
    <2> DEFINE old == stream[c]
               now == Append(old, message)
    <2>1. /\ now \in Seq(Sent) /\ Len(old) \in Nat /\ Len(now) = Len(old) + 1
          /\ now[Len(old) + 1] = message
          /\ \A i \in 1 .. Len(old) : now[i] = old[i]
        BY <1>1
    <2> HIDE DEF now
    <2>2. /\ stream' \in [Conns -> Seq(Sent)] /\ stream'[c] = now
          /\ \A x \in Conns : x # c => stream'[x] = stream[x]
        BY <1>1, <1>2, <2>1 DEF now
    <2>3. /\ \A i \in 1 .. Len(old) : i \in 1 .. Len(now)
          /\ \A i \in 1 .. Len(now) : i \in 1 .. Len(old) \/ now[i] = message
        BY <2>1
    <2> QED
        BY <1>2, <2>1, <2>2, <2>3
<1>3. CASE Gone(c) /\ sender' \in {sender, "killed"} /\ stream' = stream
    BY <1>1, <1>3
<1> QED
    BY <1>2, <1>3 DEF Send

-----------------------------------------------------------------------------
(* The sender's steps.                                                     *)

LEMMA Failing ==
    ASSUME BasicInv, NEW x \in Conns, Fails(x)
    PROVE  failed \subseteq failed' /\ failed' \subseteq Conns /\ (alive => x \in failed')
BY DEF BasicInv, Fails

LEMMA ConnectForDirectoryStep == IInv /\ ConnectForDirectory => IInv'
<1> SUFFICES ASSUME IInv, ConnectForDirectory PROVE IInv'
    OBVIOUS
<1>1. BasicInv /\ StackInv /\ CoverInv /\ AnnouncedInv /\ DirsInv /\ SendingInv
    BY DEF IInv
<1>2. /\ sender = "running" /\ stack # <<>> /\ sending = NoFile
      /\ sending' = sending /\ stream' = stream /\ thread[Top.dir] = "none"
      /\ fs' = fs /\ rootExists' = rootExists /\ alive' = alive /\ merged' = merged
    BY DEF ConnectForDirectory, Running, Connect, NoConnection, receiverVars
<1>3. /\ Top.dir \in Conns /\ Top.dir \notin Files
      /\ 1 \in 1 .. Len(stack) /\ Top = stack[1]
    BY <1>1, <1>2, TopFacts DEF StackInv
<1>4. CASE /\ Connect(Top.dir) /\ open' = open \cup {Top.dir}
           /\ stack' = stack /\ sender' = sender /\ failed' = failed
    <2>1. \A c \in Conns : thread'[c] = IF c = Top.dir THEN "backlog" ELSE thread[c]
        BY <1>1, <1>4 DEF Connect, BasicInv
    <2>2. \A c \in Conns : c = Top.dir => Visited(c) /\ Visited(c)'
        BY <1>3, <1>4 DEF Visited
    <2>3. \A c \in Conns : Visited(c)' <=> Visited(c)
        BY <1>4, <2>1, <2>2 DEF Visited
    <2>4. StackInv' /\ CoverInv'
        <3>1. failed \subseteq failed' /\ failed' \subseteq Conns
            BY <1>1, <1>4 DEF BasicInv
        <3> QED
            BY <1>1, <1>2, <1>4, <2>1, <2>3, <3>1, StackSame
    <2>5. BasicInv'
        BY <1>1, <1>2, <1>3, <1>4, <2>1 DEF Connect, BasicInv
    <2>6. \A f \in Files : thread'[f] = thread[f]
        BY <1>3, <2>1, TreeFacts
    <2>7. \A f \in Files : FileInv(f)' /\ FlowInv(f)'
        <3>1. \A e \in Entries : ParentExists(e) => ParentExists(e)'
            BY <1>2 DEF ParentExists
        <3> QED
            BY <1>2, <1>4, <2>6, <3>1, FilesSame DEF IInv
    <2>8. DirsInv' /\ AnnouncedInv' /\ SendingInv'
        <3>1. DirsInv'
            BY <1>1, <1>2, <1>4, <2>3, TreeFacts, DirsSame DEF BasicInv
        <3>2. AnnouncedInv'
            BY <1>1, <1>2, AnnouncedSame
        <3>3. SendingInv'
            BY <1>1, <1>2, <2>6 DEF SendingInv
        <3> QED
            BY <3>1, <3>2, <3>3
    <2> QED
        BY <2>4, <2>5, <2>7, <2>8 DEF IInv
<1>5. CASE /\ Fails(Top.dir) /\ Return /\ open' = open
           /\ thread' = thread \/ thread' = [thread EXCEPT ![Top.dir] = "backlog"]
    <2>1. /\ failed \subseteq failed' /\ failed' \subseteq Conns
          /\ alive => Top.dir \in failed'
        BY <1>1, <1>3, <1>5, Failing
    <2>2. StackInv' /\ CoverInv' /\ \A e \in Conns : Visited(e)' => Visited(e)
        BY <1>1, <1>2, <1>5, <2>1, Returning
    <2>3. /\ thread' \in [Conns -> {"none", "backlog", "metadata", "file", "other", "ended", "dropped"}]
          /\ \A c \in Conns : thread'[c] = "dropped" => thread[c] = "dropped"
          /\ \A f \in Files : thread'[f] = thread[f]
        BY <1>1, <1>3, <1>5, TreeFacts DEF BasicInv
    <2>4. BasicInv'
        <3>1. sender' \in {"running", "done", "killed"}
            BY <1>2, <1>5 DEF Return
        <3> QED
            BY <1>1, <1>2, <1>5, <2>1, <2>3, <3>1 DEF BasicInv
    <2>5. \A f \in Files : FileInv(f)' /\ FlowInv(f)'
        <3>1. \A e \in Entries : ParentExists(e) => ParentExists(e)'
            BY <1>2 DEF ParentExists
        <3> QED
            BY <1>2, <2>1, <2>3, <3>1, FilesSame DEF IInv
    <2>6. DirsInv' /\ AnnouncedInv' /\ SendingInv'
        <3>1. DirsInv'
            BY <1>1, <1>2, <2>1, <2>2, TreeFacts, DirsSame
        <3>2. AnnouncedInv'
            BY <1>1, <1>2, AnnouncedSame
        <3>3. SendingInv'
            BY <1>1, <1>2, <2>3 DEF SendingInv
        <3> QED
            BY <3>1, <3>2, <3>3
    <2> QED
        BY <2>2, <2>4, <2>5, <2>6 DEF IInv
<1> QED
    BY <1>4, <1>5 DEF ConnectForDirectory, Connect, NoConnection, receiverVars

LEMMA CloseDirectoryStep == IInv /\ CloseDirectory => IInv'
<1> SUFFICES ASSUME IInv, CloseDirectory PROVE IInv'
    OBVIOUS
<1>1. BasicInv /\ StackInv /\ CoverInv /\ AnnouncedInv /\ DirsInv /\ SendingInv
    BY DEF IInv
<1>2. /\ sender = "running" /\ stack # <<>> /\ sending = NoFile
      /\ sending' = sending /\ stream' = stream
      /\ fs' = fs /\ rootExists' = rootExists /\ alive' = alive /\ merged' = merged
      /\ thread[Top.dir] # "none" /\ Top.todo = {} /\ thread' = thread
      /\ Return /\ open' = open \ {Top.dir}
      /\ failed \subseteq failed' /\ failed' \subseteq Conns
      /\ failed' = failed
    BY DEF CloseDirectory, Listing, Running, receiverVars, IInv, BasicInv
<1>3. StackInv' /\ CoverInv' /\ \A e \in Conns : Visited(e)' => Visited(e)
    BY <1>1, <1>2, Returning
<1>4. BasicInv'
    BY <1>1, <1>2 DEF BasicInv, Return
<1>5. \A f \in Files : FileInv(f)' /\ FlowInv(f)'
    <2>1. \A e \in Entries : ParentExists(e) => ParentExists(e)'
        BY <1>2 DEF ParentExists
    <2> QED
        BY <1>2, <2>1, FilesSame DEF IInv
<1>6. DirsInv'
    BY <1>1, <1>2, <1>3, TreeFacts, DirsSame
<1>7. AnnouncedInv'
    BY <1>1, <1>2, AnnouncedSame
<1>8. SendingInv'
    BY <1>1, <1>2 DEF SendingInv
<1> QED
    BY <1>3, <1>4, <1>5, <1>6, <1>7, <1>8 DEF IInv

LEMMA CopyDirectoryStep == ASSUME NEW d \in Dirs PROVE IInv /\ CopyDirectory(d) => IInv'
<1> SUFFICES ASSUME IInv, CopyDirectory(d) PROVE IInv'
    OBVIOUS
<1>1. BasicInv /\ StackInv /\ CoverInv /\ AnnouncedInv /\ DirsInv /\ SendingInv
    BY DEF IInv
<1>2. /\ sender = "running" /\ stack # <<>> /\ sending = NoFile /\ sending' = sending
      /\ thread[Top.dir] # "none" /\ d \in Top.todo
      /\ open' = open /\ thread' = thread
      /\ fs' = fs /\ rootExists' = rootExists /\ alive' = alive /\ merged' = merged
      /\ failed' = failed /\ failed \subseteq failed' /\ failed' \subseteq Conns
    BY <1>1 DEF CopyDirectory, Listing, Running, receiverVars, BasicInv
<1>3. Top.dir \in Conns /\ Top.dir \notin Files /\ d \in Conns /\ DirMessage(d) \in Sent
    BY <1>1, <1>2, TopFacts, TreeFacts DEF StackInv, Sent
<1>4. CASE Gone(Top.dir) /\ Return /\ stream' = stream
    <2>1. alive => Top.dir \in failed'
        BY <1>1, <1>2, <1>3, <1>4 DEF Gone, BasicInv
    <2>2. StackInv' /\ CoverInv' /\ \A e \in Conns : Visited(e)' => Visited(e)
        BY <1>1, <1>2, <1>4, <2>1, Returning
    <2>3. BasicInv'
        <3>1. sender' \in {"running", "done", "killed"}
            BY <1>2, <1>4 DEF Return
        <3> QED
            BY <1>1, <1>2, <1>4, <3>1 DEF BasicInv
    <2>4. \A f \in Files : FileInv(f)' /\ FlowInv(f)'
        <3>1. \A e \in Entries : ParentExists(e) => ParentExists(e)'
            BY <1>2 DEF ParentExists
        <3> QED
            BY <1>2, <1>4, <3>1, FilesSame DEF IInv
    <2>5. DirsInv' /\ AnnouncedInv' /\ SendingInv'
        <3>1. DirsInv'
            BY <1>1, <1>2, <1>4, <2>2, TreeFacts, DirsSame
        <3>2. AnnouncedInv'
            BY <1>1, <1>4, AnnouncedSame
        <3>3. SendingInv'
            BY <1>1, <1>2 DEF SendingInv
        <3> QED
            BY <3>1, <3>2, <3>3
    <2> QED
        BY <2>2, <2>3, <2>4, <2>5 DEF IInv
<1>5. SUFFICES ASSUME Send(Top.dir, DirMessage(d)), stack' = <<Call(d)>> \o WithoutTop(d)
                PROVE  IInv'
    BY <1>4 DEF CopyDirectory
<1> DEFINE c == Top.dir
<1> HIDE DEF c
<1>6. /\ stream' \in [Conns -> Seq(Sent)] /\ Len(stream[c]) \in Nat
      /\ \A x \in Conns : x # c => stream'[x] = stream[x]
      /\ \A i \in 1 .. Len(stream[c]) : /\ i \in 1 .. Len(stream'[c])
                                         /\ stream'[c][i] = stream[c][i]
      /\ \A i \in 1 .. Len(stream'[c]) : \/ i \in 1 .. Len(stream[c])
                                          \/ stream'[c][i] = DirMessage(d)
      /\ ~Gone(c) => /\ Len(stream'[c]) = Len(stream[c]) + 1
                     /\ stream'[c][Len(stream[c]) + 1] = DirMessage(d)
      /\ sender' = sender \/ sender' = "killed"
    BY <1>1, <1>3, <1>5, Sending DEF c
<1>7. /\ StackInv' /\ CoverInv' /\ Parent[d] = c
      /\ \A x \in Conns : x # d => (Visited(x)' <=> Visited(x))
    <2>1. sender' # "done"
        BY <1>2, <1>6
    <2> QED
        BY <1>1, <1>2, <1>6, <1>5, <2>1, Coming DEF c
<1>8. BasicInv'
    BY <1>1, <1>2, <1>6 DEF BasicInv
<1>9. \A f \in Files : FileInv(f)' /\ FlowInv(f)'
    <2>1. \A e \in Entries : ParentExists(e) => ParentExists(e)'
        BY <1>2 DEF ParentExists
    <2>2. \A f \in Files : stream'[f] = stream[f]
        BY <1>3, <1>6, TreeFacts DEF c
    <2> QED
        BY <1>2, <2>1, <2>2, FilesSame DEF IInv
<1>10. AnnouncedInv'
    <2> SUFFICES ASSUME NEW y \in Conns \ Files, NEW i \in 1 .. Len(stream'[y])
                 PROVE  \E x \in Dirs : Parent[x] = y /\ stream'[y][i] = DirMessage(x)
        BY DEF AnnouncedInv
    <2>1. CASE y = c /\ i \notin 1 .. Len(stream[c])
        BY <1>6, <1>7, <2>1
    <2>2. CASE y = c /\ i \in 1 .. Len(stream[c])
        BY <1>1, <1>6, <2>2 DEF AnnouncedInv
    <2>3. CASE y # c
        BY <1>1, <1>6, <2>3 DEF AnnouncedInv
    <2> QED
        BY <2>1, <2>2, <2>3
<1>11. DirsInv'
    <2>1. \A x \in Dirs : ParentExists(x)' <=> ParentExists(x)
        BY <1>2 DEF ParentExists
    <2>2. ASSUME alive', rootExists', NEW x \in Dirs, Parent[x] = Root, Visited(x)'
          PROVE  \/ fs'[x] = Directory \/ Root \in merged' \/ x \in LeftOut'
                 \/ \E i \in 1 .. Len(stream'[Root]) : stream'[Root][i] = DirMessage(x)
        <3>1. CASE x = d
            <4>1. c = Root
                BY <1>7, <2>2, <3>1
            <4>2. CASE Gone(c)
                <5>1. c \in failed'
                    BY <1>1, <1>2, <1>3, <2>2, <4>2 DEF Gone, BasicInv, c
                <5> QED
                    BY <1>2, <2>2, <4>1, <5>1, LeavingOut, TreeFacts
            <4>3. CASE ~Gone(c)
                <5>1. Len(stream[c]) + 1 \in 1 .. Len(stream'[c])
                    BY <1>6, <4>3
                <5> QED
                    BY <1>6, <3>1, <4>1, <4>3, <5>1
            <4> QED
                BY <4>2, <4>3
        <3>2. CASE x # d
            <4>1. Visited(x)
                BY <1>7, <2>2, <3>2, TreeFacts
            <4>2. \/ fs[x] = Directory \/ Root \in merged \/ x \in LeftOut
                  \/ \E i \in 1 .. Len(stream[Root]) : stream[Root][i] = DirMessage(x)
                BY <1>1, <1>2, <2>2, <4>1 DEF DirsInv
            <4>3. ASSUME NEW i \in 1 .. Len(stream[Root])
                  PROVE  i \in 1 .. Len(stream'[Root]) /\ stream'[Root][i] = stream[Root][i]
                <5>1. CASE c = Root
                    BY <1>6, <5>1
                <5>2. CASE c # Root
                    BY <1>6, <5>2, TreeFacts
                <5> QED
                    BY <5>1, <5>2
            <4> QED
                BY <1>2, <4>2, <4>3, LeavingOut
        <3> QED
            BY <3>1, <3>2
    <2> QED
        BY <1>1, <1>2, <2>1, <2>2 DEF DirsInv
<1>12. SendingInv'
    BY <1>1, <1>2 DEF SendingInv
<1> QED
    BY <1>7, <1>8, <1>9, <1>10, <1>11, <1>12 DEF IInv

\* A step at the file f leaves the directories alone.
LEMMA AtFile ==
    ASSUME NEW f \in Files, AnnouncedInv, DirsInv,
           rootExists' = rootExists, alive' => alive,
           \A e \in Entries : e # f => fs'[e] = fs[e],
           \A c \in Conns : c # f => stream'[c] = stream[c],
           \A c : c \in merged => c \in merged',
           failed \subseteq failed', failed' \subseteq Conns,
           \A c \in Conns : c # f => (Visited(c)' => Visited(c))
    PROVE  /\ AnnouncedInv' /\ DirsInv'
           /\ \A e \in Entries : ParentExists(e) => ParentExists(e)'
<1>1. \A d \in Dirs : d # f /\ d \in Entries /\ d \in Conns
    BY TreeFacts
<1>2. Root \in Conns /\ Root # f
    BY TreeFacts
<1>3. DirsInv'
    BY <1>1, <1>2, DirsSame
<1>4. AnnouncedInv'
    BY AnnouncedSame
<1>5. \A e \in Entries : ParentExists(e) => ParentExists(e)'
    BY <1>1, ParentsStay
<1> QED
    BY <1>3, <1>4, <1>5

LEMMA OtherFiles ==
    ASSUME NEW f \in Files, \A g \in Files : FileInv(g) /\ FlowInv(g),
           \A e \in Entries : e # f => fs'[e] = fs[e],
           \A c \in Conns : c # f => stream'[c] = stream[c] /\ thread'[c] = thread[c],
           \A c : c \in merged => c \in merged',
           \A e \in Entries : ParentExists(e) => ParentExists(e)',
           alive' => alive, failed \subseteq failed',
           \/ sending' = sending
           \/ sending \in {NoFile, sending'} /\ sending'.file = f
           \/ sending.file = f /\ sending' = NoFile
           \/ sending.file = f /\ sending'.file = f
    PROVE  \A g \in Files : g # f => FileInv(g)' /\ FlowInv(g)'
<1> SUFFICES ASSUME NEW g \in Files, g # f PROVE FileInv(g)' /\ FlowInv(g)'
    OBVIOUS
<1>1. g \in Entries /\ g \in Conns /\ g # Root
    BY TreeFacts
<1>2. fs'[g] = fs[g] /\ thread'[g] = thread[g] /\ stream'[g] = stream[g]
    BY <1>1
<1>3. FileInv(g)'
    BY <1>1, <1>2, FileSame
<1>4. sending' = sending \/ (sending.file # g /\ sending'.file # g)
    BY <1>1 DEF NoFile
<1>5. FlowInv(g)'
    BY <1>2, <1>4, FlowSame
<1> QED
    BY <1>3, <1>5

LEMMA SkipFileStep == ASSUME NEW f \in Files PROVE IInv /\ SkipFile(f) => IInv'
<1> SUFFICES ASSUME IInv, SkipFile(f) PROVE IInv'
    OBVIOUS
<1>1. BasicInv /\ StackInv /\ CoverInv /\ AnnouncedInv /\ DirsInv /\ SendingInv
    BY DEF IInv
<1>2. /\ sender = "running" /\ stack # <<>> /\ sending = NoFile /\ sending' = sending
      /\ thread[Top.dir] # "none" /\ f \in Top.todo
      /\ stack' = WithoutTop(f) /\ open' = open /\ thread' = thread /\ sender' = sender
      /\ fs' = fs /\ rootExists' = rootExists /\ alive' = alive /\ merged' = merged
      /\ stream' = stream /\ Fails(f)
    BY DEF SkipFile, Listing, Running, NoConnection, receiverVars
<1>3. failed \subseteq failed' /\ failed' \subseteq Conns /\ (alive => f \in failed')
    BY <1>1, <1>2, Failing, TreeFacts
<1>4. /\ StackInv' /\ CoverInv'
      /\ \A c \in Conns : c # f => (Visited(c)' <=> Visited(c))
    BY <1>1, <1>2, <1>3, Coming
<1>5. BasicInv'
    BY <1>1, <1>2, <1>3 DEF BasicInv
<1>6. AnnouncedInv' /\ DirsInv' /\ \A e \in Entries : ParentExists(e) => ParentExists(e)'
    BY <1>1, <1>2, <1>4, <1>3, AtFile
<1>7. \A g \in Files : FileInv(g)' /\ FlowInv(g)'
    BY <1>2, <1>6, <1>3, FilesSame DEF IInv
<1>8. SendingInv'
    BY <1>1, <1>2 DEF SendingInv
<1> QED
    BY <1>4, <1>5, <1>6, <1>7, <1>8 DEF IInv

LEMMA CopyFileStep == ASSUME NEW f \in Files PROVE IInv /\ CopyFile(f) => IInv'
<1> SUFFICES ASSUME IInv, CopyFile(f) PROVE IInv'
    OBVIOUS
<1>1. BasicInv /\ StackInv /\ CoverInv /\ AnnouncedInv /\ DirsInv /\ SendingInv
    BY DEF IInv
<1>2. /\ sender = "running" /\ stack # <<>> /\ sending = NoFile
      /\ thread[Top.dir] # "none" /\ f \in Top.todo
      /\ stack' = WithoutTop(f) /\ sender' = sender
      /\ fs' = fs /\ rootExists' = rootExists /\ alive' = alive /\ merged' = merged
      /\ alive /\ thread' = [thread EXCEPT ![f] = "backlog"]
    BY DEF CopyFile, Listing, Running, Connect
<1>3. f \in Conns /\ f \in Entries /\ Chunks[f] \in Nat /\ f # Root
    BY TreeFacts
<1>4. \/ /\ open' = open \cup {f} /\ failed' = failed
         /\ stream' = [stream EXCEPT ![f] = <<FileMessage(f)>>]
         /\ sending' = [file |-> f, next |-> 1]
      \/ /\ open' = open /\ stream' = stream /\ sending' = sending
         /\ Fails(f)
    BY DEF CopyFile
<1>5. failed \subseteq failed' /\ failed' \subseteq Conns
    BY <1>1, <1>3, <1>4, Failing DEF BasicInv
<1>6. /\ StackInv' /\ CoverInv' /\ thread[f] = "none"
      /\ \A c \in Conns : c # f => (Visited(c)' <=> Visited(c))
    BY <1>1, <1>2, <1>5, Coming
<1>7. /\ thread'[f] = "backlog"
      /\ \A c \in Conns : c # f => stream'[c] = stream[c] /\ thread'[c] = thread[c]
    BY <1>1, <1>2, <1>3, <1>4 DEF BasicInv
<1>8. BasicInv'
    <2>1. FileMessage(f) \in Sent
        BY DEF Sent
    <2>2. <<FileMessage(f)>> \in Seq(Sent)
        BY <2>1
    <2>3. stream' \in [Conns -> Seq(Sent)]
        BY <1>1, <1>4, <2>2 DEF BasicInv
    <2>4. \/ sending' = NoFile
          \/ /\ sending' \in [file : Files, next : Nat]
             /\ sending'.next \in 1 .. Chunks[sending'.file] + 1
        BY <1>2, <1>3, <1>4
    <2>5. /\ thread' \in [Conns -> {"none", "backlog", "metadata", "file", "other", "ended", "dropped"}]
          /\ \A c \in Conns : thread'[c] = "dropped" => thread[c] = "dropped"
          /\ open' \subseteq Conns
        BY <1>1, <1>2, <1>3, <1>4 DEF BasicInv
    <2> QED
        BY <1>1, <1>2, <1>5, <2>3, <2>4, <2>5 DEF BasicInv
<1>9. AnnouncedInv' /\ DirsInv' /\ \A e \in Entries : ParentExists(e) => ParentExists(e)'
    BY <1>1, <1>2, <1>5, <1>6, <1>7, AtFile
<1>10. \A g \in Files : g # f => FileInv(g)' /\ FlowInv(g)'
    <2>1. sending' = sending \/ (sending \in {NoFile, sending'} /\ sending'.file = f)
        BY <1>2, <1>4
    <2> QED
        BY <1>2, <1>5, <1>7, <1>9, <2>1, OtherFiles DEF IInv
<1>11. FileInv(f)'
    <2>1. FileInv(f)
        BY DEF IInv
    <2> QED
        BY <1>2, <1>6, <1>7, <2>1 DEF FileInv
<1>12. CASE stream' = [stream EXCEPT ![f] = <<FileMessage(f)>>] /\ sending' = [file |-> f, next |-> 1]
    <2>1. FlowInv(f)'
        <3>1. Taken(f)' = 0 /\ Due(f)' = 1
            BY <1>7, <1>12 DEF Taken, Due
        <3>2. stream'[f] = <<FileMessage(f)>>
            BY <1>1, <1>3, <1>12 DEF BasicInv
        <3>3. Len(stream'[f]) = 1 /\ stream'[f][1] = Piece(f, 0)
            BY <3>2 DEF Piece
        <3> QED
            BY <3>1, <3>3 DEF FlowInv
    <2>2. SendingInv'
        BY <1>7, <1>12 DEF SendingInv
    <2> QED
        BY <1>6, <1>8, <1>9, <1>10, <1>11, <2>1, <2>2 DEF IInv
\* The file cannot be opened.
<1>13. CASE stream' = stream /\ sending' = sending /\ Fails(f)
    <2>1. f \in failed' /\ sending'.file # f
        BY <1>1, <1>2, <1>3, <1>13, Failing DEF NoFile
    <2>2. stream[f] = <<>>
        BY <1>6 DEF IInv, FileInv
    <2>3. FlowInv(f)'
        BY <1>7, <1>13, <2>1, <2>2 DEF FlowInv, Unopened
    <2>4. SendingInv'
        BY <1>1, <1>7, <1>13, <2>1, TreeFacts DEF SendingInv
    <2> QED
        BY <1>6, <1>8, <1>9, <1>10, <1>11, <2>3, <2>4 DEF IInv
<1> QED
    BY <1>4, <1>12, <1>13

\* What a step of the sender does to the file that is being sent.
LEMMA SendingStep ==
    ASSUME IInv, sender = "running", sending # NoFile, NEW f, f = sending.file,
           Send(f, Piece(f, sending.next)),
           sending' = IF sending.next <= Chunks[f]
                      THEN [sending EXCEPT !.next = @ + 1] ELSE NoFile,
           open' \subseteq open, stack' = stack, thread' = thread, fs' = fs,
           rootExists' = rootExists, alive' = alive, merged' = merged, failed' = failed
    PROVE  IInv'
<1>1. BasicInv /\ StackInv /\ CoverInv /\ AnnouncedInv /\ DirsInv /\ SendingInv
    BY DEF IInv
<1> DEFINE n == sending.next
<1>2. /\ f \in Files /\ n \in 1 .. Chunks[f] + 1 /\ n \in Nat
      /\ sending = [file |-> f, next |-> n]
    BY <1>1 DEF BasicInv
<1>3. f \in Conns /\ f \in Entries /\ Chunks[f] \in Nat /\ f # Root
    BY <1>2, TreeFacts
<1>4. Piece(f, n) \in Sent
    BY <1>2, <1>3, PieceFacts
<1> DEFINE old == stream[f]
           now == stream'[f]
           piece == Piece(f, n)
<1>5. /\ stream' \in [Conns -> Seq(Sent)] /\ Len(old) \in Nat
      /\ \A c \in Conns : c # f => stream'[c] = stream[c]
      /\ \A i \in 1 .. Len(old) : i \in 1 .. Len(now) /\ now[i] = old[i]
      /\ \A i \in 1 .. Len(now) : i \in 1 .. Len(old) \/ now[i] = piece
      /\ ~Gone(f) => Len(now) = Len(old) + 1 /\ now[Len(old) + 1] = piece
      /\ sender' = sender \/ sender' = "killed"
    BY <1>1, <1>3, <1>4, Sending
<1>6. \/ n <= Chunks[f] /\ sending' = [file |-> f, next |-> n + 1]
      \/ n = Chunks[f] + 1 /\ sending' = NoFile
    <2>1. CASE n <= Chunks[f]
        BY <1>2, <2>1
    <2>2. CASE ~(n <= Chunks[f])
        BY <1>2, <1>3, <2>2
    <2> QED
        BY <2>1, <2>2
<1> HIDE DEF n
<1>7. StackInv' /\ CoverInv'
    <2>1. \A c \in Conns : Visited(c)' <=> Visited(c)
        BY DEF Visited
    <2>2. sender' # "done" /\ failed \subseteq failed' /\ failed' \subseteq Conns
        BY <1>1, <1>5 DEF BasicInv
    <2> QED
        BY <1>1, <2>1, <2>2, StackSame
<1>8. BasicInv'
    <2>1. CASE sending' = NoFile
        BY <1>1, <1>5, <2>1 DEF BasicInv
    <2>2. CASE n <= Chunks[f] /\ sending' = [file |-> f, next |-> n + 1]
        <3>1. n + 1 \in Nat /\ n + 1 \in 1 .. Chunks[f] + 1
            BY <1>2, <1>3, <2>2
        <3>2. sending' \in [file : Files, next : Nat] /\ sending'.next \in 1 .. Chunks[sending'.file] + 1
            BY <1>2, <2>2, <3>1
        <3> QED
            BY <1>1, <1>5, <3>2 DEF BasicInv
    <2> QED
        BY <1>6, <2>1, <2>2
<1>9. AnnouncedInv' /\ DirsInv' /\ \A e \in Entries : ParentExists(e) => ParentExists(e)'
    <2>1. \A c \in Conns : Visited(c)' => Visited(c)
        BY DEF Visited
    <2>2. failed \subseteq failed' /\ failed' \subseteq Conns
        BY <1>1 DEF BasicInv
    <2> QED
        BY <1>1, <1>2, <1>5, <2>1, <2>2, AtFile
<1>10. \A g \in Files : g # f => FileInv(g)' /\ FlowInv(g)'
    <2>1. sending' = NoFile \/ sending'.file = f
        BY <1>6
    <2> QED
        BY <1>2, <1>5, <1>9, <2>1, OtherFiles DEF IInv
<1>11. FileInv(f)'
    <2>1. thread[f] # "none" /\ FileInv(f)
        BY <1>1, <1>2 DEF IInv, SendingInv
    <2>2. Data(f)' = Data(f)
        BY DEF Data
    <2> QED
        BY <1>3, <1>9, <2>1, <2>2 DEF FileInv
<1>12. FlowInv(f)'
    <2> SUFFICES ASSUME alive, thread[f] \in {"backlog", "metadata", "file"} PROVE FlowInv(f)'
        BY DEF FlowInv
    <2>1. ~Gone(f)
        BY DEF Gone
    <2> DEFINE t == Taken(f)
    <2>2. Taken(f)' = t
        BY DEF Taken, Data
    <2>3. /\ \A i \in 1 .. Len(old) : old[i] = Piece(f, t + i - 1)
          /\ t + Len(old) = n
        BY <1>2 DEF IInv, FlowInv, Unopened, Due, n
    <2>4. t \in Nat
        <3>1. thread[f] = "file" => Data(f) \in Seq(Sent)
            BY <1>2 DEF IInv, FileInv
        <3> QED
            BY <3>1 DEF Taken
    <2>5. Due(f)' = n + 1
        <3>1. CASE sending' = [file |-> f, next |-> n + 1]
            BY <3>1 DEF Due
        <3>2. CASE n = Chunks[f] + 1 /\ sending' = NoFile
            <4>1. sending'.file # f
                BY <1>3, <3>2 DEF NoFile
            <4>2. Chunks[f] + 2 = n + 1
                BY <1>3, <3>2
            <4> QED
                BY <4>1, <4>2 DEF Due
        <3> QED
            BY <1>6, <3>1, <3>2
    <2> HIDE DEF t
    <2>6. t + (Len(old) + 1) - 1 = n
        BY <1>2, <1>5, <2>3, <2>4, <2>1
    <2>7. \A i \in 1 .. Len(now) : now[i] = Piece(f, t + i - 1)
        <3> SUFFICES ASSUME NEW i \in 1 .. Len(now) PROVE now[i] = Piece(f, t + i - 1)
            OBVIOUS
        <3>1. i \in 1 .. Len(old) \/ i = Len(old) + 1
            BY <1>5, <2>1
        <3> QED
            BY <1>5, <2>3, <2>6, <2>1, <3>1
    <2>8. t + Len(now) = n + 1
        <3>1. Len(now) = Len(old) + 1 /\ Len(old) \in Nat /\ t + Len(old) = n
            BY <1>5, <2>3, <2>1
        <3> QED
            BY ONLY <2>4, <3>1, SMT
    <2> QED
        BY <2>2, <2>5, <2>7, <2>8 DEF FlowInv
<1>13. SendingInv'
    BY <1>1, <1>3, <1>6, TreeFacts DEF SendingInv, NoFile
<1> QED
    BY <1>7, <1>8, <1>9, <1>10, <1>11, <1>12, <1>13 DEF IInv

LEMMA SendChunkStep == IInv /\ SendChunk => IInv'
<1> SUFFICES ASSUME IInv, SendChunk PROVE IInv'
    OBVIOUS
<1> DEFINE f == sending.file
<1>1. sending \in [file : Files, next : Nat] /\ sending.next \in 1 .. Chunks[f] + 1
    BY DEF IInv, BasicInv, SendChunk
<1>2. sending.next <= Chunks[f] /\ Chunks[f] \in Nat
    BY <1>1, TreeFacts DEF SendChunk
<1>3. Piece(f, sending.next) = Chunk(f, sending.next)
    BY <1>1, <1>2 DEF Piece
<1>4. Send(f, Piece(f, sending.next))
    BY <1>3 DEF SendChunk
<1> QED
    BY <1>2, <1>4, SendingStep DEF SendChunk, receiverVars

LEMMA SendEndStep == IInv /\ SendEnd => IInv'
<1> SUFFICES ASSUME IInv, SendEnd PROVE IInv'
    OBVIOUS
<1> DEFINE f == sending.file
<1>1. sending \in [file : Files, next : Nat] /\ sending.next \in 1 .. Chunks[f] + 1
    BY DEF IInv, BasicInv, SendEnd
<1>2. ~(sending.next <= Chunks[f]) /\ Chunks[f] \in Nat
    BY <1>1, TreeFacts DEF SendEnd
<1>3. Piece(f, sending.next) = EndMarker
    BY <1>1, <1>2 DEF Piece
<1>4. Send(f, Piece(f, sending.next))
    BY <1>3 DEF SendEnd
<1> QED
    BY <1>2, <1>4, SendingStep DEF SendEnd, receiverVars

-----------------------------------------------------------------------------
(* The receiver's steps.                                                   *)

LEMMA ReceiverStack ==
    ASSUME StackInv, CoverInv, UNCHANGED senderVars, alive' => alive,
           failed \subseteq failed', failed' \subseteq Conns,
           \A c \in Conns : thread'[c] = "none" <=> thread[c] = "none"
    PROVE  StackInv' /\ CoverInv' /\ \A c \in Conns : Visited(c)' <=> Visited(c)
<1>1. /\ stack' = stack /\ sending' = sending /\ sender' = sender
    BY DEF senderVars
<1>2. \A c \in Conns : Visited(c)' <=> Visited(c)
    BY <1>1 DEF Visited
<1> QED
    BY <1>1, <1>2, StackSame

LEMMA AcceptStep == ASSUME NEW c \in Conns PROVE IInv /\ Accept(c) => IInv'
<1> SUFFICES ASSUME IInv, Accept(c) PROVE IInv'
    OBVIOUS
<1>1. BasicInv /\ StackInv /\ CoverInv /\ AnnouncedInv /\ DirsInv /\ SendingInv
    BY DEF IInv
<1>2. /\ UNCHANGED senderVars /\ stream' = stream /\ fs' = fs /\ rootExists' = rootExists
      /\ alive' = alive /\ merged' = merged /\ sending' = sending
      /\ open' = open /\ sender' = sender
      /\ thread[c] = "backlog" /\ thread' = [thread EXCEPT ![c] = "metadata"]
      /\ failed' = failed /\ failed \subseteq failed' /\ failed' \subseteq Conns
    BY <1>1 DEF Accept, senderVars, BasicInv
<1>3. /\ thread'[c] = "metadata"
      /\ \A x \in Conns : x # c => thread'[x] = thread[x]
    BY <1>1, <1>2 DEF BasicInv
<1>4. /\ StackInv' /\ CoverInv' /\ \A x \in Conns : Visited(x)' <=> Visited(x)
    BY <1>1, <1>2, <1>3, ReceiverStack
<1>5. BasicInv'
    BY <1>1, <1>2, <1>3 DEF BasicInv
<1>6. AnnouncedInv' /\ DirsInv' /\ \A e \in Entries : ParentExists(e)' <=> ParentExists(e)
    <2>1. AnnouncedInv'
        BY <1>1, <1>2, AnnouncedSame
    <2>2. DirsInv'
        BY <1>1, <1>2, <1>4, TreeFacts, DirsSame
    <2>3. \A e \in Entries : ParentExists(e)' <=> ParentExists(e)
        BY <1>2 DEF ParentExists
    <2> QED
        BY <2>1, <2>2, <2>3
<1>7. ASSUME NEW f \in Files PROVE FileInv(f)' /\ FlowInv(f)'
    <2>1. FileInv(f) /\ FlowInv(f) /\ f \in Entries /\ f \in Conns
        BY TreeFacts DEF IInv
    <2>2. CASE f # c
        BY <1>2, <1>3, <1>6, <2>1, <2>2, FileSame, FlowSame
    <2>3. CASE f = c
        <3>1. Taken(f)' = 0 /\ Taken(f) = 0 /\ Due(f)' = Due(f)
            BY <1>2, <1>3, <2>3 DEF Taken, Due
        <3>2. FileInv(f)'
            BY <1>2, <1>3, <2>1, <2>3 DEF FileInv
        <3>3. Unopened(f) => Unopened(f)'
            BY <1>2, <1>3, <2>3 DEF Unopened
        <3>4. FlowInv(f)'
            BY <1>2, <1>3, <2>1, <2>3, <3>1, <3>3 DEF FlowInv
        <3> QED
            BY <3>2, <3>4
    <2> QED
        BY <2>2, <2>3
<1>8. SendingInv'
    BY <1>1, <1>2, <1>3, TreeFacts DEF SendingInv
<1> QED
    BY <1>4, <1>5, <1>6, <1>7, <1>8 DEF IInv

LEMMA AcceptNoThreadStep == ASSUME NEW c \in Conns PROVE IInv /\ AcceptNoThread(c) => IInv'
<1> SUFFICES ASSUME IInv, AcceptNoThread(c) PROVE IInv'
    OBVIOUS
<1>1. BasicInv /\ StackInv /\ CoverInv /\ AnnouncedInv /\ DirsInv /\ SendingInv
    BY DEF IInv
<1>2. /\ UNCHANGED senderVars /\ fs' = fs /\ rootExists' = rootExists
      /\ alive /\ alive' = alive /\ merged' = merged /\ sending' = sending
      /\ open' = open /\ sender' = sender /\ Fails(c)
      /\ thread[c] = "backlog" /\ thread' = [thread EXCEPT ![c] = "dropped"]
      /\ stream' = [stream EXCEPT ![c] = <<>>]
    BY DEF AcceptNoThread, senderVars
<1>3. failed \subseteq failed' /\ failed' \subseteq Conns /\ c \in failed'
    BY <1>1, <1>2, Failing
<1>4. /\ thread'[c] = "dropped" /\ stream'[c] = <<>>
      /\ \A x \in Conns : x # c => thread'[x] = thread[x] /\ stream'[x] = stream[x]
    BY <1>1, <1>2 DEF BasicInv
<1>5. /\ StackInv' /\ CoverInv' /\ \A x \in Conns : Visited(x)' <=> Visited(x)
    BY <1>1, <1>2, <1>3, <1>4, ReceiverStack
<1>6. BasicInv'
    <2>1. <<>> \in Seq(Sent)
        OBVIOUS
    <2>2. /\ stream' \in [Conns -> Seq(Sent)]
          /\ thread' \in [Conns -> {"none", "backlog", "metadata", "file", "other", "ended", "dropped"}]
        BY <1>1, <1>2, <2>1 DEF BasicInv
    <2>3. \A x \in Conns : thread'[x] = "dropped" => x \in failed'
        BY <1>1, <1>3, <1>4 DEF BasicInv
    <2> QED
        BY <1>1, <1>2, <1>3, <2>2, <2>3 DEF BasicInv
<1>7. AnnouncedInv'
    BY <1>1, <1>4 DEF AnnouncedInv
<1>8. \A e \in Entries : ParentExists(e)' <=> ParentExists(e)
    BY <1>2 DEF ParentExists
<1>9. DirsInv'
    <2>1. CASE c = Root
        <3>1. \A d \in Dirs : Parent[d] = Root => d \in LeftOut'
            BY <1>3, <2>1, LeavingOut, TreeFacts
        <3>2. \A d \in Dirs : d \in Entries
            BY TreeFacts
        <3> QED
            BY <1>1, <1>2, <1>8, <3>1, <3>2 DEF DirsInv
    <2>2. CASE c # Root
        BY <1>1, <1>2, <1>3, <1>4, <1>5, <2>2, TreeFacts, DirsSame
    <2> QED
        BY <2>1, <2>2
<1>10. ASSUME NEW f \in Files PROVE FileInv(f)' /\ FlowInv(f)'
    <2>1. FileInv(f) /\ FlowInv(f) /\ f \in Entries /\ f \in Conns
        BY TreeFacts DEF IInv
    <2>2. CASE f # c
        BY <1>2, <1>3, <1>4, <1>8, <2>1, <2>2, FileSame, FlowSame
    <2>3. CASE f = c
        BY <1>2, <1>4, <2>1, <2>3 DEF FileInv, FlowInv
    <2> QED
        BY <2>2, <2>3
<1>11. SendingInv'
    BY <1>1, <1>2, <1>4, TreeFacts DEF SendingInv
<1> QED
    BY <1>5, <1>6, <1>7, <1>9, <1>10, <1>11 DEF IInv

LEMMA ReceiveDirectoryStep == ASSUME NEW c \in Conns PROVE IInv /\ ReceiveDirectory(c) => IInv'
<1> SUFFICES ASSUME IInv, ReceiveDirectory(c) PROVE IInv'
    OBVIOUS
<1>1. BasicInv /\ StackInv /\ CoverInv /\ AnnouncedInv /\ DirsInv /\ SendingInv
    BY DEF IInv
<1>2. PICK k \in 1 .. Len(stream[c]) :
          /\ Receive(c, k)
          /\ \/ fs' = MadeDir(c, k) /\ failed' = failed
             \/ k = 1 /\ Fails(Head(stream[c])[2]) /\ fs' = fs
    BY DEF ReceiveDirectory
<1>3. /\ UNCHANGED senderVars /\ thread' = thread /\ rootExists' = rootExists
      /\ alive /\ alive' = alive /\ c \notin Files /\ sending' = sending
      /\ open' = open /\ sender' = sender
    BY DEF ReceiveDirectory, senderVars
<1>4. /\ k \in 1 .. Len(stream[c]) /\ k \in Nat
      /\ stream[c] \in Seq(Sent) /\ Len(stream[c]) \in Nat
      /\ stream' \in [Conns -> Seq(Sent)]
      /\ Len(stream'[c]) = Len(stream[c]) - k
      /\ \A i \in 1 .. Len(stream[c]) - k : stream'[c][i] = stream[c][k + i]
      /\ \A x \in Conns : x # c => stream'[x] = stream[x]
      /\ merged' \subseteq Conns
      /\ \A x : x \in merged => x \in merged'
      /\ \A i \in 1 .. k : k # 1 /\ stream[c][i][1] \notin Files => c \in merged'
    BY <1>1, <1>2, Receiving
<1>5. PICK d \in Dirs : Parent[d] = c /\ stream[c][1] = DirMessage(d)
    <2>1. 1 \in 1 .. Len(stream[c])
        BY <1>4
    <2> QED
        BY <1>1, <1>3, <2>1 DEF AnnouncedInv
<1>6. d \in Entries /\ d \in Conns /\ d \notin Files
    BY TreeFacts
<1>7. \/ /\ failed' = failed
         /\ fs' = IF k = 1 /\ ParentExists(d) /\ fs[d] = Absent
                  THEN [fs EXCEPT ![d] = Directory] ELSE fs
      \/ Fails(d) /\ fs' = fs
    <2>1. Head(stream[c])[2] = d
        BY <1>4, <1>5 DEF DirMessage
    <2> QED
        BY <1>2, <2>1 DEF MadeDir
<1>8. failed \subseteq failed' /\ failed' \subseteq Conns
    BY <1>1, <1>6, <1>7, Failing DEF BasicInv
<1>9. /\ fs' = [e \in Entries |-> fs'[e]]
      /\ \A e \in Entries : e # d => fs'[e] = fs[e]
      /\ \/ fs'[d] = IF k = 1 /\ ParentExists(d) /\ fs[d] = Absent THEN Directory ELSE fs[d]
         \/ fs'[d] = fs[d] /\ d \in failed'
    BY <1>1, <1>3, <1>6, <1>7, Failing DEF BasicInv
<1>10. \A e \in Entries : ParentExists(e) => ParentExists(e)'
    <2>1. \A x \in Dirs : fs[x] = Directory => fs'[x] = Directory
        BY <1>9, TreeFacts
    <2> QED
        BY <1>3, <2>1, ParentsStay
<1>11. /\ StackInv' /\ CoverInv' /\ \A x \in Conns : Visited(x)' <=> Visited(x)
    BY <1>1, <1>3, <1>8, ReceiverStack
<1>12. BasicInv'
    BY <1>1, <1>3, <1>4, <1>9, <1>8 DEF BasicInv
<1>13. \A f \in Files : FileInv(f)' /\ FlowInv(f)'
    <2>1. \A f \in Files : f # c /\ f # d /\ f \in Entries /\ f \in Conns
        BY <1>3, <1>6, TreeFacts
    <2>2. \A f \in Files : fs'[f] = fs[f] /\ stream'[f] = stream[f]
        BY <1>4, <1>9, <2>1
    <2> QED
        BY <1>3, <1>4, <1>10, <1>8, <2>2, FilesSame DEF IInv
<1>14. AnnouncedInv'
    <2> SUFFICES ASSUME NEW x \in Conns \ Files, NEW i \in 1 .. Len(stream'[x])
                 PROVE  \E y \in Dirs : Parent[y] = x /\ stream'[x][i] = DirMessage(y)
        BY DEF AnnouncedInv
    <2>1. CASE x = c
        <3>1. k + i \in 1 .. Len(stream[c]) /\ stream'[c][i] = stream[c][k + i]
            BY <1>4, <2>1
        <3> QED
            BY <1>1, <2>1, <3>1 DEF AnnouncedInv
    <2>2. CASE x # c
        BY <1>1, <1>4, <2>2 DEF AnnouncedInv
    <2> QED
        BY <2>1, <2>2
<1>15. DirsInv'
    <2>1. \A x \in Dirs : fs'[x] \in {Absent, Directory}
        BY <1>1, <1>9, TreeFacts DEF DirsInv
    <2>2. ASSUME NEW x \in Dirs, fs'[x] = Directory PROVE ParentExists(x)'
        <3>1. x \in Entries
            BY TreeFacts
        <3>2. fs[x] = Directory \/ (x = d /\ ParentExists(d))
            BY <1>9, <2>2, <3>1
        <3> QED
            BY <1>1, <1>10, <3>1, <3>2 DEF DirsInv
    <2>3. ASSUME alive', rootExists', NEW x \in Dirs, Parent[x] = Root, Visited(x)'
          PROVE  \/ fs'[x] = Directory \/ Root \in merged' \/ x \in LeftOut'
                 \/ \E i \in 1 .. Len(stream'[Root]) : stream'[Root][i] = DirMessage(x)
        <3>1. x \in Entries /\ x \in Conns /\ Root \in Conns
            BY TreeFacts
        <3>2. LeftOut \subseteq LeftOut' /\ failed' \subseteq LeftOut'
            BY <1>8, LeavingOut
        <3>3. \/ fs[x] = Directory \/ Root \in merged \/ x \in LeftOut
              \/ \E i \in 1 .. Len(stream[Root]) : stream[Root][i] = DirMessage(x)
            BY <1>1, <1>3, <1>11, <2>3, <3>1 DEF DirsInv
        <3>4. ASSUME NEW i \in 1 .. Len(stream[Root]), stream[Root][i] = DirMessage(x),
                     c = Root, i \in 1 .. k
              PROVE  fs'[x] = Directory \/ Root \in merged' \/ x \in LeftOut'
            <4>1. k # 1 => Root \in merged'
                <5>1. stream[Root][i][1] \notin Files
                    BY <3>4, TreeAssumption DEF DirMessage
                <5> QED
                    BY <1>4, <3>4, <5>1
            <4>2. k = 1 => x = d
                <5>1. k = 1 => i = 1
                    BY <3>4
                <5> QED
                    BY <1>5, <3>4, <5>1 DEF DirMessage
            <4>3. ParentExists(x)
                BY <1>3, <2>3 DEF ParentExists
            <4>4. fs[x] \in {Absent, Directory}
                BY <1>1 DEF DirsInv
            <4> QED
                BY <1>9, <3>2, <4>1, <4>2, <4>3, <4>4
        <3>5. ASSUME NEW i \in 1 .. Len(stream[Root]), c = Root, i \notin 1 .. k
              PROVE  i - k \in 1 .. Len(stream'[Root]) /\ stream'[Root][i - k] = stream[Root][i]
            BY <1>4, <3>5
        <3>6. c # Root => stream'[Root] = stream[Root]
            BY <1>4, <3>1
        <3>7. fs[x] = Directory => fs'[x] = Directory
            BY <1>9, <3>1
        <3> QED
            BY <1>4, <3>3, <3>4, <3>5, <3>6, <3>7, <3>2
    <2> QED
        BY <2>1, <2>2, <2>3 DEF DirsInv
<1>16. SendingInv'
    BY <1>1, <1>3 DEF SendingInv
<1> QED
    BY <1>11, <1>12, <1>13, <1>14, <1>15, <1>16 DEF IInv

\* A recv on the connection of a file keeps the invariant if it keeps what it
\* says of that file.
LEMMA ReceivingFile ==
    ASSUME IInv, alive, NEW f \in Files, NEW k, Receive(f, k), UNCHANGED senderVars,
           thread[f] # "none",
           NEW t \in {"metadata", "file", "other", "ended"},
           thread' = [thread EXCEPT ![f] = t],
           fs' = [fs EXCEPT ![f] = fs'[f]],
           rootExists' = rootExists, alive' \in BOOLEAN,
           failed \subseteq failed', failed' \subseteq Conns,
           (\A e \in Entries : ParentExists(e) => ParentExists(e)') => FileInv(f)' /\ FlowInv(f)'
    PROVE  IInv'
<1>1. BasicInv /\ StackInv /\ CoverInv /\ AnnouncedInv /\ DirsInv /\ SendingInv
    BY DEF IInv
<1>2. f \in Conns /\ f \in Entries
    BY TreeFacts
<1>3. /\ stream' \in [Conns -> Seq(Sent)]
      /\ \A x \in Conns : x # f => stream'[x] = stream[x]
      /\ merged' \subseteq Conns
      /\ \A x : x \in merged => x \in merged'
    BY <1>1, <1>2, Receiving
<1>4. sending' = sending /\ open' = open /\ sender' = sender
    BY DEF senderVars
<1>5. /\ thread' \in [Conns -> {"none", "backlog", "metadata", "file", "other", "ended", "dropped"}]
      /\ thread'[f] = t /\ t # "dropped"
      /\ \A x \in Conns : x # f => thread'[x] = thread[x]
    BY <1>1, <1>2 DEF BasicInv
<1>6. /\ fs' = [e \in Entries |-> fs'[e]]
      /\ \A e \in Entries : e # f => fs'[e] = fs[e]
    BY <1>1, <1>2 DEF BasicInv
<1>7. /\ StackInv' /\ CoverInv' /\ \A x \in Conns : Visited(x)' <=> Visited(x)
    BY <1>1, <1>5, ReceiverStack
<1>8. BasicInv'
    BY <1>1, <1>3, <1>4, <1>5, <1>6 DEF BasicInv
<1>9. AnnouncedInv' /\ DirsInv' /\ \A e \in Entries : ParentExists(e) => ParentExists(e)'
    BY <1>1, <1>3, <1>6, <1>7, AtFile
<1>10. \A g \in Files : g # f => FileInv(g)' /\ FlowInv(g)'
    BY <1>3, <1>4, <1>5, <1>6, <1>9, OtherFiles DEF IInv
<1>11. FileInv(f)' /\ FlowInv(f)'
    BY <1>9
<1>12. SendingInv'
    BY <1>1, <1>4, <1>5, TreeFacts DEF SendingInv
<1> QED
    BY <1>7, <1>8, <1>9, <1>10, <1>11, <1>12 DEF IInv

\* What a recv finds on the connection of a file.
LEMMA FileFacts ==
    ASSUME IInv, alive, NEW f \in Files, thread[f] \in {"metadata", "file"}, ~Unopened(f)
    PROVE  /\ Taken(f) \in Nat /\ Chunks[f] \in Nat /\ Len(stream[f]) \in Nat
           /\ stream[f] \in Seq(Sent)
           /\ \A i \in 1 .. Len(stream[f]) : stream[f][i] = Piece(f, Taken(f) + i - 1)
           /\ Taken(f) + Len(stream[f]) = Due(f)
           /\ Due(f) \in Nat /\ Due(f) <= Chunks[f] + 2
<1>1. f \in Conns /\ Chunks[f] \in Nat
    BY TreeFacts
<1>2. stream[f] \in Seq(Sent)
    BY <1>1 DEF IInv, BasicInv
<1>3. FileInv(f) /\ FlowInv(f)
    BY DEF IInv
<1>4. Taken(f) \in Nat
    <2>1. thread[f] = "file" => Data(f) \in Seq(Sent)
        BY <1>3 DEF FileInv
    <2> QED
        BY <2>1 DEF Taken
<1>5. Due(f) \in Nat /\ Due(f) <= Chunks[f] + 2
    <2>1. CASE sending.file = f
        <3>1. sending # NoFile
            BY <2>1, TreeFacts DEF NoFile
        <3>2. sending.next \in 1 .. Chunks[f] + 1
            BY <2>1, <3>1 DEF IInv, BasicInv
        <3> QED
            BY <1>1, <2>1, <3>2 DEF Due
    <2>2. CASE sending.file # f
        BY <1>1, <2>2 DEF Due
    <2> QED
        BY <2>1, <2>2
<1> QED
    BY <1>1, <1>2, <1>3, <1>4, <1>5 DEF FlowInv

LEMMA ReceiveFileStep == ASSUME NEW f \in Conns PROVE IInv /\ ReceiveFile(f) => IInv'
<1> SUFFICES ASSUME IInv, ReceiveFile(f) PROVE IInv'
    OBVIOUS
<1>1. BasicInv /\ FileInv(f) /\ FlowInv(f)
    BY DEF IInv, ReceiveFile
<1>2. /\ f \in Files /\ alive /\ thread[f] = "metadata" /\ UNCHANGED senderVars
      /\ rootExists' = rootExists /\ Receive(f, 1) /\ sending' = sending
    BY DEF ReceiveFile, senderVars
<1>3. f \in Entries /\ f \in Conns
    BY <1>2, TreeFacts
<1>4. /\ 1 \in 1 .. Len(stream[f]) /\ Len(stream[f]) \in Nat
      /\ Len(stream'[f]) = Len(stream[f]) - 1
      /\ \A i \in 1 .. Len(stream[f]) - 1 : stream'[f][i] = stream[f][1 + i]
      /\ \A x : x \in merged => x \in merged'
    BY <1>1, <1>2, <1>3, Receiving
<1>5. ~Unopened(f)
    BY <1>4 DEF Unopened
<1>6. failed \subseteq failed' /\ failed' \subseteq Conns
    BY <1>1, <1>3, Failing DEF ReceiveFile, BasicInv
<1>7. CASE ParentExists(f) /\ alive' = alive /\ failed' = failed
           /\ fs' = [fs EXCEPT ![f] = File(<<>>, FALSE)]
           /\ thread' = [thread EXCEPT ![f] = "file"]
    <2>1. fs'[f] = File(<<>>, FALSE) /\ thread'[f] = "file"
        BY <1>1, <1>3, <1>7 DEF BasicInv
    <2>2. Data(f)' = <<>> /\ Taken(f)' = 1 /\ Due(f)' = Due(f)
        <3>1. Data(f)' = <<>>
            BY <2>1 DEF Data, File
        <3> QED
            BY <1>2, <2>1, <3>1 DEF Taken, Due
    <2>3. /\ Chunks[f] \in Nat
          /\ \A i \in 1 .. Len(stream[f]) : stream[f][i] = Piece(f, 0 + i - 1)
          /\ 0 + Len(stream[f]) = Due(f)
        <3>1. Taken(f) = 0
            BY <1>2 DEF Taken
        <3> QED
            BY <1>2, <1>5, <3>1, FileFacts
    <2>4. FlowInv(f)'
        <3>1. \A i \in 1 .. Len(stream'[f]) : stream'[f][i] = Piece(f, 1 + i - 1)
            <4> SUFFICES ASSUME NEW i \in 1 .. Len(stream'[f])
                         PROVE  stream'[f][i] = Piece(f, 1 + i - 1)
                OBVIOUS
            <4>1. /\ i \in 1 .. Len(stream[f]) - 1 /\ 1 + i \in 1 .. Len(stream[f])
                  /\ 0 + (1 + i) - 1 = 1 + i - 1
                BY <1>4
            <4> QED
                BY <1>4, <2>3, <4>1
        <3>2. 1 + Len(stream'[f]) = Due(f)
            BY <1>4, <2>3
        <3> QED
            BY <2>2, <3>1, <3>2 DEF FlowInv
    <2>5. ParentExists(f)' => FileInv(f)'
        BY <2>1, <2>2, <2>3 DEF FileInv
    <2>6. fs' = [fs EXCEPT ![f] = fs'[f]]
        BY <1>7, <2>1
    <2>7. (\A e \in Entries : ParentExists(e) => ParentExists(e)') => FileInv(f)' /\ FlowInv(f)'
        BY <1>3, <1>7, <2>4, <2>5
    <2> QED
        BY <1>1, <1>2, <1>7, <1>6, <2>6, <2>7, ReceivingFile DEF BasicInv
<1>8. CASE alive' = FALSE /\ fs' = fs /\ thread' = thread
    <2>1. thread' = [thread EXCEPT ![f] = "metadata"] /\ fs' = [fs EXCEPT ![f] = fs'[f]]
        BY <1>1, <1>2, <1>3, <1>8 DEF BasicInv
    <2>2. FileInv(f)' /\ FlowInv(f)'
        BY <1>1, <1>2, <1>8 DEF FileInv, FlowInv
    <2> QED
        BY <1>2, <1>8, <1>6, <2>1, <2>2, ReceivingFile
<1> QED
    BY <1>7, <1>8 DEF ReceiveFile

LEMMA ReceiveFileMergedStep ==
    ASSUME NEW f \in Conns PROVE IInv /\ ReceiveFileMerged(f) => IInv'
<1> SUFFICES ASSUME IInv, ReceiveFileMerged(f) PROVE IInv'
    OBVIOUS
<1>1. BasicInv /\ FileInv(f) /\ FlowInv(f)
    BY DEF IInv, ReceiveFileMerged
<1>2. /\ f \in Files /\ alive /\ thread[f] = "metadata" /\ UNCHANGED senderVars
      /\ rootExists' = rootExists /\ fs' = fs
      /\ failed \subseteq failed' /\ failed' \subseteq Conns
    BY <1>1 DEF ReceiveFileMerged, BasicInv
<1>3. PICK k \in 2 .. Len(stream[f]) : Receive(f, k)
    BY DEF ReceiveFileMerged
<1>4. f \in Entries /\ f \in Conns /\ fs' = [fs EXCEPT ![f] = fs'[f]]
    BY <1>1, <1>2, TreeFacts DEF BasicInv
<1>5. f \in merged'
    <2>1. /\ k \in 1 .. Len(stream[f]) /\ k \in Nat
          /\ \A i \in 1 .. k : k # 1 /\ stream[f][i][1] \notin Files => f \in merged'
        BY <1>1, <1>3, <1>4, Receiving
    <2>2. 1 \in 1 .. k /\ k # 1 /\ 1 \in 1 .. Len(stream[f])
        BY <2>1
    <2>3. stream[f][1] = Piece(f, 0 + 1 - 1)
        <3>1. Taken(f) = 0
            BY <1>2 DEF Taken
        <3>2. ~Unopened(f)
            BY <2>2 DEF Unopened
        <3> QED
            BY <1>2, <2>2, <3>1, <3>2, FileFacts
    <2>4. stream[f][1][1] \notin Files
        <3>1. Piece(f, 0)[1] \notin Files
            BY TreeAssumption DEF Piece, FileMessage
        <3> QED
            BY <2>3, <3>1
    <2> QED
        BY <2>1, <2>2, <2>4
<1>6. CASE ParentExists(f) /\ thread' = [thread EXCEPT ![f] = "other"] /\ alive' = alive
    <2>1. thread'[f] = "other"
        BY <1>1, <1>4, <1>6 DEF BasicInv
    <2>2. FlowInv(f)'
        BY <2>1 DEF FlowInv
    <2>3. ParentExists(f)' => FileInv(f)'
        BY <1>1, <1>2, <1>5, <2>1 DEF FileInv
    <2>4. (\A e \in Entries : ParentExists(e) => ParentExists(e)') => FileInv(f)' /\ FlowInv(f)'
        BY <1>4, <1>6, <2>2, <2>3
    <2> QED
        BY <1>1, <1>2, <1>3, <1>4, <1>6, <2>4, ReceivingFile DEF BasicInv
<1>7. CASE alive' = FALSE /\ thread' = thread
    <2>1. thread' = [thread EXCEPT ![f] = "metadata"]
        BY <1>1, <1>2, <1>4, <1>7 DEF BasicInv
    <2>2. FileInv(f)' /\ FlowInv(f)'
        BY <1>1, <1>2, <1>7 DEF FileInv, FlowInv
    <2> QED
        BY <1>2, <1>3, <1>4, <1>7, <2>1, <2>2, ReceivingFile
<1> QED
    BY <1>6, <1>7 DEF ReceiveFileMerged

\* The file is as long as its source when the end marker is received by itself.
LEMMA WholeAtEnd ==
    ASSUME NEW f \in Files, NEW s \in Seq(Sent), Len(s) = Chunks[f],
           \A i \in 1 .. Len(s) : s[i] = Piece(f, i)
    PROVE  s = Content(f)
<1>1. Chunks[f] \in Nat
    BY TreeFacts
<1>2. s = [i \in 1 .. Chunks[f] |-> s[i]]
    OBVIOUS
<1>3. \A i \in 1 .. Chunks[f] : s[i] = Chunk(f, i)
    BY <1>1 DEF Piece
<1> QED
    BY <1>2, <1>3 DEF Content

LEMMA Appending ==
    ASSUME NEW s \in Seq(Sent), NEW t \in Seq(Sent)
    PROVE  /\ s \o t \in Seq(Sent) /\ Len(s \o t) = Len(s) + Len(t)
           /\ \A i \in 1 .. Len(s) : (s \o t)[i] = s[i]
           /\ \A i \in Len(s) + 1 .. Len(s) + Len(t) : (s \o t)[i] = t[i - Len(s)]
<1>1. s \o t \in Seq(Sent) /\ Len(s \o t) = Len(s) + Len(t)
    OBVIOUS
<1>2. \A i \in 1 .. Len(s) + Len(t) :
          (s \o t)[i] = IF i <= Len(s) THEN s[i] ELSE t[i - Len(s)]
    OBVIOUS
<1>3. Len(s) \in Nat /\ Len(t) \in Nat
    OBVIOUS
<1> QED
    BY <1>1, <1>2, <1>3

LEMMA EndFacts ==
    ASSUME NEW s \in Seq(Sent)
    PROVE  IsEnd(s) <=> Len(s) = 1 /\ s[1] = EndMarker
BY DEF IsEnd

LEMMA ReceiveDataStep == ASSUME NEW f \in Conns PROVE IInv /\ ReceiveData(f) => IInv'
<1> SUFFICES ASSUME IInv, ReceiveData(f) PROVE IInv'
    OBVIOUS
<1>1. BasicInv /\ FileInv(f) /\ FlowInv(f)
    BY DEF IInv, ReceiveData
<1>2. /\ f \in Files /\ alive /\ thread[f] \in {"file", "other"} /\ UNCHANGED senderVars
      /\ rootExists' = rootExists /\ alive' = alive /\ sending' = sending
      /\ failed \subseteq failed' /\ failed' \subseteq Conns
    BY <1>1 DEF ReceiveData, senderVars, BasicInv
<1> DEFINE received(j) == SubSeq(stream[f], 1, j)
<1>3. PICK k \in 1 .. Len(stream[f]) :
        /\ Receive(f, k)
        /\ thread' = [thread EXCEPT ![f] = IF IsEnd(received(k)) THEN "ended" ELSE @]
        /\ fs' = IF thread[f] = "other" THEN fs
                 ELSE [fs EXCEPT ![f] =
                          IF IsEnd(received(k)) THEN File(@[2], TRUE)
                          ELSE File(Written(@[2], received(k)), FALSE)]
    BY DEF ReceiveData
<1> DEFINE r == received(k)
<1>4. /\ f \in Entries /\ f \in Conns /\ Chunks[f] \in Nat
    BY <1>2, TreeFacts
<1>5. /\ k \in Nat /\ stream[f] \in Seq(Sent) /\ Len(stream[f]) \in Nat
      /\ Len(stream'[f]) = Len(stream[f]) - k
      /\ \A i \in 1 .. Len(stream[f]) - k : stream'[f][i] = stream[f][k + i]
      /\ \A x : x \in merged => x \in merged'
      /\ \A i \in 1 .. k : k # 1 /\ stream[f][i][1] \notin Files => f \in merged'
    BY <1>1, <1>3, <1>4, Receiving
<1>6. r \in Seq(Sent) /\ Len(r) = k /\ \A i \in 1 .. k : r[i] = stream[f][i]
    BY <1>5, Taking
<1>7. IsEnd(r) <=> k = 1 /\ stream[f][1] = EndMarker
    <2> HIDE DEF r
    <2>1. IsEnd(r) <=> k = 1 /\ r[1] = EndMarker
        BY <1>6, EndFacts
    <2> QED
        BY <1>5, <1>6, <2>1
<1> HIDE DEF r, received
<1>8. /\ thread' = [thread EXCEPT ![f] = IF IsEnd(r) THEN "ended" ELSE thread[f]]
      /\ thread'[f] = IF IsEnd(r) THEN "ended" ELSE thread[f]
    BY <1>1, <1>3, <1>4 DEF BasicInv, r
<1>9. /\ thread[f] = "other" => fs'[f] = fs[f]
      /\ thread[f] # "other" =>
            fs'[f] = IF IsEnd(r) THEN File(Data(f), TRUE) ELSE File(Data(f) \o r, FALSE)
      /\ fs' = [fs EXCEPT ![f] = fs'[f]]
    BY <1>1, <1>3, <1>4 DEF BasicInv, Written, Data, r
<1>10. CASE thread[f] = "other"
    <2>1. FlowInv(f)'
        BY <1>8, <1>10 DEF FlowInv
    <2>2. ParentExists(f)' => FileInv(f)'
        <3>1. fs'[f] = Absent /\ f \in merged'
            BY <1>1, <1>5, <1>9, <1>10 DEF FileInv
        <3>2. thread'[f] \in {"other", "ended"}
            BY <1>8, <1>10
        <3> QED
            BY <3>1, <3>2 DEF FileInv
    <2>3. ParentExists(f)
        BY <1>1, <1>10 DEF FileInv
    <2>4. (\A e \in Entries : ParentExists(e) => ParentExists(e)') => FileInv(f)' /\ FlowInv(f)'
        BY <1>4, <2>1, <2>2, <2>3
    <2> QED
        BY <1>1, <1>2, <1>3, <1>8, <1>9, <1>10, <2>4, ReceivingFile DEF BasicInv
<1>11. CASE thread[f] = "file"
    <2> DEFINE data == Data(f)
               n == Len(data)
               m == Len(stream[f])
    <2>1. /\ data \in Seq(Sent) /\ n \in Nat /\ ParentExists(f)
          /\ \A i \in 1 .. n : data[i] = Piece(f, i)
          /\ fs[f] = File(data, FALSE)
        <3>1. /\ Data(f) \in Seq(Sent) /\ ParentExists(f)
              /\ \A i \in 1 .. Len(Data(f)) : Data(f)[i] = Piece(f, i)
              /\ fs[f] = File(Data(f), FALSE)
            BY <1>1, <1>11 DEF FileInv
        <3> QED
            BY <3>1
    <2>2. /\ Taken(f) = n + 1 /\ m \in Nat
          /\ \A i \in 1 .. m : stream[f][i] = Piece(f, (n + 1) + i - 1)
          /\ n + 1 + m = Due(f) /\ Due(f) \in Nat /\ Due(f) <= Chunks[f] + 2
        <3>1. Taken(f) = n + 1
            BY <1>11 DEF Taken
        <3> HIDE DEF n
        <3> QED
            BY <1>2, <1>5, <1>11, <3>1, FileFacts DEF Unopened
    <2> HIDE DEF data, n, m
    <2> DEFINE due == Due(f)
    <2> HIDE DEF due
    <2>3. n + 1 + m = due /\ due \in Nat /\ due <= Chunks[f] + 2
        BY <2>2 DEF due
    <2>4. \A i \in 1 .. m : stream[f][i] = Piece(f, n + i) /\ n + i \in 1 .. Chunks[f] + 1
        <3> SUFFICES ASSUME NEW i \in 1 .. m
                     PROVE  stream[f][i] = Piece(f, n + i) /\ n + i \in 1 .. Chunks[f] + 1
            OBVIOUS
        <3>1. (n + 1) + i - 1 = n + i /\ n + i \in 1 .. Chunks[f] + 1
            <4>1. n \in Nat /\ m \in Nat /\ Chunks[f] \in Nat
                BY <1>4, <2>1, <2>2
            <4> QED
                BY <2>3, <4>1
        <3> QED
            BY <2>2, <3>1
    <2>5. Due(f)' = Due(f)
        BY <1>2 DEF Due
    <2>6. k \in 1 .. m
        BY DEF m
    <2>7. CASE IsEnd(r)
        <3>1. n = Chunks[f]
            <4>1. 1 \in 1 .. m /\ n + 1 \in 0 .. Chunks[f] + 1
                BY <1>7, <2>4, <2>6, <2>7
            <4>2. Piece(f, n + 1) = EndMarker
                BY <1>7, <2>4, <2>7, <4>1
            <4>3. n + 1 = Chunks[f] + 1
                BY <1>2, <4>1, <4>2, PieceFacts
            <4> QED
                BY <1>4, <2>1, <4>3
        <3>2. data = Content(f)
            BY <1>2, <2>1, <3>1, WholeAtEnd DEF n
        <3>3. fs'[f] = File(Content(f), TRUE) /\ thread'[f] = "ended"
            BY <1>8, <1>9, <1>11, <2>7, <3>2 DEF data
        <3>4. FlowInv(f)'
            BY <3>3 DEF FlowInv
        <3>5. ParentExists(f)' => FileInv(f)'
            BY <3>3 DEF FileInv
        <3>6. (\A e \in Entries : ParentExists(e) => ParentExists(e)') => FileInv(f)' /\ FlowInv(f)'
            BY <1>4, <2>1, <3>4, <3>5
        <3> QED
            BY <1>1, <1>2, <1>3, <1>8, <1>9, <1>11, <3>6, ReceivingFile DEF BasicInv
    <2>8. CASE ~IsEnd(r)
        <3> DEFINE more == data \o r
        <3>0. n \in Nat /\ m \in Nat /\ k \in 1 .. m /\ Len(stream'[f]) = m - k
            <4>1. n \in Nat
                BY <2>1
            <4>2. k \in 1 .. m
                BY DEF m
            <4>3. m \in Nat /\ Len(stream'[f]) = m - k
                BY <1>5 DEF m
            <4> QED
                BY <4>1, <4>2, <4>3
        <3>1. /\ more \in Seq(Sent) /\ Len(more) = n + k
              /\ \A i \in 1 .. n : more[i] = data[i]
              /\ \A i \in n + 1 .. n + k : more[i] = r[i - n]
            BY <1>6, <2>1, Appending DEF n
        <3> HIDE DEF more
        <3>2. \A i \in 1 .. n + k : more[i] = Piece(f, i)
            <4> SUFFICES ASSUME NEW i \in 1 .. n + k PROVE more[i] = Piece(f, i)
                OBVIOUS
            <4>1. CASE i \in 1 .. n
                BY <2>1, <3>1, <4>1
            <4>2. CASE i \notin 1 .. n
                <5>1. /\ i \in n + 1 .. n + k /\ i - n \in 1 .. k
                      /\ i - n \in 1 .. m /\ n + (i - n) = i
                    <6>1. i \in 1 .. n + k
                        OBVIOUS
                    <6> QED
                        BY ONLY <3>0, <4>2, <6>1, SMT
                <5>2. more[i] = stream[f][i - n]
                    BY <1>6, <3>1, <5>1
                <5> QED
                    BY <2>4, <5>1, <5>2
            <4> QED
                BY <4>1, <4>2
        <3>3. fs'[f] = File(more, FALSE) /\ thread'[f] = "file"
            BY <1>8, <1>9, <1>11, <2>8 DEF data, more
        <3>4. Data(f)' = more /\ Taken(f)' = n + k + 1
            <4>1. Data(f)' = more
                BY <3>3 DEF Data, File
            <4> QED
                BY <3>1, <3>3, <4>1 DEF Taken
        <3>5. n + k <= Chunks[f] + 1
            BY <1>4, <2>1, <2>4, <2>6
        <3>6. n + k = Chunks[f] + 1 => f \in merged'
            <4> SUFFICES ASSUME n + k = Chunks[f] + 1 PROVE f \in merged'
                OBVIOUS
            <4>1. stream[f][k] = Piece(f, Chunks[f] + 1) /\ Chunks[f] + 1 \in 0 .. Chunks[f] + 1
                BY <1>4, <2>4, <2>6
            <4>2. stream[f][k] = EndMarker
                BY <1>2, <4>1, PieceFacts
            <4>3. k # 1
                BY <1>7, <2>8, <4>2
            <4>4. stream[f][k][1] \notin Files
                BY <4>2, TreeAssumption DEF EndMarker
            <4>5. k \in 1 .. k
                BY <1>5, <2>6
            <4> QED
                BY <1>5, <4>3, <4>4, <4>5
        <3>7. FlowInv(f)'
            <4>1. \A i \in 1 .. Len(stream'[f]) : stream'[f][i] = Piece(f, (n + k + 1) + i - 1)
                <5> SUFFICES ASSUME NEW i \in 1 .. Len(stream'[f])
                             PROVE  stream'[f][i] = Piece(f, (n + k + 1) + i - 1)
                    OBVIOUS
                <5>0. i \in 1 .. m - k
                    BY <3>0 DEF m
                <5>1. /\ i \in 1 .. m - k /\ k + i \in 1 .. m
                      /\ n + (k + i) = (n + k + 1) + i - 1
                    <6> QED
                        BY ONLY <3>0, <5>0, SMT
                <5> QED
                    BY <1>5, <2>4, <5>1 DEF m
            <4>2. (n + k + 1) + Len(stream'[f]) = Due(f)
                <5>1. n \in Nat /\ m \in Nat /\ k \in Nat /\ Len(stream'[f]) = m - k
                    BY <3>0
                <5>2. (n + k + 1) + (m - k) = due
                    BY <2>3, <5>1
                <5> QED
                    BY <5>1, <5>2 DEF due
            <4> QED
                BY <2>5, <3>4, <4>1, <4>2 DEF FlowInv
        <3>8. ParentExists(f)' => FileInv(f)'
            BY <3>1, <3>2, <3>3, <3>4, <3>5, <3>6 DEF FileInv
        <3>9. (\A e \in Entries : ParentExists(e) => ParentExists(e)') => FileInv(f)' /\ FlowInv(f)'
            BY <1>4, <2>1, <3>7, <3>8
        <3> QED
            BY <1>1, <1>2, <1>3, <1>8, <1>9, <1>11, <2>8, <3>9, ReceivingFile DEF BasicInv
    <2> QED
        BY <2>7, <2>8
<1> QED
    BY <1>2, <1>10, <1>11

LEMMA NextInvariant == IInv /\ [Next]_vars => IInv'
<1> SUFFICES ASSUME IInv, [Next]_vars PROVE IInv'
    OBVIOUS
<1>1. CASE Sender
    BY <1>1, ConnectForDirectoryStep, SendChunkStep, SendEndStep, CloseDirectoryStep,
       CopyDirectoryStep, CopyFileStep, SkipFileStep DEF Sender
<1>2. ASSUME NEW c \in Conns, Receiver(c) PROVE IInv'
    BY <1>2, AcceptStep, AcceptNoThreadStep, ReceiveDirectoryStep, ReceiveFileStep, ReceiveFileMergedStep,
       ReceiveDataStep DEF Receiver
<1>3. CASE UNCHANGED vars
    <2>1. /\ UNCHANGED senderVars /\ stream' = stream /\ thread' = thread /\ fs' = fs
          /\ rootExists' = rootExists /\ alive' = alive /\ merged' = merged
          /\ open' = open /\ stack' = stack /\ sending' = sending /\ sender' = sender
          /\ failed' = failed /\ failed \subseteq failed' /\ failed' \subseteq Conns
        BY <1>3 DEF vars, senderVars, receiverVars, IInv, BasicInv
    <2>2. BasicInv /\ StackInv /\ CoverInv /\ AnnouncedInv /\ DirsInv /\ SendingInv
        BY DEF IInv
    <2>3. /\ StackInv' /\ CoverInv' /\ \A c \in Conns : Visited(c)' <=> Visited(c)
        BY <2>1, <2>2, ReceiverStack
    <2>4. BasicInv' /\ SendingInv'
        BY <2>1, <2>2 DEF BasicInv, SendingInv
    <2>5. AnnouncedInv' /\ DirsInv'
        BY <2>1, <2>2, <2>3, TreeFacts, AnnouncedSame, DirsSame
    <2>6. \A f \in Files : FileInv(f)' /\ FlowInv(f)'
        <3>1. \A e \in Entries : ParentExists(e) => ParentExists(e)'
            BY <2>1 DEF ParentExists
        <3> QED
            BY <2>1, <3>1, FilesSame DEF IInv
    <2> QED
        BY <2>3, <2>4, <2>5, <2>6 DEF IInv
<1> QED
    BY <1>1, <1>2, <1>3 DEF Next

\* In every state of every copy: who is come to and who is not, what is on the
\* way and what has been written are in step.
THEOREM Invariance == Spec => []IInv
BY InitInvariant, NextInvariant, PTL DEF Spec

-----------------------------------------------------------------------------
(* What the invariant says.                                                *)

LEMMA FileFields ==
    ASSUME NEW data
    PROVE  /\ IsFile(File(data, FALSE)) /\ File(data, FALSE)[2] = data
           /\ File(data, FALSE)[3] = FALSE
           /\ IsFile(File(data, TRUE)) /\ File(data, TRUE)[2] = data
BY DEF File, IsFile

\* Every variable has its type, and what exists on the receiver has a directory
\* to exist in, whichever thread made it.
THEOREM TypeInvariance == Spec => []TypeOK
<1>1. IInv => TypeOK
    <2> SUFFICES ASSUME IInv PROVE TypeOK
        OBVIOUS
    <2>1. stack \in Seq([dir : Dirs \cup {Root}, todo : SUBSET Entries])
        BY DEF IInv, StackInv, Frames
    <2>2. sending = NoFile \/ (sending.file \in Files /\ sending.next \in Nat \ {0})
        <3>1. \/ sending = NoFile
              \/ sending \in [file : Files, next : Nat] /\ sending.next \in 1 .. Chunks[sending.file] + 1
            BY DEF IInv, BasicInv
        <3>2. CASE /\ sending \in [file : Files, next : Nat]
                   /\ sending.next \in 1 .. Chunks[sending.file] + 1
            <4>1. sending.file \in Files /\ sending.next \in Nat
                BY <3>2
            <4>2. Chunks[sending.file] \in Nat
                BY <4>1, TreeFacts
            <4>3. sending.next # 0
                BY <3>2, <4>1, <4>2
            <4> QED
                BY <4>1, <4>3
        <3> QED
            BY <3>1, <3>2
    <2>3. /\ sender \in {"running", "done", "killed"}
          /\ stream \in [Conns -> Seq(Sent)]
          /\ open \subseteq Conns
          /\ thread \in [Conns -> {"none", "backlog", "metadata", "file", "other", "ended", "dropped"}]
          /\ rootExists \in BOOLEAN /\ alive \in BOOLEAN
          /\ merged \subseteq Conns /\ failed \subseteq Conns
        BY DEF IInv, BasicInv
    <2>4. \A d \in Dirs : fs[d] \in {Absent, Directory} /\ (fs[d] # Absent => ParentExists(d))
        BY DEF IInv, DirsInv
    <2>5. ASSUME NEW f \in Files
          PROVE  /\ fs[f] = Absent \/ (IsFile(fs[f]) /\ fs[f][2] \in Seq(Sent))
                 /\ fs[f] # Absent => ParentExists(f)
        <3>1. FileInv(f) /\ f \in Conns
            BY TreeFacts DEF IInv
        <3>2. thread[f] \in {"none", "backlog", "metadata", "file", "other", "ended", "dropped"}
            BY <2>3, <3>1
        <3>3. CASE thread[f] \in {"none", "backlog", "metadata", "other", "dropped"}
            BY <3>1, <3>3 DEF FileInv
        <3>4. CASE thread[f] = "file"
            BY <3>1, <3>4 DEF FileInv, File, IsFile, Data
        <3>5. CASE thread[f] = "ended"
            <4>1. Content(f) \in Seq(Sent)
                <5>1. Chunks[f] \in Nat
                    BY TreeFacts
                <5>2. \A i \in 1 .. Chunks[f] : Chunk(f, i) \in Sent
                    <6> SUFFICES ASSUME NEW i \in 1 .. Chunks[f] PROVE Chunk(f, i) \in Sent
                        OBVIOUS
                    <6>1. Piece(f, i) \in Sent
                        BY <5>1, PieceFacts
                    <6>2. Piece(f, i) = Chunk(f, i)
                        BY <5>1 DEF Piece
                    <6> QED
                        BY <6>1, <6>2
                <5> QED
                    BY <5>1, <5>2 DEF Content
            <4>2. fs[f] = Absent \/ fs[f] = File(Content(f), TRUE)
                BY <3>1, <3>5 DEF FileInv
            <4>3. ParentExists(f)
                BY <3>1, <3>5 DEF FileInv
            <4> QED
                BY <4>1, <4>2, <4>3, FileFields
        <3> QED
            BY <3>2, <3>3, <3>4, <3>5
    <2> QED
        BY <2>1, <2>2, <2>3, <2>4, <2>5, TreeFacts DEF TypeOK
<1> QED
    BY <1>1, Invariance, PTL

\* A file of the copy holds the beginning of its source, and one that the
\* receiver has closed all of it, however the stream was cut.
THEOREM CopiesArePrefixes == Spec => []FilesArePrefixes
<1>1. IInv => FilesArePrefixes
    <2> SUFFICES ASSUME IInv, NEW f \in Files, IsFile(fs[f])
                 PROVE  /\ IsPrefix(fs[f][2], Content(f) \o <<EndMarker>>)
                        /\ fs[f][3] => fs[f][2] = Content(f)
        BY DEF FilesArePrefixes
    <2> DEFINE whole == Content(f) \o <<EndMarker>>
               n == Chunks[f]
    <2>1. /\ FileInv(f) /\ n \in Nat
          /\ thread[f] \in {"none", "backlog", "metadata", "file", "other", "ended", "dropped"}
        BY TreeFacts DEF IInv, BasicInv
    <2>2. fs[f] # Absent
        BY DEF IsFile, Absent
    <2>3. /\ Content(f) \in Seq(Sent) /\ Len(Content(f)) = n
          /\ \A i \in 1 .. n : Content(f)[i] = Piece(f, i)
        <3>1. ASSUME NEW i \in 1 .. n PROVE Chunk(f, i) \in Sent /\ Piece(f, i) = Chunk(f, i)
            <4>1. Piece(f, i) = Chunk(f, i)
                BY <2>1 DEF Piece
            <4> QED
                BY <2>1, <4>1, PieceFacts
        <3> QED
            BY <2>1, <3>1 DEF Content
    <2>4. EndMarker \in Sent /\ Piece(f, n + 1) = EndMarker
        <3>1. Piece(f, n + 1) = EndMarker
            BY <2>1 DEF Piece
        <3>2. Piece(f, n + 1) \in Sent
            BY <2>1, PieceFacts
        <3> QED
            BY <3>1, <3>2
    <2>5. /\ whole \in Seq(Sent) /\ Len(whole) = n + 1
          /\ \A i \in 1 .. n + 1 : whole[i] = Piece(f, i)
        <3> DEFINE content == Content(f)
        <3> HIDE DEF content, n
        <3>1. /\ content \in Seq(Sent) /\ Len(content) = n /\ n \in Nat
            BY <2>1, <2>3 DEF content
        <3>2. /\ content \o <<EndMarker>> \in Seq(Sent)
              /\ Len(content \o <<EndMarker>>) = n + 1
              /\ \A i \in 1 .. n : (content \o <<EndMarker>>)[i] = content[i]
              /\ (content \o <<EndMarker>>)[n + 1] = EndMarker
            BY <2>4, <3>1
        <3>3. \A i \in 1 .. n + 1 : i \in 1 .. n \/ i = n + 1
            BY <3>1
        <3> QED
            BY <2>3, <2>4, <3>2, <3>3 DEF content
    <2> HIDE DEF whole
    <2>6. ASSUME NEW s \in Seq(Sent), Len(s) <= n + 1,
                 \A i \in 1 .. Len(s) : s[i] = Piece(f, i)
          PROVE  IsPrefix(s, whole)
        <3>1. Len(s) \in Nat /\ \A i \in 1 .. Len(s) : i \in 1 .. n + 1
            BY <2>1, <2>6
        <3>2. SubSeq(s, 1, Len(s)) = SubSeq(whole, 1, Len(s))
            <4> DEFINE m == Len(s)
            <4>1. /\ SubSeq(s, 1, m) = [i \in 1 .. m |-> s[i]]
                  /\ SubSeq(whole, 1, m) = [i \in 1 .. m |-> whole[i]]
                BY <2>5, <3>1
            <4>2. \A i \in 1 .. m : s[i] = whole[i]
                BY <2>5, <2>6, <3>1
            <4> QED
                BY <4>1, <4>2
        <3> QED
            BY <2>5, <2>6, <3>2 DEF IsPrefix
    <2>7. CASE thread[f] = "file"
        <3>1. /\ fs[f] = File(Data(f), FALSE) /\ Data(f) \in Seq(Sent)
              /\ Len(Data(f)) <= n + 1
              /\ \A i \in 1 .. Len(Data(f)) : Data(f)[i] = Piece(f, i)
            BY <2>1, <2>7 DEF FileInv
        <3>2. IsPrefix(Data(f), whole)
            BY <2>6, <3>1
        <3> QED
            BY <3>1, <3>2, FileFields DEF whole
    <2>8. CASE thread[f] = "ended"
        <3>1. fs[f] = File(Content(f), TRUE)
            BY <2>1, <2>2, <2>8 DEF FileInv
        <3>2. IsPrefix(Content(f), whole)
            BY <2>1, <2>3, <2>6
        <3> QED
            BY <3>1, <3>2, FileFields DEF whole
    <2> QED
        BY <2>1, <2>2, <2>7, <2>8 DEF FileInv
<1> QED
    BY <1>1, Invariance, PTL

\* When nothing is left to be sent or received every entry has been come to, or
\* left out by a failure.
LEMMA AllVisited ==
    ASSUME IInv, Quiescent
    PROVE  \A c \in Conns : thread[c] # "none" \/ c \in LeftOut
<1>1. StackInv /\ CoverInv /\ stack = <<>>
    BY DEF IInv, Quiescent, StackInv
<1>2. \A c : Visited(c) <=> thread[c] # "none"
    BY <1>1 DEF Visited
<1>3. thread[Root] # "none" \/ Root \in LeftOut
    BY <1>1, <1>2 DEF CoverInv, Quiescent
<1>4. \A e \in Entries : Parent[e] \in LeftOut => e \in LeftOut
    BY WithinFacts DEF IInv, BasicInv, LeftOut
<1> DEFINE S == {e \in Entries : thread[e] = "none" /\ e \notin LeftOut}
<1>5. S = {}
    <2> SUFFICES ASSUME S # {} PROVE FALSE
        OBVIOUS
    <2>1. PICK e \in S : Parent[e] \notin S
        BY TreeAssumption
    <2>2. thread[Parent[e]] # "none"
        BY <1>3, <1>4, <2>1, TreeFacts
    <2>3. Visited(e)
        BY <1>1, <1>2, <2>1, <2>2 DEF CoverInv, Quiescent
    <2> QED
        BY <1>2, <2>1, <2>3
<1> QED
    BY <1>3, <1>5 DEF Conns

LEMMA AllReceived ==
    ASSUME IInv, Quiescent, NEW f \in Files \ LeftOut
    PROVE  /\ ParentExists(f)
           /\ fs[f] = File(Content(f), TRUE) \/ f \in merged
<1>1. f \in Conns /\ Chunks[f] \in Nat
    BY TreeFacts
<1>2. FileInv(f) /\ thread[f] # "none"
    BY <1>1, AllVisited DEF IInv
<1>3. f \notin failed
    BY WithinFacts DEF IInv, BasicInv, LeftOut
<1>4. thread[f] \in {"metadata", "file", "other", "ended"}
    BY <1>1, <1>2, <1>3 DEF IInv, BasicInv, Quiescent
<1>5. ASSUME thread[f] \in {"metadata", "file"} PROVE Taken(f) = Chunks[f] + 2
    <2>1. Due(f) = Chunks[f] + 2
        <3>1. sending.file # f
            BY TreeFacts DEF IInv, StackInv, Quiescent, NoFile
        <3> QED
            BY <3>1 DEF Due
    <2>2. alive /\ Len(stream[f]) = 0
        BY <1>1 DEF Quiescent
    <2> QED
        BY <1>5, <1>3, <2>1, <2>2, FileFacts DEF Unopened
<1>6. thread[f] # "metadata"
    BY <1>1, <1>5 DEF Taken
<1>7. thread[f] = "file" => f \in merged
    <2> SUFFICES ASSUME thread[f] = "file" PROVE f \in merged
        OBVIOUS
    <2>1. Data(f) \in Seq(Sent) /\ (Len(Data(f)) = Chunks[f] + 1 => f \in merged)
        BY <1>2 DEF FileInv
    <2>2. Len(Data(f)) + 1 = Chunks[f] + 2 /\ Len(Data(f)) \in Nat
        BY <1>5, <2>1 DEF Taken
    <2>3. Len(Data(f)) = Chunks[f] + 1
        BY <1>1, <2>2
    <2> QED
        BY <2>1, <2>3
<1> QED
    BY <1>2, <1>4, <1>6, <1>7 DEF FileInv

\* Of a copy that is over, nothing is lost that does not have to be: every file
\* is whole unless a failure leaves it out or a recv took its name or its end
\* marker with other sends, and a directory below the top one is missing, but for
\* failures, only without a file sent for it.
THEOREM NothingElseIsLost == Spec => []OnlyExplainedLosses
<1>1. IInv => OnlyExplainedLosses
    <2> SUFFICES ASSUME IInv, Quiescent PROVE FilesWhole /\ (rootExists => DirectoriesMade)
        BY DEF OnlyExplainedLosses
    <2>1. FilesWhole
        BY AllReceived DEF FilesWhole
    <2>2. ASSUME rootExists, NEW d \in Dirs \ LeftOut
          PROVE  \/ fs[d] = Directory \/ Parent[d] \in merged
                 \/ Parent[d] # Root /\ \A f \in Files \ LeftOut : Parent[f] # d
        <3>1. CASE Parent[d] = Root
            <4>1. Visited(d)
                BY AllVisited, TreeFacts DEF Visited
            <4>2. alive /\ Len(stream[Root]) = 0
                BY TreeFacts DEF Quiescent
            <4> QED
                BY <2>2, <3>1, <4>1, <4>2 DEF IInv, DirsInv
        <3>2. CASE \E f \in Files \ LeftOut : Parent[f] = d
            <4>1. PICK f \in Files \ LeftOut : Parent[f] = d
                BY <3>2
            <4>2. ParentExists(f) /\ d # Root
                BY AllReceived, TreeFacts
            <4> QED
                BY <4>1, <4>2 DEF ParentExists
        <3> QED
            BY <3>1, <3>2
    <2> QED
        BY <2>1, <2>2 DEF DirectoriesMade
<1> QED
    BY <1>1, Invariance, PTL
=============================================================================
