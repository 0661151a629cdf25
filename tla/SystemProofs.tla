----------------------------- MODULE SystemProofs -----------------------------
(***************************************************************************)
(* What a client is told, for sessions of any length: the types, that one  *)
(* command of a session is answered at most, and that the answer is its    *)
(* own unless an earlier command timed out.                                *)
(***************************************************************************)
EXTENDS System, SequenceTheorems, TLAPS

Lines == [id : Ids, kind : Kinds \ {"empty"}]
Texts == [text : Messages, of : Ids \cup {Nobody}]
Reports == [said : Outcomes, of : Ids \cup {Nobody}]

\* A command that has been typed will be reported on.
RoomToReport == cpc \in {"select", "final"} => Len(outcomes) < MaxCommands

\* INITIAL_ACK is the first message the handler sends, and never sent again.
AckComesFirst ==
    /\ \A i \in 1 .. Len(outbox) : outbox[i].text # "INITIAL_ACK"
    /\ \A i \in 2 .. Len(toClient) : toClient[i].text # "INITIAL_ACK"
    /\ spc = "accepted" => toClient = <<>>

AckToCome ==
    spc = "accepted" \/ (toClient # <<>> /\ toClient[1].text = "INITIAL_ACK")

\* Until the client has seen it, and from then until the first answer, all it
\* can have reported are timeouts.
TimeoutsBeforeAnswer ==
    /\ AckToCome => cpc # "final"
    /\ AckToCome \/ cpc = "final" =>
          \A i \in 1 .. Len(outcomes) : outcomes[i].said = "timeout"

\* Until something is reported there is one command only to be answered.
FirstCommandOnly ==
    outcomes = <<>> =>
        /\ \A i \in 1 .. Len(toServer) : toServer[i].id = 1
        /\ \A i \in 1 .. Len(outbox) : outbox[i].of = 1
        /\ \A i \in 1 .. Len(toClient) :
              toClient[i].text = "INITIAL_ACK" \/ toClient[i].of = 1

\* What the handler forwards, and answers, is a command.
OutboxOfCommand ==
    /\ \A i \in 1 .. Len(outbox) : outbox[i].of \in Ids
    /\ spc = "forward" => outbox # <<>>

\* The commands that wait for the handler, those something has been answered
\* of, and the number of those that have been typed.
Waiting == {toServer[i].id : i \in 1 .. Len(toServer)}
Answered == {outbox[i].of : i \in 1 .. Len(outbox)}
            \cup {toClient[i].of : i \in 1 .. Len(toClient)}
            \cup {outcomes[i].of : i \in 1 .. Len(outcomes)}
Typed == IF cpc \in {"select", "final"} THEN Len(outcomes) + 1 ELSE Len(outcomes)

\* Commands wait in the order in which they were typed, and none that waits has
\* been answered.
WaitingInv ==
    /\ \A i, j \in 1 .. Len(toServer) : i < j => toServer[i].id < toServer[j].id
    /\ \A id \in Waiting \cup Answered : id <= Typed
    /\ Waiting \cap Answered = {}
    /\ RanTogetherOnlyAfterLateAnswer

\* As long as nothing has been lost with INITIAL_ACK, the client that has sent
\* a command and waits for the first answer will have one.
AnswerUnderWay ==
    toServer # <<>> \/ outbox # <<>>
    \/ \E i \in 1 .. Len(toClient) : toClient[i].text # "INITIAL_ACK"

AnswerInv ==
    /\ spc \in {"accepted", "recv"} => outbox = <<>>
    /\ AckToCome => swallowed = 0
    /\ (AckToCome \/ cpc = "final") /\ swallowed = 0 /\ typed => AnswerUnderWay

\* The inductive invariant, of the session and of what it is composed with.
SessionInv ==
    /\ SessionTypeOK /\ RoomToReport
    /\ AckComesFirst /\ TimeoutsBeforeAnswer /\ FirstCommandOnly /\ OutboxOfCommand
    /\ AtMostOneAnswered /\ AnswerIsItsOwn

IInv == SessionInv /\ WaitingInv /\ AnswerInv /\ TypeOK

-----------------------------------------------------------------------------
(* Streams.                                                                *)

LEMMA AfterProperties ==
    ASSUME NEW S, NEW s \in Seq(S), NEW k \in 1 .. Len(s)
    PROVE  /\ After(s, k) \in Seq(S)
           /\ Len(After(s, k)) = Len(s) - k
           /\ \A i \in 1 .. Len(s) - k : After(s, k)[i] = s[i + k]
<1>1. Len(s) \in Nat /\ \A i \in k + 1 .. Len(s) : s[i] \in S
    OBVIOUS
<1>2. /\ SubSeq(s, k + 1, Len(s)) \in Seq(S)
      /\ Len(SubSeq(s, k + 1, Len(s))) =
            IF k + 1 <= Len(s) THEN Len(s) - (k + 1) + 1 ELSE 0
      /\ \A i \in 1 .. Len(s) - (k + 1) + 1 :
            SubSeq(s, k + 1, Len(s))[i] = s[k + 1 + i - 1]
    <2>1. k + 1 \in Int /\ Len(s) \in Int
        BY <1>1
    <2> QED
        BY <1>1, <2>1, SubSeqProperties
<1> QED
    BY <1>1, <1>2 DEF After

\* A recv of the first k messages.
LEMMA FirstProperties ==
    ASSUME NEW S, NEW s \in Seq(S), NEW k \in 1 .. Len(s)
    PROVE  /\ SubSeq(s, 1, k) \in Seq(S)
           /\ Len(SubSeq(s, 1, k)) = k
           /\ \A i \in 1 .. k : SubSeq(s, 1, k)[i] = s[i]
<1>1. Len(s) \in Nat /\ \A i \in 1 .. k : s[i] \in S
    OBVIOUS
<1> QED
    BY <1>1, SubSeqProperties

\* The answers are messages, none of them INITIAL_ACK.
LEMMA AnswersProperties ==
    ASSUME NEW kind \in Kinds \ {"empty"}
    PROVE  /\ Answers(kind) \in Seq(Messages \ {"INITIAL_ACK"})
           /\ Answers(kind) # <<>>
<1>1. CASE kind = "ok"
    BY <1>1 DEF Answers, Messages
<1>2. CASE kind = "unknown"
    BY <1>2 DEF Answers, Messages
<1>3. CASE kind = "short"
    BY <1>3 DEF Answers, Messages
<1> QED
    BY <1>1, <1>2, <1>3 DEF Kinds

LEMMA ParsedProperties ==
    ASSUME NEW s \in Seq(Lines), s # <<>>
    PROVE  Parsed(s) \subseteq Kinds \ {"empty"}
<1>1. Len(s) \in Nat /\ 1 \in 1 .. Len(s)
    BY EmptySeq
<1>2. s[1] \in Lines
    BY <1>1, ElementOfSeq
<1>3. s[1].kind \in Kinds \ {"empty"}
    BY <1>2 DEF Lines
<1> QED
    BY <1>3 DEF Parsed, Kinds

LEMMA InitInvariant == SystemInit => IInv
<1> SUFFICES ASSUME SystemInit PROVE IInv
    OBVIOUS
<1>1. /\ cpc = "menu" /\ outcomes = <<>> /\ typed = FALSE
      /\ toServer = <<>> /\ toClient = <<>> /\ outbox = <<>>
      /\ spc = "accepted" /\ swallowed = 0 /\ ranTogether = FALSE
    BY DEF SystemInit, Init
<1>t. SessionTypeOK
    <2>1. /\ outcomes \in Seq([said : Outcomes, of : Ids \cup {Nobody}])
          /\ Len(outcomes) = 0
          /\ toServer \in Seq([id : Ids, kind : Kinds \ {"empty"}])
          /\ toClient \in Seq([text : Messages, of : Ids \cup {Nobody}])
          /\ outbox \in Seq([text : Messages, of : Ids \cup {Nobody}])
        BY <1>1
    <2>2. /\ cpc \in {"menu", "select", "final", "closed"} /\ typed \in BOOLEAN
          /\ spc \in {"accepted", "recv", "forward", "answer", "closed"}
          /\ swallowed \in Nat /\ ranTogether \in BOOLEAN
        BY <1>1
    <2> QED
        BY <2>1, <2>2, MaxCommandsAssumption DEF SessionTypeOK
<1>s. SessionInv
    BY <1>1, <1>t DEF SessionInv, RoomToReport, AckComesFirst, TimeoutsBeforeAnswer,
           AckToCome, FirstCommandOnly, OutboxOfCommand, AtMostOneAnswered,
           AnswerIsItsOwn
<1>2. TypeOK
    BY <1>t DEF SystemInit, Storage!Init, TypeOK
<1>3. WaitingInv
    <2>1. /\ Len(outcomes) = 0 /\ Len(toServer) = 0 /\ Len(toClient) = 0
          /\ Len(outbox) = 0
        BY <1>1
    <2>2. Waiting = {} /\ Answered = {}
        BY <2>1 DEF Waiting, Answered
    <2> QED
        BY <1>1, <2>1, <2>2 DEF WaitingInv, RanTogetherOnlyAfterLateAnswer
<1>4. AnswerInv
    BY <1>1 DEF AnswerInv
<1> QED
    BY <1>s, <1>2, <1>3, <1>4 DEF IInv

-----------------------------------------------------------------------------
(* The client.                                                             *)

\* A report that is no answer, or the first answer, which is the command's own
\* or comes after a timeout, keeps what is known of the reports.
LEMMA ReportProperties ==
    ASSUME outcomes \in Seq(Reports), Len(outcomes) < MaxCommands,
           AtMostOneAnswered, AnswerIsItsOwn,
           NEW said \in Outcomes, NEW of \in Ids \cup {Nobody}, Report(said, of),
           said \in {"success", "response"} =>
               /\ \A i \in 1 .. Len(outcomes) : outcomes[i].said = "timeout"
               /\ outcomes = <<>> => of = 1
    PROVE  /\ outcomes' \in Seq(Reports)
           /\ outcomes' # <<>>
           /\ Len(outcomes') = Len(outcomes) + 1 /\ Len(outcomes') <= MaxCommands
           /\ \A i \in 1 .. Len(outcomes) : outcomes'[i] = outcomes[i]
           /\ outcomes'[Len(outcomes')].said = said
           /\ AtMostOneAnswered' /\ AnswerIsItsOwn'
<1> DEFINE n == Len(outcomes)
<1>1. /\ n \in Nat /\ n < MaxCommands /\ MaxCommands \in Nat
      /\ outcomes' = Append(outcomes, [said |-> said, of |-> of])
      /\ [said |-> said, of |-> of] \in Reports
    BY MaxCommandsAssumption DEF Report, Reports
<1>2. /\ outcomes' \in Seq(Reports) /\ outcomes' # <<>>
      /\ Len(outcomes') = n + 1
      /\ \A i \in 1 .. n : outcomes'[i] = outcomes[i]
      /\ outcomes'[n + 1] = [said |-> said, of |-> of]
    BY <1>1
<1> HIDE DEF n
<1>3. AtMostOneAnswered'
    <2> SUFFICES ASSUME NEW i \in 1 .. n + 1, NEW j \in 1 .. n + 1,
                        outcomes'[i].said \in {"success", "response"},
                        outcomes'[j].said \in {"success", "response"}
                 PROVE  i = j
        BY <1>2 DEF AtMostOneAnswered
    <2>1. CASE said \in {"success", "response"}
        BY <1>1, <1>2, <2>1 DEF n
    <2>2. CASE said \notin {"success", "response"}
        <3>1. i \in 1 .. n /\ j \in 1 .. n
            BY <1>1, <1>2, <2>2
        <3> QED
            BY <1>2, <3>1 DEF AtMostOneAnswered, n
    <2> QED
        BY <2>1, <2>2
<1>4. AnswerIsItsOwn'
    <2> SUFFICES ASSUME NEW i \in 1 .. n + 1,
                        outcomes'[i].said \in {"success", "response"},
                        outcomes'[i].of # i
                 PROVE  \E j \in 1 .. i - 1 : outcomes'[j].said = "timeout"
        BY <1>2 DEF AnswerIsItsOwn
    <2>1. CASE i \in 1 .. n
        <3>1. PICK j \in 1 .. i - 1 : outcomes[j].said = "timeout"
            BY <1>2, <2>1 DEF AnswerIsItsOwn, n
        <3> QED
            BY <1>1, <1>2, <2>1, <3>1
    <2>2. CASE i = n + 1
        <3>1. said \in {"success", "response"} /\ of # n + 1
            BY <1>2, <2>2
        <3>2. n # 0
            <4>1. n = 0 => outcomes = <<>>
                BY EmptySeq DEF n
            <4> QED
                BY <3>1, <4>1
        <3>3. 1 \in 1 .. n /\ \A k \in 1 .. n : outcomes[k].said = "timeout"
            BY <1>1, <3>1, <3>2 DEF n
        <3>4. 1 \in 1 .. i - 1 /\ outcomes'[1].said = "timeout"
            BY <1>1, <1>2, <2>2, <3>3
        <3> QED
            BY <3>4
    <2>3. i \in 1 .. n \/ i = n + 1
        <3>1. n \in Nat
            BY <1>1
        <3> QED
            BY <3>1
    <2> QED
        BY <2>1, <2>2, <2>3
<1> QED
    BY <1>1, <1>2, <1>3, <1>4 DEF n

\* The first command is the only one until something is reported of it.
LEMMA TypeCommandInvariant == ASSUME SessionInv, TypeCommand PROVE SessionInv'
<1> USE DEF SessionInv
<1>1. /\ cpc = "menu" /\ cpc' = "select" /\ Len(outcomes) < MaxCommands
      /\ UNCHANGED <<outcomes, swallowed, toClient, spc, outbox, ranTogether>>
    BY DEF TypeCommand, serverVars
<1>2. PICK kind \in Kinds :
          IF kind = "empty" THEN UNCHANGED <<toServer, typed>>
          ELSE /\ toServer' = Append(toServer, [id |-> Len(outcomes) + 1, kind |-> kind])
               /\ typed' = TRUE
    BY DEF TypeCommand
<1>3. /\ outcomes \in Seq(Reports) /\ toServer \in Seq(Lines)
      /\ Len(outcomes) + 1 \in Ids
    BY <1>1, MaxCommandsAssumption DEF SessionTypeOK, Reports, Lines, Ids
<1>4. /\ toServer' \in Seq(Lines) /\ typed' \in BOOLEAN
      /\ outcomes = <<>> => \A i \in 1 .. Len(toServer') : toServer'[i].id = 1
    <2>1. CASE kind = "empty"
        BY <1>2, <1>3, <2>1 DEF SessionTypeOK, FirstCommandOnly
    <2>2. CASE kind # "empty"
        <3> DEFINE line == [id |-> Len(outcomes) + 1, kind |-> kind]
        <3>1. toServer' = Append(toServer, line) /\ typed' = TRUE
            BY <1>2, <2>2
        <3>2. line \in Lines /\ line.id = Len(outcomes) + 1
            BY <1>3, <2>2 DEF Lines
        <3> HIDE DEF line
        <3>3. /\ toServer' \in Seq(Lines)
              /\ Len(toServer') = Len(toServer) + 1
              /\ \A i \in 1 .. Len(toServer) : toServer'[i] = toServer[i]
              /\ toServer'[Len(toServer) + 1] = line
            BY <1>3, <3>1, <3>2
        <3>4. outcomes = <<>> => line.id = 1
            BY <3>2
        <3> QED
            BY <1>3, <3>1, <3>3, <3>4 DEF FirstCommandOnly
    <2> QED
        BY <2>1, <2>2
<1>5. SessionTypeOK' /\ RoomToReport'
    BY <1>1, <1>4 DEF SessionTypeOK, RoomToReport, Lines
<1>6. AckComesFirst' /\ TimeoutsBeforeAnswer'
    BY <1>1 DEF AckComesFirst, TimeoutsBeforeAnswer, AckToCome
<1>7. /\ FirstCommandOnly' /\ OutboxOfCommand'
      /\ AtMostOneAnswered' /\ AnswerIsItsOwn'
    BY <1>1, <1>4 DEF FirstCommandOnly, OutboxOfCommand, AtMostOneAnswered, AnswerIsItsOwn
<1> QED
    BY <1>5, <1>6, <1>7

LEMMA TimeoutInvariant == ASSUME SessionInv, Timeout PROVE SessionInv'
<1> USE DEF SessionInv
<1>1. /\ cpc = "select" /\ cpc' = "menu" /\ Report("timeout", Nobody)
      /\ UNCHANGED <<typed, swallowed, toServer, toClient, spc, outbox, ranTogether>>
    BY DEF Timeout, Report, serverVars
<1>2. /\ outcomes \in Seq(Reports) /\ Len(outcomes) < MaxCommands
      /\ "timeout" \in Outcomes /\ Nobody \in Ids \cup {Nobody}
    BY <1>1 DEF SessionTypeOK, RoomToReport, Reports, Outcomes
<1>3. /\ outcomes' \in Seq(Reports) /\ outcomes' # <<>>
      /\ Len(outcomes') = Len(outcomes) + 1 /\ Len(outcomes') <= MaxCommands
      /\ \A i \in 1 .. Len(outcomes) : outcomes'[i] = outcomes[i]
      /\ outcomes'[Len(outcomes')].said = "timeout"
      /\ AtMostOneAnswered' /\ AnswerIsItsOwn'
    BY <1>1, <1>2, ReportProperties
<1>4. SessionTypeOK' /\ RoomToReport'
    BY <1>1, <1>3 DEF SessionTypeOK, RoomToReport, Reports
<1>5. TimeoutsBeforeAnswer'
    BY <1>1, <1>2, <1>3 DEF TimeoutsBeforeAnswer, AckToCome
<1>6. AckComesFirst' /\ FirstCommandOnly' /\ OutboxOfCommand'
    BY <1>1, <1>3 DEF AckComesFirst, FirstCommandOnly, OutboxOfCommand
<1> QED
    BY <1>3, <1>4, <1>5, <1>6

\* After a recv of the client what is left is no INITIAL_ACK.
LEMMA RecvProperties ==
    ASSUME SessionInv, NEW k \in 1 .. Len(toClient), toClient' = After(toClient, k),
           UNCHANGED spc
    PROVE  /\ toClient \in Seq(Texts) /\ toClient' \in Seq(Texts)
           /\ toClient # <<>> /\ 1 \in 1 .. Len(toClient)
           /\ Head(toClient) = toClient[1] /\ Head(toClient) \in Texts
           /\ \A i \in 1 .. Len(toClient') : toClient'[i].text # "INITIAL_ACK"
           /\ spc # "accepted" /\ ~AckToCome'
<1> USE DEF SessionInv
<1>1. /\ toClient \in Seq(Texts) /\ Len(toClient) \in Nat /\ toClient # <<>>
      /\ 1 \in 1 .. Len(toClient) /\ Head(toClient) = toClient[1]
    BY DEF SessionTypeOK, Texts
<1>2. toClient[1] \in Texts
    BY <1>1, ElementOfSeq
<1>3. /\ toClient' \in Seq(Texts) /\ Len(toClient') = Len(toClient) - k
      /\ \A i \in 1 .. Len(toClient) - k : toClient'[i] = toClient[i + k]
    BY <1>1, AfterProperties
<1>4. \A i \in 1 .. Len(toClient') : toClient'[i].text # "INITIAL_ACK"
    <2> SUFFICES ASSUME NEW i \in 1 .. Len(toClient')
                 PROVE  toClient'[i].text # "INITIAL_ACK"
        OBVIOUS
    <2>1. i + k \in 2 .. Len(toClient) /\ i \in 1 .. Len(toClient) - k
        BY <1>1, <1>3
    <2> QED
        BY <1>3, <2>1 DEF AckComesFirst
<1>5. spc # "accepted"
    BY <1>1 DEF AckComesFirst
<1>6. toClient' # <<>> => 1 \in 1 .. Len(toClient')
    BY <1>3, EmptySeq
<1> QED
    BY <1>1, <1>2, <1>3, <1>4, <1>5, <1>6 DEF AckToCome

LEMMA ReceiveInitialInvariant == ASSUME SessionInv, ReceiveInitial PROVE SessionInv'
<1> USE DEF SessionInv
<1>1. /\ cpc = "select"
      /\ UNCHANGED <<typed, toServer, spc, outbox, ranTogether>>
    BY DEF ReceiveInitial, serverVars
<1>2. PICK k \in 1 .. Len(toClient) :
          /\ toClient' = After(toClient, k)
          /\ IF IsInitialAck(Head(toClient))
             THEN cpc' = "final" /\ swallowed' = k - 1 /\ UNCHANGED outcomes
             ELSE Report("failed", Head(toClient).of) /\ UNCHANGED swallowed
    BY DEF ReceiveInitial
<1>3. /\ toClient \in Seq(Texts) /\ toClient' \in Seq(Texts)
      /\ toClient # <<>> /\ 1 \in 1 .. Len(toClient)
      /\ Head(toClient) = toClient[1] /\ Head(toClient) \in Texts
      /\ \A i \in 1 .. Len(toClient') : toClient'[i].text # "INITIAL_ACK"
      /\ spc # "accepted" /\ ~AckToCome'
    BY <1>1, <1>2, RecvProperties
<1>4. /\ Len(toClient) \in Nat /\ Len(toClient') = Len(toClient) - k
      /\ \A i \in 1 .. Len(toClient) - k : toClient'[i] = toClient[i + k]
    <2>1. toClient' = After(toClient, k)
        BY <1>2
    <2>2. Len(toClient) \in Nat
        BY <1>3
    <2> QED
        BY <1>3, <2>1, <2>2, AfterProperties
<1>5. AckComesFirst' /\ OutboxOfCommand'
    <2>1. Len(toClient') \in Nat
        BY <1>3
    <2>2. \A i \in 2 .. Len(toClient') : toClient'[i].text # "INITIAL_ACK"
        BY <1>3, <2>1
    <2> QED
        BY <1>1, <1>3, <2>2 DEF AckComesFirst, OutboxOfCommand
<1>6. CASE IsInitialAck(Head(toClient))
    <2>1. AckToCome
        BY <1>3, <1>6 DEF AckToCome, IsInitialAck
    <2>2. /\ cpc' = "final" /\ swallowed' = k - 1 /\ UNCHANGED outcomes
        BY <1>2, <1>6
    <2>3. k - 1 \in Nat
        BY <1>3
    <2>4. SessionTypeOK' /\ RoomToReport'
        BY <1>1, <1>3, <2>2, <2>3 DEF SessionTypeOK, RoomToReport, Texts
    <2>5. TimeoutsBeforeAnswer'
        BY <1>3, <2>1, <2>2 DEF TimeoutsBeforeAnswer
    <2>6. FirstCommandOnly'
        <3> SUFFICES ASSUME outcomes = <<>>, NEW i \in 1 .. Len(toClient')
                     PROVE  toClient'[i].of = 1
            BY <1>1, <2>2 DEF FirstCommandOnly
        <3>1. i + k \in 1 .. Len(toClient) /\ toClient'[i] = toClient[i + k]
            BY <1>4
        <3> QED
            BY <1>3, <3>1 DEF FirstCommandOnly
    <2>7. AtMostOneAnswered' /\ AnswerIsItsOwn'
        BY <2>2 DEF AtMostOneAnswered, AnswerIsItsOwn
    <2> QED
        BY <1>5, <2>4, <2>5, <2>6, <2>7
<1>7. CASE ~IsInitialAck(Head(toClient))
    <2>1. /\ Report("failed", Head(toClient).of) /\ UNCHANGED swallowed
          /\ cpc' = "menu"
        BY <1>2, <1>7 DEF Report
    <2>2. /\ outcomes \in Seq(Reports) /\ Len(outcomes) < MaxCommands
          /\ "failed" \in Outcomes /\ Head(toClient).of \in Ids \cup {Nobody}
        BY <1>1, <1>3 DEF SessionTypeOK, RoomToReport, Reports, Outcomes, Texts
    <2>3. /\ outcomes' \in Seq(Reports) /\ outcomes' # <<>>
          /\ Len(outcomes') <= MaxCommands
          /\ AtMostOneAnswered' /\ AnswerIsItsOwn'
        BY <2>1, <2>2, ReportProperties
    <2>4. SessionTypeOK' /\ RoomToReport'
        BY <1>1, <1>3, <2>1, <2>3 DEF SessionTypeOK, RoomToReport, Texts, Reports
    <2>5. TimeoutsBeforeAnswer' /\ FirstCommandOnly'
        BY <1>3, <2>1, <2>3 DEF TimeoutsBeforeAnswer, FirstCommandOnly
    <2> QED
        BY <1>5, <2>3, <2>4, <2>5
<1> QED
    BY <1>6, <1>7

\* The first answer: so far there were timeouts only.
LEMMA ReceiveFinalInvariant == ASSUME SessionInv, ReceiveFinal PROVE SessionInv'
<1> USE DEF SessionInv
<1> DEFINE said == IF Head(toClient).text = "FINAL_ACK" THEN "success" ELSE "response"
<1>1. /\ cpc = "final" /\ cpc' = "menu" /\ Report(said, Head(toClient).of)
      /\ UNCHANGED <<typed, swallowed, toServer, spc, outbox, ranTogether>>
    BY DEF ReceiveFinal, serverVars, Report
<1>2. PICK k \in 1 .. Len(toClient) : toClient' = After(toClient, k)
    BY DEF ReceiveFinal
<1>3. /\ toClient \in Seq(Texts) /\ toClient' \in Seq(Texts)
      /\ toClient # <<>> /\ 1 \in 1 .. Len(toClient)
      /\ Head(toClient) = toClient[1] /\ Head(toClient) \in Texts
      /\ \A i \in 1 .. Len(toClient') : toClient'[i].text # "INITIAL_ACK"
      /\ spc # "accepted" /\ ~AckToCome'
    BY <1>1, <1>2, RecvProperties
<1>4. /\ outcomes \in Seq(Reports) /\ Len(outcomes) < MaxCommands
      /\ said \in Outcomes /\ Head(toClient).of \in Ids \cup {Nobody}
    BY <1>1, <1>3 DEF SessionTypeOK, RoomToReport, Reports, Outcomes, Texts
<1>5. /\ \A i \in 1 .. Len(outcomes) : outcomes[i].said = "timeout"
      /\ ~AckToCome
    BY <1>1 DEF TimeoutsBeforeAnswer
<1>6. outcomes = <<>> => Head(toClient).of = 1
    BY <1>3, <1>5 DEF FirstCommandOnly, AckToCome
<1>7. /\ outcomes' \in Seq(Reports) /\ outcomes' # <<>>
      /\ Len(outcomes') <= MaxCommands
      /\ AtMostOneAnswered' /\ AnswerIsItsOwn'
    <2> HIDE DEF said
    <2> QED
        BY <1>1, <1>4, <1>5, <1>6, ReportProperties
<1>8. SessionTypeOK' /\ RoomToReport'
    BY <1>1, <1>3, <1>7 DEF SessionTypeOK, RoomToReport, Texts, Reports
<1>9. TimeoutsBeforeAnswer' /\ FirstCommandOnly'
    BY <1>1, <1>3, <1>7 DEF TimeoutsBeforeAnswer, FirstCommandOnly
<1>10. AckComesFirst' /\ OutboxOfCommand'
    <2>1. Len(toClient') \in Nat
        BY <1>3
    <2>2. \A i \in 2 .. Len(toClient') : toClient'[i].text # "INITIAL_ACK"
        BY <1>3, <2>1
    <2> QED
        BY <1>1, <1>3, <2>2 DEF AckComesFirst, OutboxOfCommand
<1> QED
    BY <1>7, <1>8, <1>9, <1>10

LEMMA ClientInvariant == ASSUME SessionInv, Client PROVE SessionInv'
<1>1. CASE Exit
    BY <1>1 DEF Exit, serverVars, SessionInv, SessionTypeOK, RoomToReport, AckComesFirst,
                TimeoutsBeforeAnswer, AckToCome, FirstCommandOnly, OutboxOfCommand,
                AtMostOneAnswered, AnswerIsItsOwn
<1> QED
    BY <1>1, TypeCommandInvariant, TimeoutInvariant, ReceiveInitialInvariant,
       ReceiveFinalInvariant DEF Client

-----------------------------------------------------------------------------
(* The handler.                                                            *)

LEMMA SendInitialAckInvariant == ASSUME SessionInv, SendInitialAck PROVE SessionInv'
<1> USE DEF SessionInv
<1>1. /\ spc = "accepted" /\ spc' = "recv" /\ toClient = <<>>
      /\ toClient' = Append(toClient, [text |-> "INITIAL_ACK", of |-> Nobody])
      /\ UNCHANGED <<cpc, outcomes, typed, swallowed, outbox, ranTogether, toServer>>
    BY DEF SendInitialAck, clientVars, AckComesFirst
<1> DEFINE ack == [text |-> "INITIAL_ACK", of |-> Nobody]
<1>2. ack \in Texts /\ ack.text = "INITIAL_ACK"
    BY DEF Texts, Messages
<1> HIDE DEF ack
<1>3. /\ toClient' = <<ack>> /\ toClient' \in Seq(Texts) /\ toClient' # <<>>
      /\ Len(toClient') = 1 /\ toClient'[1] = ack
    <2>1. toClient' = <<ack>>
        BY <1>1 DEF ack
    <2> QED
        BY <1>2, <2>1
<1>4. AckToCome /\ AckToCome'
    BY <1>1, <1>2, <1>3 DEF AckToCome
<1>5. SessionTypeOK'
    BY <1>1, <1>3 DEF SessionTypeOK, Texts
<1>6. RoomToReport' /\ TimeoutsBeforeAnswer' /\ AtMostOneAnswered' /\ AnswerIsItsOwn'
    BY <1>1, <1>4 DEF RoomToReport, TimeoutsBeforeAnswer, AtMostOneAnswered, AnswerIsItsOwn
<1>7. AckComesFirst' /\ FirstCommandOnly' /\ OutboxOfCommand'
    BY <1>1, <1>2, <1>3 DEF AckComesFirst, FirstCommandOnly, OutboxOfCommand
<1> QED
    BY <1>5, <1>6, <1>7

LEMMA ReceiveCommandInvariant == ASSUME SessionInv, ReceiveCommand PROVE SessionInv'
<1> USE DEF SessionInv
<1>1. spc = "recv" /\ UNCHANGED <<cpc, outcomes, typed, swallowed, toClient>>
    BY DEF ReceiveCommand, clientVars
<1>2. PICK k \in 1 .. Len(toServer) :
          /\ toServer' = After(toServer, k)
          /\ ranTogether' = (ranTogether \/ k > 1)
          /\ \E kind \in Parsed(SubSeq(toServer, 1, k)) :
                /\ outbox' = [i \in DOMAIN Answers(kind) |->
                                 [text |-> Answers(kind)[i], of |-> Head(toServer).id]]
                /\ spc' = IF kind = "ok" THEN "forward" ELSE "answer"
    BY DEF ReceiveCommand
<1>3. PICK kind \in Parsed(SubSeq(toServer, 1, k)) :
          /\ outbox' = [i \in DOMAIN Answers(kind) |->
                           [text |-> Answers(kind)[i], of |-> Head(toServer).id]]
          /\ spc' = IF kind = "ok" THEN "forward" ELSE "answer"
    BY <1>2
<1>4. /\ toServer \in Seq(Lines) /\ Len(toServer) \in Nat /\ toServer # <<>>
      /\ 1 \in 1 .. Len(toServer) /\ Head(toServer) = toServer[1]
    BY DEF SessionTypeOK, Lines
<1>5. toServer[1].id \in Ids
    <2>1. toServer[1] \in Lines
        BY <1>4, ElementOfSeq
    <2> QED
        BY <2>1 DEF Lines
<1>6. kind \in Kinds \ {"empty"}
    <2>1. SubSeq(toServer, 1, k) \in Seq(Lines) /\ SubSeq(toServer, 1, k) # <<>>
        BY <1>4, FirstProperties, EmptySeq
    <2> QED
        BY <1>3, <2>1, ParsedProperties
<1>7. /\ toServer' \in Seq(Lines) /\ Len(toServer') = Len(toServer) - k
      /\ \A i \in 1 .. Len(toServer) - k : toServer'[i] = toServer[i + k]
    <2>1. toServer' = After(toServer, k)
        BY <1>2
    <2> QED
        BY <1>4, <2>1, AfterProperties
<1>8. /\ outbox' \in Seq(Texts) /\ Len(outbox') \in Nat /\ outbox' # <<>>
      /\ \A i \in 1 .. Len(outbox') :
            outbox'[i].text # "INITIAL_ACK" /\ outbox'[i].of = toServer[1].id
    <2> DEFINE a == Answers(kind)
               id == toServer[1].id
    <2>1. a \in Seq(Messages \ {"INITIAL_ACK"}) /\ a # <<>>
        BY <1>6, AnswersProperties
    <2>2. outbox' = [i \in DOMAIN a |-> [text |-> a[i], of |-> id]]
        BY <1>3, <1>4
    <2>3. id \in Ids
        BY <1>5
    <2> HIDE DEF a, id
    <2>4. Len(a) \in Nat /\ DOMAIN a = 1 .. Len(a)
        BY <2>1
    <2>5. \A i \in 1 .. Len(a) : a[i] \in Messages \ {"INITIAL_ACK"}
        BY <2>1, ElementOfSeq
    <2>6. outbox' \in [1 .. Len(a) -> Texts]
        BY <2>2, <2>3, <2>4, <2>5 DEF Texts
    <2>7. outbox' \in Seq(Texts) /\ Len(outbox') = Len(a)
        BY <2>4, <2>6
    <2>8. outbox' # <<>>
        BY <2>1, <2>7, EmptySeq
    <2> QED
        BY <2>2, <2>4, <2>5, <2>7, <2>8 DEF id
<1>9. /\ spc' \in {"forward", "answer"} /\ ranTogether' \in BOOLEAN
    <2>1. ranTogether' \in BOOLEAN
        BY <1>2 DEF SessionTypeOK
    <2> QED
        BY <1>3, <2>1
<1>10. SessionTypeOK' /\ RoomToReport'
    BY <1>1, <1>7, <1>8, <1>9 DEF SessionTypeOK, RoomToReport, Lines, Texts
<1>11. AckComesFirst' /\ TimeoutsBeforeAnswer' /\ OutboxOfCommand'
    BY <1>1, <1>5, <1>8, <1>9 DEF AckComesFirst, TimeoutsBeforeAnswer, AckToCome,
                                  OutboxOfCommand
<1>12. FirstCommandOnly'
    <2> SUFFICES ASSUME outcomes = <<>>
                 PROVE  /\ \A i \in 1 .. Len(toServer') : toServer'[i].id = 1
                        /\ \A i \in 1 .. Len(outbox') : outbox'[i].of = 1
        BY <1>1 DEF FirstCommandOnly
    <2>1. \A i \in 1 .. Len(toServer) : toServer[i].id = 1
        BY DEF FirstCommandOnly
    <2>2. ASSUME NEW i \in 1 .. Len(toServer') PROVE toServer'[i].id = 1
        <3>1. i + k \in 1 .. Len(toServer) /\ i \in 1 .. Len(toServer) - k
            BY <1>4, <1>7
        <3> QED
            BY <1>7, <2>1, <3>1
    <2> QED
        BY <1>4, <1>8, <2>1, <2>2
<1>13. AtMostOneAnswered' /\ AnswerIsItsOwn'
    BY <1>1 DEF AtMostOneAnswered, AnswerIsItsOwn
<1> QED
    BY <1>10, <1>11, <1>12, <1>13

LEMMA AnswerInvariant == ASSUME SessionInv, Answer PROVE SessionInv'
<1> USE DEF SessionInv
<1>1. /\ spc = "answer"
      /\ UNCHANGED <<cpc, outcomes, typed, swallowed, ranTogether, toServer>>
    BY DEF Answer, clientVars
<1>2. RoomToReport' /\ AtMostOneAnswered' /\ AnswerIsItsOwn'
    BY <1>1 DEF RoomToReport, AtMostOneAnswered, AnswerIsItsOwn
<1>3. CASE outbox = <<>>
    <2>1. spc' = "recv" /\ UNCHANGED <<outbox, toClient>>
        BY <1>3 DEF Answer
    <2> QED
        BY <1>1, <1>2, <2>1 DEF SessionTypeOK, AckComesFirst, TimeoutsBeforeAnswer,
                                AckToCome, FirstCommandOnly, OutboxOfCommand
<1>4. CASE outbox # <<>>
    <2>1. /\ toClient' = Append(toClient, Head(outbox)) /\ outbox' = Tail(outbox)
          /\ spc' = spc
        BY <1>4 DEF Answer
    <2>2. /\ outbox \in Seq(Texts) /\ toClient \in Seq(Texts)
          /\ Len(outbox) \in Nat /\ Len(toClient) \in Nat /\ 1 \in 1 .. Len(outbox)
          /\ Head(outbox) = outbox[1]
        BY <1>4, EmptySeq DEF SessionTypeOK, Texts
    <2>3. /\ outbox' \in Seq(Texts) /\ Len(outbox') = Len(outbox) - 1
          /\ \A i \in 1 .. Len(outbox') : outbox'[i] = outbox[i + 1]
        BY <1>4, <2>1, <2>2, HeadTailProperties
    <2>4. outbox[1] \in Texts /\ outbox[1].text # "INITIAL_ACK"
        BY <2>2, ElementOfSeq DEF AckComesFirst
    <2>5. /\ toClient' \in Seq(Texts) /\ Len(toClient') = Len(toClient) + 1
          /\ \A i \in 1 .. Len(toClient) : toClient'[i] = toClient[i]
          /\ toClient'[Len(toClient) + 1] = outbox[1] /\ toClient' # <<>>
        BY <2>1, <2>2, <2>4
    <2>6. SessionTypeOK'
        BY <1>1, <2>1, <2>3, <2>5 DEF SessionTypeOK, Texts
    <2>7. AckComesFirst'
        <3>1. \A i \in 1 .. Len(outbox') : outbox'[i].text # "INITIAL_ACK"
            BY <2>2, <2>3 DEF AckComesFirst
        <3>2. \A i \in 2 .. Len(toClient') : toClient'[i].text # "INITIAL_ACK"
            BY <2>2, <2>4, <2>5 DEF AckComesFirst
        <3> QED
            BY <1>1, <2>1, <3>1, <3>2 DEF AckComesFirst
    <2>8. AckToCome' => AckToCome
        <3>1. CASE toClient = <<>>
            BY <1>1, <2>1, <2>4, <2>5, <3>1 DEF AckToCome
        <3>2. CASE toClient # <<>>
            <4>1. 1 \in 1 .. Len(toClient)
                BY <2>2, <3>2, EmptySeq
            <4> QED
                BY <1>1, <2>1, <2>5, <3>2, <4>1 DEF AckToCome
        <3> QED
            BY <3>1, <3>2
    <2>9. TimeoutsBeforeAnswer'
        BY <1>1, <2>8 DEF TimeoutsBeforeAnswer
    <2>10. FirstCommandOnly'
        <3> SUFFICES ASSUME outcomes = <<>>
                     PROVE  /\ \A i \in 1 .. Len(outbox') : outbox'[i].of = 1
                            /\ \A i \in 1 .. Len(toClient') :
                                  toClient'[i].text = "INITIAL_ACK" \/ toClient'[i].of = 1
            BY <1>1 DEF FirstCommandOnly
        <3>1. \A i \in 1 .. Len(outbox) : outbox[i].of = 1
            BY DEF FirstCommandOnly
        <3>2. \A i \in 1 .. Len(outbox') : outbox'[i].of = 1
            BY <2>2, <2>3, <3>1
        <3>3. \A i \in 1 .. Len(toClient') :
                  toClient'[i].text = "INITIAL_ACK" \/ toClient'[i].of = 1
            BY <2>2, <2>5, <3>1 DEF FirstCommandOnly
        <3> QED
            BY <3>2, <3>3
    <2>11. OutboxOfCommand'
        BY <1>1, <2>1, <2>2, <2>3 DEF OutboxOfCommand
    <2> QED
        BY <1>2, <2>6, <2>7, <2>9, <2>10, <2>11
<1> QED
    BY <1>3, <1>4

LEMMA HandlerInvariant == ASSUME SessionInv, Handler \/ Forward PROVE SessionInv'
<1>1. ASSUME Disconnect \/ Forward PROVE SessionInv'
    <2> USE DEF SessionInv
    <2>1. /\ spc \in {"recv", "forward"} /\ spc' \in {"closed", "answer"}
          /\ UNCHANGED <<cpc, outcomes, typed, swallowed, outbox, ranTogether, toServer,
                         toClient>>
        BY <1>1 DEF Disconnect, Forward, clientVars
    <2>2. SessionTypeOK' /\ RoomToReport'
        BY <2>1 DEF SessionTypeOK, RoomToReport
    <2>3. AckComesFirst' /\ TimeoutsBeforeAnswer' /\ OutboxOfCommand'
        BY <2>1 DEF AckComesFirst, TimeoutsBeforeAnswer, AckToCome, OutboxOfCommand
    <2>4. FirstCommandOnly' /\ AtMostOneAnswered' /\ AnswerIsItsOwn'
        BY <2>1 DEF FirstCommandOnly, AtMostOneAnswered, AnswerIsItsOwn
    <2> QED
        BY <2>2, <2>3, <2>4
<1> QED
    BY <1>1, SendInitialAckInvariant, ReceiveCommandInvariant, AnswerInvariant DEF Handler

-----------------------------------------------------------------------------
(* Which commands wait, and whether an answer is under way.                *)

LEMMA WaitingTypes ==
    ASSUME SessionInv
    PROVE  /\ Len(outcomes) \in Nat /\ Len(toServer) \in Nat
           /\ Len(toClient) \in Nat /\ Len(outbox) \in Nat
           /\ outcomes \in Seq(Reports) /\ toServer \in Seq(Lines)
           /\ toClient \in Seq(Texts) /\ outbox \in Seq(Texts)
           /\ Waiting \subseteq Ids /\ Nobody \notin Waiting
           /\ Answered \subseteq Ids \cup {Nobody}
           /\ Typed \in Nat
<1>1. /\ outcomes \in Seq(Reports) /\ toServer \in Seq(Lines)
      /\ toClient \in Seq(Texts) /\ outbox \in Seq(Texts)
    BY DEF SessionInv, SessionTypeOK, Reports, Lines, Texts
<1>2. \A i \in 1 .. Len(toServer) : toServer[i] \in Lines
    BY <1>1, ElementOfSeq
<1>3. Waiting \subseteq Ids /\ Nobody \notin Waiting
    BY <1>2, MaxCommandsAssumption DEF Waiting, Lines, Ids, Nobody
<1>4. Len(outcomes) \in Nat
    BY <1>1
<1>5. /\ \A i \in 1 .. Len(outcomes) : outcomes[i] \in Reports
      /\ \A i \in 1 .. Len(toClient) : toClient[i] \in Texts
      /\ \A i \in 1 .. Len(outbox) : outbox[i] \in Texts
    BY <1>1, ElementOfSeq
<1>6. Answered \subseteq Ids \cup {Nobody}
    BY <1>5 DEF Answered, Reports, Texts
<1> QED
    BY <1>1, <1>3, <1>4, <1>6 DEF Typed

\* A step that takes no command, and tells the client nothing new, leaves those
\* that wait unanswered.
LEMMA WaitingKept ==
    ASSUME SessionInv, SessionInv', WaitingInv, UNCHANGED <<toServer, ranTogether>>,
           Answered' \subseteq Answered \cup {Nobody}, Typed <= Typed',
           Len(outcomes) <= Len(outcomes'),
           \A i \in 1 .. Len(outcomes) : outcomes'[i] = outcomes[i]
    PROVE  WaitingInv'
<1>1. /\ Len(outcomes) \in Nat /\ Len(outcomes') \in Nat
      /\ Waiting \subseteq Ids /\ Nobody \notin Waiting
      /\ Typed \in Nat /\ Typed' \in Nat /\ MaxCommands \in Nat
    <2>1. outcomes' \in Seq(Reports)
        BY DEF SessionInv, SessionTypeOK, Reports
    <2>2. Len(outcomes') \in Nat
        BY <2>1
    <2> QED
        BY <2>2, WaitingTypes, MaxCommandsAssumption DEF Typed
<1>2. Waiting' = Waiting
    BY DEF Waiting
<1>3. \A i, j \in 1 .. Len(toServer') : i < j => toServer'[i].id < toServer'[j].id
    BY DEF WaitingInv
<1>4. ASSUME NEW id \in (Waiting \cup Answered)' PROVE id <= Typed'
    <2>1. CASE id = Nobody
        BY <1>1, <2>1 DEF Nobody
    <2>2. CASE id \in Waiting
        <3>1. id <= Typed /\ id \in Int
            BY <1>1, <2>2 DEF WaitingInv, Ids
        <3> QED
            BY <1>1, <3>1
    <2>3. CASE id \in Answered
        <3>1. id <= Typed /\ id \in Ids \cup {Nobody}
            BY <1>1, <2>3, WaitingTypes DEF WaitingInv
        <3> QED
            BY <1>1, <3>1 DEF Ids, Nobody
    <2> QED
        BY <1>2, <1>4, <2>1, <2>2, <2>3
<1>5. (Waiting \cap Answered = {})'
    BY <1>1, <1>2 DEF WaitingInv
<1>6. RanTogetherOnlyAfterLateAnswer'
    <2> SUFFICES ASSUME ranTogether
                 PROVE  \E i \in 1 .. Len(outcomes') : outcomes'[i].of # i
        BY DEF RanTogetherOnlyAfterLateAnswer
    <2>1. PICK i \in 1 .. Len(outcomes) : outcomes[i].of # i
        BY DEF WaitingInv, RanTogetherOnlyAfterLateAnswer
    <2> QED
        BY <1>1, <2>1
<1> QED
    BY <1>3, <1>4, <1>5, <1>6 DEF WaitingInv

\* A report on the command the client waits for.
LEMMA ReportWaiting ==
    ASSUME SessionInv, SessionInv', WaitingInv, cpc \in {"select", "final"},
           NEW said, NEW of \in Answered \cup {Nobody}, Report(said, of),
           UNCHANGED <<toServer, outbox, ranTogether>>,
           {toClient'[i].of : i \in 1 .. Len(toClient')} \subseteq Answered
    PROVE  WaitingInv'
<1> DEFINE e == [said |-> said, of |-> of]
<1>1. outcomes' = Append(outcomes, e) /\ cpc' = "menu" /\ e.of = of
    BY DEF Report
<1>2. outcomes \in Seq(Reports) /\ outcomes' \in Seq(Reports) /\ Len(outcomes) \in Nat
    BY WaitingTypes DEF SessionInv, SessionTypeOK, Reports
<1> HIDE DEF e
<1>3. /\ Len(outcomes') = Len(outcomes) + 1
      /\ \A i \in 1 .. Len(outcomes) : outcomes'[i] = outcomes[i]
      /\ outcomes'[Len(outcomes) + 1] = e
    BY <1>1, <1>2
<1>4. Typed' = Typed
    BY <1>1, <1>3 DEF Typed
<1>5. {outcomes'[i].of : i \in 1 .. Len(outcomes')} \subseteq Answered \cup {Nobody}
    <2> SUFFICES ASSUME NEW i \in 1 .. Len(outcomes')
                 PROVE  outcomes'[i].of \in Answered \cup {Nobody}
        OBVIOUS
    <2>1. i \in 1 .. Len(outcomes) \/ i = Len(outcomes) + 1
        BY <1>2, <1>3
    <2> QED
        BY <1>1, <1>3, <2>1 DEF Answered
<1>6. Answered' \subseteq Answered \cup {Nobody}
    BY <1>5 DEF Answered
<1>7. Typed <= Typed' /\ Len(outcomes) <= Len(outcomes')
    BY <1>2, <1>3, <1>4, WaitingTypes
<1> QED
    BY <1>3, <1>6, <1>7, WaitingKept

\* What a recv of the client leaves on the stream was there before.
LEMMA RecvWaiting ==
    ASSUME SessionInv, NEW k \in 1 .. Len(toClient), toClient' = After(toClient, k)
    PROVE  /\ {toClient'[i].of : i \in 1 .. Len(toClient')} \subseteq Answered
           /\ Head(toClient).of \in Answered
           /\ \A i \in k + 1 .. Len(toClient) : \E j \in 1 .. Len(toClient') :
                 toClient'[j] = toClient[i]
<1>1. toClient \in Seq(Texts) /\ Len(toClient) \in Nat
    BY WaitingTypes
<1>2. /\ Len(toClient') = Len(toClient) - k
      /\ \A i \in 1 .. Len(toClient) - k : toClient'[i] = toClient[i + k]
    BY <1>1, AfterProperties
<1>3. Head(toClient) = toClient[1] /\ 1 \in 1 .. Len(toClient)
    BY <1>1
<1>4. ASSUME NEW i \in 1 .. Len(toClient') PROVE toClient'[i].of \in Answered
    <2>1. i + k \in 1 .. Len(toClient) /\ toClient'[i] = toClient[i + k]
        BY <1>1, <1>2
    <2> QED
        BY <2>1 DEF Answered
<1>5. ASSUME NEW i \in k + 1 .. Len(toClient)
      PROVE  \E j \in 1 .. Len(toClient') : toClient'[j] = toClient[i]
    <2>1. i - k \in 1 .. Len(toClient') /\ (i - k) + k = i
        BY <1>1, <1>2
    <2>2. toClient'[i - k] = toClient[i]
        BY <1>2, <2>1
    <2> QED
        BY <2>1, <2>2
<1> QED
    BY <1>3, <1>4, <1>5, ZenonT(40) DEF Answered

\* A command that is typed is the last of those that wait.
LEMMA TypeCommandWaiting ==
    ASSUME SessionInv, SessionInv', WaitingInv, TypeCommand
    PROVE  WaitingInv'
<1>1. /\ cpc = "menu" /\ cpc' = "select"
      /\ UNCHANGED <<outcomes, toClient, outbox, ranTogether>>
    BY DEF TypeCommand, serverVars
<1>2. /\ Typed' = Typed + 1 /\ Typed = Len(outcomes) /\ Answered' = Answered
      /\ Typed \in Nat
    BY <1>1, WaitingTypes DEF Typed, Answered
<1>3. PICK kind \in Kinds :
          IF kind = "empty" THEN UNCHANGED <<toServer, typed>>
          ELSE toServer' = Append(toServer, [id |-> Len(outcomes) + 1, kind |-> kind])
    BY DEF TypeCommand
<1>4. CASE kind = "empty"
    BY <1>1, <1>2, <1>3, <1>4, WaitingKept
<1>5. CASE kind # "empty"
    <2> DEFINE line == [id |-> Len(outcomes) + 1, kind |-> kind]
    <2>1. toServer' = Append(toServer, line) /\ line.id = Typed + 1
        BY <1>2, <1>3, <1>5
    <2> HIDE DEF line
    <2>2. toServer \in Seq(Lines) /\ Len(toServer) \in Nat
        BY WaitingTypes
    <2>3. /\ Len(toServer') = Len(toServer) + 1
          /\ \A i \in 1 .. Len(toServer) : toServer'[i] = toServer[i]
          /\ toServer'[Len(toServer) + 1] = line
        BY <2>1, <2>2
    <2>4. Waiting' = Waiting \cup {Typed + 1}
        BY <2>1, <2>2, <2>3 DEF Waiting
    <2>5. \A id \in Waiting \cup Answered : id \in Int /\ id <= Typed
        BY WaitingTypes DEF WaitingInv, Ids, Nobody
    <2>6. \A i, j \in 1 .. Len(toServer') : i < j => toServer'[i].id < toServer'[j].id
        <3> SUFFICES ASSUME NEW i \in 1 .. Len(toServer'), NEW j \in 1 .. Len(toServer'),
                            i < j
                     PROVE  toServer'[i].id < toServer'[j].id
            OBVIOUS
        <3>1. i \in 1 .. Len(toServer) /\ toServer[i].id \in Waiting
            BY <2>2, <2>3 DEF Waiting
        <3>2. toServer[i].id \in Int /\ toServer[i].id <= Typed
            BY <2>5, <3>1
        <3>3. CASE j = Len(toServer) + 1
            BY <1>2, <2>1, <2>3, <3>1, <3>2, <3>3
        <3>4. CASE j \in 1 .. Len(toServer)
            BY <2>3, <3>1, <3>4 DEF WaitingInv
        <3> QED
            BY <2>2, <2>3, <3>3, <3>4
    <2>7. \A id \in (Waiting \cup Answered)' : id <= Typed'
        BY <1>2, <2>4, <2>5
    <2>8. (Waiting \cap Answered = {})'
        <3>1. Typed + 1 \notin Answered
            BY <1>2, <2>5
        <3> QED
            BY <1>2, <2>4, <3>1 DEF WaitingInv
    <2> QED
        BY <1>1, <2>6, <2>7, <2>8 DEF WaitingInv, RanTogetherOnlyAfterLateAnswer
<1> QED
    BY <1>4, <1>5

LEMMA ClientWaiting ==
    ASSUME SessionInv, SessionInv', WaitingInv, Client
    PROVE  WaitingInv'
<1>1. CASE Timeout
    <2>1. /\ cpc = "select" /\ Report("timeout", Nobody)
          /\ UNCHANGED <<toServer, toClient, outbox, ranTogether>>
        BY <1>1 DEF Timeout, serverVars
    <2> QED
        BY <2>1, ReportWaiting DEF Answered
<1>2. CASE ReceiveInitial
    <2>1. PICK k \in 1 .. Len(toClient) :
              /\ toClient' = After(toClient, k)
              /\ IF IsInitialAck(Head(toClient)) THEN cpc' = "final" /\ UNCHANGED outcomes
                 ELSE Report("failed", Head(toClient).of)
        BY <1>2 DEF ReceiveInitial
    <2>2. cpc = "select" /\ UNCHANGED <<toServer, outbox, ranTogether>>
        BY <1>2 DEF ReceiveInitial, serverVars
    <2>3. /\ {toClient'[i].of : i \in 1 .. Len(toClient')} \subseteq Answered
          /\ Head(toClient).of \in Answered
        BY <2>1, RecvWaiting
    <2>4. CASE IsInitialAck(Head(toClient))
        <3>1. cpc' = "final" /\ UNCHANGED outcomes
            BY <2>1, <2>4
        <3>2. Typed' = Typed /\ Answered' \subseteq Answered
            BY <2>2, <2>3, <3>1 DEF Typed, Answered
        <3> QED
            BY <2>2, <3>1, <3>2, WaitingTypes, WaitingKept
    <2>5. CASE ~IsInitialAck(Head(toClient))
        BY <2>1, <2>2, <2>3, <2>5, ReportWaiting
    <2> QED
        BY <2>4, <2>5
<1>3. CASE ReceiveFinal
    <2> DEFINE said == IF Head(toClient).text = "FINAL_ACK" THEN "success" ELSE "response"
    <2>1. PICK k \in 1 .. Len(toClient) : toClient' = After(toClient, k)
        BY <1>3 DEF ReceiveFinal
    <2>2. /\ cpc = "final" /\ Report(said, Head(toClient).of)
          /\ UNCHANGED <<toServer, outbox, ranTogether>>
        BY <1>3 DEF ReceiveFinal, serverVars
    <2>3. /\ {toClient'[i].of : i \in 1 .. Len(toClient')} \subseteq Answered
          /\ Head(toClient).of \in Answered
        BY <2>1, RecvWaiting
    <2> HIDE DEF said
    <2> QED
        BY <2>2, <2>3, ReportWaiting
<1>4. CASE Exit
    <2>1. /\ cpc = "menu" /\ cpc' = "closed"
          /\ UNCHANGED <<outcomes, toServer, toClient, outbox, ranTogether>>
        BY <1>4 DEF Exit, serverVars
    <2>2. Typed' = Typed /\ Answered' = Answered
        BY <2>1 DEF Typed, Answered
    <2> QED
        BY <2>1, <2>2, WaitingTypes, WaitingKept
<1> QED
    BY <1>1, <1>2, <1>3, <1>4, TypeCommandWaiting DEF Client

\* The handler takes the first of the commands that wait, which the client was
\* told of already if there is another.
LEMMA ReceiveCommandWaiting ==
    ASSUME SessionInv, SessionInv', WaitingInv, ReceiveCommand
    PROVE  WaitingInv'
<1>1. UNCHANGED <<cpc, outcomes, toClient>>
    BY DEF ReceiveCommand, clientVars
<1>2. PICK k \in 1 .. Len(toServer) :
          /\ toServer' = After(toServer, k)
          /\ ranTogether' = (ranTogether \/ k > 1)
          /\ \E kind \in Parsed(SubSeq(toServer, 1, k)) :
                outbox' = [i \in DOMAIN Answers(kind) |->
                              [text |-> Answers(kind)[i], of |-> Head(toServer).id]]
    BY DEF ReceiveCommand
<1>3. /\ toServer \in Seq(Lines) /\ Len(toServer) \in Nat /\ 1 \in 1 .. Len(toServer)
      /\ Head(toServer) = toServer[1]
    BY WaitingTypes
<1> DEFINE first == toServer[1].id
<1>4. first \in Waiting
    BY <1>3 DEF Waiting
<1>5. {outbox'[i].of : i \in 1 .. Len(outbox')} \subseteq {first}
    <2>1. PICK kind : outbox' = [i \in DOMAIN Answers(kind) |->
                                    [text |-> Answers(kind)[i], of |-> first]]
        BY <1>2, <1>3
    <2>2. outbox' \in Seq(Texts)
        BY DEF SessionInv, SessionTypeOK, Texts
    <2>3. 1 .. Len(outbox') = DOMAIN Answers(kind)
        BY <2>1, <2>2
    <2> HIDE DEF first
    <2> QED
        BY <2>1, <2>3
<1>6. /\ Len(toServer') = Len(toServer) - k
      /\ \A i \in 1 .. Len(toServer) - k : toServer'[i] = toServer[i + k]
    <2>1. toServer' = After(toServer, k)
        BY <1>2
    <2> QED
        BY <1>3, <2>1, AfterProperties
<1>7. \A i \in 1 .. Len(toServer') : i + k \in 2 .. Len(toServer)
    BY <1>3, <1>6
<1>8. /\ Waiting' \subseteq Waiting /\ first \notin Waiting'
      /\ first \in Int
    <2>1. ASSUME NEW i \in 1 .. Len(toServer')
          PROVE  toServer'[i].id \in Waiting /\ toServer'[i].id # first
        <3>1. i + k \in 1 .. Len(toServer) /\ 1 < i + k /\ toServer'[i] = toServer[i + k]
            BY <1>3, <1>6, <1>7
        <3>2. toServer[1].id < toServer[i + k].id
            BY <1>3, <3>1 DEF WaitingInv
        <3>3. toServer[i + k].id \in Waiting
            BY <3>1 DEF Waiting
        <3>4. toServer[i + k].id \in Int /\ toServer[1].id \in Int
            BY <1>4, <3>3, WaitingTypes DEF Ids
        <3>5. toServer[1].id # toServer[i + k].id
            BY <3>2, <3>4
        <3> QED
            BY <3>1, <3>3, <3>5
    <2>2. first \in Int
        BY <1>4, WaitingTypes DEF Ids
    <2> QED
        BY <2>1, <2>2 DEF Waiting
<1>9. Answered' \subseteq Answered \cup {first}
    BY <1>1, <1>5 DEF Answered
<1>10. Typed' = Typed
    BY <1>1 DEF Typed
<1>11. \A i, j \in 1 .. Len(toServer') : i < j => toServer'[i].id < toServer'[j].id
    <2> SUFFICES ASSUME NEW i \in 1 .. Len(toServer'), NEW j \in 1 .. Len(toServer'), i < j
                 PROVE  toServer'[i].id < toServer'[j].id
        OBVIOUS
    <2>1. /\ i + k \in 1 .. Len(toServer) /\ j + k \in 1 .. Len(toServer) /\ i + k < j + k
          /\ toServer'[i] = toServer[i + k] /\ toServer'[j] = toServer[j + k]
        BY <1>3, <1>6
    <2> QED
        BY <2>1 DEF WaitingInv
<1>12. RanTogetherOnlyAfterLateAnswer'
    <2>1. CASE ~(k > 1)
        <3>1. ranTogether' => ranTogether
            BY <1>2, <2>1
        <3> QED
            BY <1>1, <3>1 DEF WaitingInv, RanTogetherOnlyAfterLateAnswer
    <2>2. CASE k > 1
        <3>1. 2 \in 1 .. Len(toServer) /\ toServer[2].id \in Waiting
            BY <1>3, <2>2 DEF Waiting
        <3>2. toServer[1].id < toServer[2].id /\ toServer[2].id <= Typed
            BY <1>3, <3>1 DEF WaitingInv
        <3>3. first \in Ids /\ toServer[2].id \in Ids
            BY <1>4, <3>1, WaitingTypes
        <3>4. first \in 1 .. Len(outcomes)
            <4>1. Typed <= Len(outcomes) + 1 /\ Typed \in Nat /\ Len(outcomes) \in Nat
                BY WaitingTypes DEF Typed
            <4>2. /\ first \in 1 .. MaxCommands /\ toServer[2].id \in 1 .. MaxCommands
                  /\ first < toServer[2].id
                BY <3>2, <3>3 DEF Ids
            <4>3. toServer[2].id <= Typed
                BY <3>2
            <4> HIDE DEF first
            <4> QED
                BY <4>1, <4>2, <4>3, MaxCommandsAssumption
        <3>5. outcomes[first].of # first
            BY <1>4, <3>4 DEF WaitingInv, Answered
        <3> HIDE DEF first
        <3> QED
            BY <1>1, <3>4, <3>5 DEF RanTogetherOnlyAfterLateAnswer
    <2> QED
        BY <2>1, <2>2
<1> HIDE DEF first
<1>13. (Waiting \cap Answered = {})'
    BY <1>8, <1>9 DEF WaitingInv
<1>14. \A id \in (Waiting \cup Answered)' : id <= Typed'
    BY <1>4, <1>8, <1>9, <1>10 DEF WaitingInv
<1> QED
    BY <1>11, <1>12, <1>13, <1>14 DEF WaitingInv

LEMMA HandlerWaiting ==
    ASSUME SessionInv, SessionInv', WaitingInv, Handler \/ Forward
    PROVE  WaitingInv'
<1>1. ASSUME UNCHANGED <<cpc, outcomes, toServer, ranTogether>>,
             Answered' \subseteq Answered \cup {Nobody}
      PROVE  WaitingInv'
    BY <1>1, WaitingTypes, WaitingKept DEF Typed
<1>2. CASE Disconnect \/ Forward
    <2>1. UNCHANGED <<cpc, outcomes, toServer, ranTogether, toClient, outbox>>
        BY <1>2 DEF Disconnect, Forward, clientVars
    <2> QED
        BY <1>1, <2>1 DEF Answered
<1>3. CASE SendInitialAck
    <2> DEFINE ack == [text |-> "INITIAL_ACK", of |-> Nobody]
    <2>1. /\ toClient' = Append(toClient, ack) /\ ack.of = Nobody
          /\ UNCHANGED <<cpc, outcomes, toServer, ranTogether, outbox>>
        BY <1>3 DEF SendInitialAck, clientVars
    <2> HIDE DEF ack
    <2>2. toClient \in Seq(Texts) /\ Len(toClient) \in Nat
        BY WaitingTypes
    <2>3. /\ Len(toClient') = Len(toClient) + 1
          /\ \A i \in 1 .. Len(toClient) : toClient'[i] = toClient[i]
          /\ toClient'[Len(toClient) + 1] = ack
        BY <2>1, <2>2
    <2>4. Answered' \subseteq Answered \cup {Nobody}
        BY <2>1, <2>2, <2>3 DEF Answered
    <2> QED
        BY <1>1, <2>1, <2>4
<1>4. CASE Answer
    <2>1. UNCHANGED <<cpc, outcomes, toServer, ranTogether>>
        BY <1>4 DEF Answer, clientVars
    <2>2. CASE outbox = <<>>
        BY <1>1, <1>4, <2>1, <2>2 DEF Answer, Answered
    <2>3. CASE outbox # <<>>
        <3>1. toClient' = Append(toClient, Head(outbox)) /\ outbox' = Tail(outbox)
            BY <1>4, <2>3 DEF Answer
        <3>2. /\ outbox \in Seq(Texts) /\ toClient \in Seq(Texts)
              /\ Len(outbox) \in Nat /\ Len(toClient) \in Nat /\ 1 \in 1 .. Len(outbox)
              /\ Head(outbox) = outbox[1]
            BY <2>3, EmptySeq, WaitingTypes
        <3>3. /\ Len(outbox') = Len(outbox) - 1
              /\ \A i \in 1 .. Len(outbox') : outbox'[i] = outbox[i + 1]
            BY <2>3, <3>1, <3>2, HeadTailProperties
        <3>4. /\ Len(toClient') = Len(toClient) + 1
              /\ \A i \in 1 .. Len(toClient) : toClient'[i] = toClient[i]
              /\ toClient'[Len(toClient) + 1] = outbox[1]
            BY <3>1, <3>2
        <3>5. {toClient'[i].of : i \in 1 .. Len(toClient')} \subseteq Answered
            BY <3>2, <3>4 DEF Answered
        <3>6. ASSUME NEW i \in 1 .. Len(outbox') PROVE outbox'[i].of \in Answered
            <4>1. i + 1 \in 1 .. Len(outbox)
                BY <3>2, <3>3
            <4> QED
                BY <3>3, <4>1 DEF Answered
        <3>7. Answered' \subseteq Answered
            BY <2>1, <3>5, <3>6 DEF Answered
        <3> QED
            BY <1>1, <2>1, <3>7
    <2> QED
        BY <2>2, <2>3
<1> QED
    BY <1>2, <1>3, <1>4, ReceiveCommandWaiting DEF Handler

-----------------------------------------------------------------------------
(* The answer that the client waits for without a timeout.                 *)

LEMMA ClientAnswer ==
    ASSUME SessionInv, SessionInv', AnswerInv, Client
    PROVE  AnswerInv'
<1>1. spc' = spc /\ outbox' = outbox
    BY DEF Client, TypeCommand, Timeout, ReceiveInitial, ReceiveFinal, Exit, serverVars
<1>2. (spc \in {"accepted", "recv"} => outbox = <<>>)'
    BY <1>1 DEF AnswerInv
<1>3. CASE TypeCommand
    <2>1. cpc' = "select" /\ UNCHANGED <<toClient, swallowed>>
        BY <1>3 DEF TypeCommand
    <2>2. PICK kind \in Kinds :
              IF kind = "empty" THEN UNCHANGED <<toServer, typed>>
              ELSE toServer' = Append(toServer, [id |-> Len(outcomes) + 1, kind |-> kind])
        BY <1>3 DEF TypeCommand
    <2>3. toServer' # <<>> \/ UNCHANGED <<toServer, typed>>
        <3>1. toServer \in Seq(Lines) /\ toServer' \in Seq(Lines)
            BY WaitingTypes DEF SessionInv, SessionTypeOK, Lines
        <3>2. ASSUME NEW line, toServer' = Append(toServer, line) PROVE toServer' # <<>>
            BY <3>1, <3>2
        <3> QED
            BY <2>2, <3>2
    <2> QED
        BY <1>1, <1>2, <2>1, <2>3 DEF AnswerInv, AnswerUnderWay, AckToCome
<1>4. CASE Timeout
    <2>1. cpc' = "menu" /\ UNCHANGED <<toServer, toClient, typed, swallowed>>
        BY <1>4 DEF Timeout, Report
    <2> QED
        BY <1>1, <1>2, <2>1 DEF AnswerInv, AnswerUnderWay, AckToCome
<1>5. CASE ReceiveInitial
    <2>1. PICK k \in 1 .. Len(toClient) :
              /\ toClient' = After(toClient, k)
              /\ IF IsInitialAck(Head(toClient))
                 THEN cpc' = "final" /\ swallowed' = k - 1
                 ELSE cpc' = "menu"
        BY <1>5 DEF ReceiveInitial, Report
    <2>2. UNCHANGED <<toServer, typed>>
        BY <1>5 DEF ReceiveInitial
    <2>3. ~AckToCome' /\ Head(toClient) = toClient[1] /\ 1 \in 1 .. Len(toClient)
        BY <1>1, <2>1, RecvProperties
    <2>4. CASE ~IsInitialAck(Head(toClient))
        BY <1>2, <2>1, <2>3, <2>4 DEF AnswerInv
    <2>5. CASE IsInitialAck(Head(toClient))
        <3> SUFFICES ASSUME swallowed' = 0, typed PROVE AnswerUnderWay'
            BY <1>2, <2>2, <2>3 DEF AnswerInv
        <3>1. k = 1 /\ AckToCome
            BY <2>1, <2>3, <2>5 DEF AckToCome, IsInitialAck
        <3>2. swallowed = 0
            BY <3>1 DEF AnswerInv
        <3>3. AnswerUnderWay
            BY <3>1, <3>2 DEF AnswerInv
        <3>4. ASSUME NEW i \in 1 .. Len(toClient), toClient[i].text # "INITIAL_ACK"
              PROVE  AnswerUnderWay'
            <4>1. i \in k + 1 .. Len(toClient)
                BY <2>3, <2>5, <3>1, <3>4 DEF IsInitialAck
            <4>2. PICK j \in 1 .. Len(toClient') : toClient'[j] = toClient[i]
                BY <2>1, <4>1, RecvWaiting
            <4> QED
                BY <3>4, <4>2 DEF AnswerUnderWay
        <3> QED
            BY <1>1, <2>2, <3>3, <3>4 DEF AnswerUnderWay
    <2> QED
        BY <2>4, <2>5
<1>6. CASE ReceiveFinal
    <2>1. PICK k \in 1 .. Len(toClient) : toClient' = After(toClient, k)
        BY <1>6 DEF ReceiveFinal
    <2>2. cpc' = "menu" /\ ~AckToCome'
        BY <1>1, <1>6, <2>1, RecvProperties DEF ReceiveFinal, Report
    <2> QED
        BY <1>2, <2>2 DEF AnswerInv
<1>7. CASE Exit
    <2>1. cpc' = "closed" /\ UNCHANGED <<toServer, toClient, typed, swallowed>>
        BY <1>7 DEF Exit
    <2> QED
        BY <1>1, <1>2, <2>1 DEF AnswerInv, AnswerUnderWay, AckToCome
<1> QED
    BY <1>3, <1>4, <1>5, <1>6, <1>7 DEF Client

LEMMA HandlerAnswer ==
    ASSUME SessionInv, SessionInv', AnswerInv, Handler \/ Forward
    PROVE  AnswerInv'
<1>1. UNCHANGED <<cpc, typed, swallowed>>
    BY DEF Handler, SendInitialAck, ReceiveCommand, Answer, Disconnect, Forward, clientVars
<1>2. CASE Disconnect \/ Forward
    <2>1. /\ spc' \in {"closed", "answer"} /\ spc # "accepted"
          /\ UNCHANGED <<outbox, toServer, toClient>>
        BY <1>2 DEF Disconnect, Forward
    <2> QED
        BY <1>1, <2>1 DEF AnswerInv, AnswerUnderWay, AckToCome
<1>3. CASE SendInitialAck
    <2>1. spc = "accepted" /\ toClient = <<>> /\ UNCHANGED <<outbox, toServer>>
        BY <1>3 DEF SendInitialAck, SessionInv, AckComesFirst
    <2>2. AckToCome /\ outbox = <<>>
        BY <2>1 DEF AckToCome, AnswerInv
    <2>3. swallowed = 0 /\ (typed => toServer # <<>>)
        BY <2>1, <2>2 DEF AnswerInv, AnswerUnderWay
    <2> QED
        BY <1>1, <2>1, <2>2, <2>3 DEF AnswerInv, AnswerUnderWay
<1>4. CASE ReceiveCommand
    <2>1. spc' \in {"forward", "answer"} /\ outbox' # <<>> /\ UNCHANGED toClient
        <3>1. spc' \in {"forward", "answer"}
            BY <1>4 DEF ReceiveCommand
        <3>2. PICK k \in 1 .. Len(toServer) : \E kind \in Parsed(SubSeq(toServer, 1, k)) :
                  outbox' = [i \in DOMAIN Answers(kind) |->
                                [text |-> Answers(kind)[i], of |-> Head(toServer).id]]
            BY <1>4 DEF ReceiveCommand
        <3>2a. PICK kind \in Parsed(SubSeq(toServer, 1, k)) :
                  outbox' = [i \in DOMAIN Answers(kind) |->
                                [text |-> Answers(kind)[i], of |-> Head(toServer).id]]
            BY <3>2
        <3> DEFINE first == SubSeq(toServer, 1, k)
        <3>3. first \in Seq(Lines) /\ first # <<>>
            <4>1. toServer \in Seq(Lines)
                BY WaitingTypes
            <4>2. first \in Seq(Lines) /\ Len(first) = k
                BY <4>1, FirstProperties
            <4>3. k # 0
                BY <4>1
            <4> HIDE DEF first
            <4> QED
                BY <4>2, <4>3
        <3>4. kind \in Kinds \ {"empty"}
            BY <3>2a, <3>3, ParsedProperties
        <3>5. Answers(kind) \in Seq(Messages \ {"INITIAL_ACK"}) /\ Answers(kind) # <<>>
            BY <3>4, AnswersProperties
        <3> DEFINE a == Answers(kind)
        <3>6. DOMAIN outbox' = DOMAIN a
            BY <3>2a
        <3>7. DOMAIN a = 1 .. Len(a) /\ Len(a) \in Nat /\ Len(a) # 0
            BY <3>5, EmptySeq
        <3>8. outbox' # <<>>
            <4> HIDE DEF a
            <4>1. 1 \in DOMAIN outbox'
                BY <3>6, <3>7
            <4> QED
                BY <4>1
        <3> QED
            BY <1>4, <3>1, <3>8 DEF ReceiveCommand, clientVars
    <2> QED
        BY <1>1, <2>1 DEF AnswerInv, AnswerUnderWay, AckToCome
<1>5. CASE Answer
    <2>1. spc = "answer" /\ UNCHANGED toServer
        BY <1>5 DEF Answer
    <2>2. CASE outbox = <<>>
        <3>1. spc' = "recv" /\ UNCHANGED <<outbox, toClient>>
            BY <1>5, <2>2 DEF Answer
        <3> QED
            BY <1>1, <2>1, <2>2, <3>1 DEF AnswerInv, AnswerUnderWay, AckToCome
    <2>3. CASE outbox # <<>>
        <3>1. spc' = "answer" /\ toClient' = Append(toClient, Head(outbox))
            BY <1>5, <2>1, <2>3 DEF Answer
        <3>2. /\ outbox \in Seq(Texts) /\ toClient \in Seq(Texts) /\ Len(toClient) \in Nat
              /\ 1 \in 1 .. Len(outbox) /\ Head(outbox) = outbox[1]
            BY <2>3, EmptySeq, WaitingTypes
        <3>3. /\ Len(toClient') = Len(toClient) + 1
              /\ toClient'[Len(toClient) + 1] = outbox[1]
            BY <3>1, <3>2
        <3>4. outbox[1].text # "INITIAL_ACK"
            BY <3>2 DEF SessionInv, AckComesFirst
        <3>5. AnswerUnderWay'
            BY <3>2, <3>3, <3>4 DEF AnswerUnderWay
        <3>6. AckToCome' => AckToCome
            <4>1. CASE toClient = <<>>
                BY <2>1, <3>1, <3>3, <3>4, <4>1 DEF AckToCome
            <4>2. CASE toClient # <<>>
                <5>1. 1 \in 1 .. Len(toClient)
                    BY <3>2, <4>2, EmptySeq
                <5>2. toClient'[1] = toClient[1]
                    BY <3>1, <3>2, <5>1
                <5> QED
                    BY <2>1, <3>1, <4>2, <5>2 DEF AckToCome
            <4> QED
                BY <4>1, <4>2
        <3> QED
            BY <1>1, <3>1, <3>5, <3>6 DEF AnswerInv
    <2> QED
        BY <2>2, <2>3
<1> QED
    BY <1>2, <1>3, <1>4, <1>5 DEF Handler

-----------------------------------------------------------------------------
(* The storage server, and the whole.                                      *)

StorageTypes ==
    /\ phase \in {"starting", "listening", "over"}
    /\ queue \in Seq(Ids \cup {Copy}) /\ executed \in Seq(Ids)
    /\ lost \subseteq Ids

LEMMA StorageStepTypes == ASSUME StorageTypes, StorageStep PROVE StorageTypes'
<1>1. CASE Serve
    <2>1. /\ queue \in Seq(Ids \cup {Copy}) /\ queue # <<>> /\ executed \in Seq(Ids)
          /\ phase' = "over" /\ queue' = <<>> /\ UNCHANGED lost
          /\ executed' = IF Head(queue) \in Ids THEN Append(executed, Head(queue))
                         ELSE executed
        BY <1>1 DEF Serve, Storage!Serve, StorageTypes
    <2>2. executed' \in Seq(Ids) /\ queue' \in Seq(Ids \cup {Copy})
        BY <2>1
    <2> QED
        BY <2>1, <2>2 DEF StorageTypes
<1>2. CASE CopyArrives
    BY <1>2 DEF CopyArrives, Storage!Arrive, StorageTypes
<1>3. CASE (Storage!Listen \/ Storage!Fail) /\ UNCHANGED <<vars, lost>>
    <2>1. /\ phase' \in {"listening", "over"} /\ UNCHANGED executed
          /\ queue' = queue \/ queue' = <<>>
        BY <1>3 DEF Storage!Listen, Storage!Fail
    <2>2. lost' = lost
        BY <1>3
    <2>3. <<>> \in Seq(Ids \cup {Copy})
        BY EmptySeq
    <2>4. queue' \in Seq(Ids \cup {Copy})
        BY <2>1, <2>3 DEF StorageTypes
    <2> QED
        BY <2>1, <2>2, <2>4 DEF StorageTypes
<1> QED
    BY <1>1, <1>2, <1>3 DEF StorageStep

\* What is forwarded is a command.
LEMMA ForwardTypes ==
    ASSUME SessionInv, StorageTypes, ForwardCommand
    PROVE  StorageTypes'
<1> DEFINE id == Head(outbox).of
<1>1. outbox # <<>> /\ outbox \in Seq(Texts)
    BY DEF ForwardCommand, Forward, SessionInv, SessionTypeOK, OutboxOfCommand, Texts
<1>2. Head(outbox) = outbox[1] /\ 1 \in 1 .. Len(outbox)
    BY <1>1, EmptySeq
<1>3. id \in Ids
    BY <1>2 DEF SessionInv, OutboxOfCommand
<1>4. \/ Storage!Arrive(id) /\ UNCHANGED lost
      \/ lost' = lost \cup {id} /\ UNCHANGED <<phase, queue, executed>>
    BY DEF ForwardCommand, storage
<1> HIDE DEF id
<1>5. CASE Storage!Arrive(id) /\ UNCHANGED lost
    <2>1. /\ queue' = Append(queue, id) /\ UNCHANGED <<phase, executed, lost>>
        BY <1>5 DEF Storage!Arrive
    <2>2. queue' \in Seq(Ids \cup {Copy})
        BY <1>3, <2>1 DEF StorageTypes
    <2> QED
        BY <2>1, <2>2 DEF StorageTypes
<1>6. CASE lost' = lost \cup {id} /\ UNCHANGED <<phase, queue, executed>>
    BY <1>3, <1>6 DEF StorageTypes
<1> QED
    BY <1>4, <1>5, <1>6

\* Everything that is known of the client, the handler and what is between them.
ConversationInv == SessionInv /\ WaitingInv /\ AnswerInv

LEMMA ConversationUnchanged ==
    ConversationInv /\ UNCHANGED vars => ConversationInv'
<1> SUFFICES ASSUME ConversationInv, UNCHANGED vars PROVE ConversationInv'
    OBVIOUS
<1>1. UNCHANGED <<cpc, outcomes, typed, swallowed, spc, outbox, ranTogether, toServer,
                  toClient>>
    BY DEF vars, clientVars, serverVars
<1>2. SessionInv'
    BY <1>1 DEF ConversationInv, SessionInv, SessionTypeOK, RoomToReport, AckComesFirst,
        TimeoutsBeforeAnswer, AckToCome, FirstCommandOnly, OutboxOfCommand,
        AtMostOneAnswered, AnswerIsItsOwn
<1>3. WaitingInv'
    <2>1. Waiting' = Waiting /\ Answered' = Answered /\ Typed' = Typed
        BY <1>1 DEF Waiting, Answered, Typed
    <2> QED
        BY <1>1, <2>1 DEF ConversationInv, WaitingInv, RanTogetherOnlyAfterLateAnswer
<1>4. AnswerInv'
    BY <1>1 DEF ConversationInv, AnswerInv, AnswerUnderWay, AckToCome
<1> QED
    BY <1>2, <1>3, <1>4 DEF ConversationInv

LEMMA NextInvariant == IInv /\ [Next]_allVars => IInv'
<1> SUFFICES ASSUME IInv, [Next]_allVars PROVE IInv'
    OBVIOUS
<1>1. ConversationInv /\ StorageTypes
    BY DEF IInv, TypeOK, StorageTypes, ConversationInv
<1>2. ASSUME ConversationInv', StorageTypes' PROVE IInv'
    BY <1>2 DEF IInv, TypeOK, SessionInv, StorageTypes, ConversationInv
<1>3. CASE ClientStep
    <2>1. ConversationInv'
        <3>1. SessionInv'
            BY <1>1, <1>3, ClientInvariant DEF ClientStep, ConversationInv
        <3> QED
            BY <1>1, <1>3, <3>1, ClientWaiting, ClientAnswer DEF ClientStep, ConversationInv
    <2>2. StorageTypes'
        BY <1>1, <1>3 DEF ClientStep, storageVars, storage, StorageTypes
    <2> QED
        BY <1>2, <2>1, <2>2
<1>4. CASE HandlerStep
    <2>1. Handler \/ Forward
        BY <1>4 DEF HandlerStep, ForwardCommand
    <2>2. ConversationInv'
        <3>1. SessionInv'
            BY <1>1, <2>1, HandlerInvariant DEF ConversationInv
        <3> QED
            BY <1>1, <2>1, <3>1, HandlerWaiting, HandlerAnswer DEF ConversationInv
    <2>3. StorageTypes'
        <3>1. CASE ForwardCommand
            BY <1>1, <3>1, ForwardTypes DEF ConversationInv
        <3>2. CASE UNCHANGED storageVars
            BY <1>1, <3>2 DEF storageVars, storage, StorageTypes
        <3> QED
            BY <1>4, <3>1, <3>2 DEF HandlerStep
    <2> QED
        BY <1>2, <2>2, <2>3
<1>5. CASE StorageStep
    <2>1. UNCHANGED vars
        BY <1>5 DEF StorageStep, CopyArrives, Serve
    <2> QED
        BY <1>1, <1>2, <1>5, <2>1, ConversationUnchanged, StorageStepTypes
<1>6. CASE UNCHANGED allVars
    <2>1. UNCHANGED vars /\ UNCHANGED <<phase, queue, executed, lost>>
        BY <1>6 DEF allVars, storageVars, storage
    <2>2. StorageTypes'
        BY <1>1, <2>1 DEF StorageTypes
    <2> QED
        BY <1>1, <1>2, <2>1, <2>2, ConversationUnchanged
<1> QED
    BY <1>3, <1>4, <1>5, <1>6 DEF Next

-----------------------------------------------------------------------------

\* The inductive invariant of a client, its handler and a storage server
\* (init_client.c:25-143, init_naming_server.c:755-830).
THEOREM Invariance == Spec => []IInv
<1> QED
    BY InitInvariant, NextInvariant, PTL DEF Spec

\* TypeOK for sessions of any length.
THEOREM TypeCorrect == Spec => []TypeOK
<1>1. IInv => TypeOK
    BY DEF IInv
<1> QED
    BY <1>1, Invariance, PTL

\* At most one command of a session is ever answered: INITIAL_ACK is sent once
\* and awaited before every command (init_naming_server.c:761,
\* init_client.c:53-78).
THEOREM OneAnswer == Spec => []AtMostOneAnswered
<1>1. IInv => AtMostOneAnswered
    BY DEF IInv, SessionInv
<1> QED
    BY <1>1, Invariance, PTL

\* The answer is that of the command the user has just typed, unless an earlier
\* one timed out (init_client.c:46-50, 67-78).
THEOREM OwnAnswer == Spec => []AnswerIsItsOwn
<1>1. IInv => AnswerIsItsOwn
    BY DEF IInv, SessionInv
<1> QED
    BY <1>1, Invariance, PTL

\* Two commands run into one recv of the handler only if an earlier report was
\* about another command, or about none (init_naming_server.c:765, 812, 825).
THEOREM CommandsRunTogether == Spec => []RanTogetherOnlyAfterLateAnswer
<1>1. IInv => RanTogetherOnlyAfterLateAnswer
    BY DEF IInv, WaitingInv
<1> QED
    BY <1>1, Invariance, PTL

\* The recv of the client that has no timeout waits in vain only if the answer
\* was dropped with INITIAL_ACK or no command was sent (init_client.c:53-67).
THEOREM ClientBlocks == Spec => []BlockedOnlyByLostAnswer
<1>1. IInv => BlockedOnlyByLostAnswer
    <2> SUFFICES ASSUME IInv, Blocked, swallowed = 0, typed PROVE FALSE
        BY DEF BlockedOnlyByLostAnswer, IInv, SessionInv, SessionTypeOK
    <2>1. spc = "recv" /\ cpc = "final" /\ toServer = <<>> /\ toClient = <<>>
        BY DEF Blocked, HandlerIdle
    <2>2. outbox = <<>> /\ AnswerUnderWay
        BY <2>1 DEF IInv, AnswerInv
    <2> QED
        BY <2>1, <2>2 DEF AnswerUnderWay
<1> QED
    BY <1>1, Invariance, PTL
=============================================================================
