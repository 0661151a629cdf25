---------------------------- MODULE ClientSession ----------------------------
(***************************************************************************)
(* One client and the handler thread of its connection: which answers      *)
(* reach which command (src/init_client.c: main, handle_command;           *)
(* src/init_naming_server.c: the recv and send calls of handle_client).    *)
(*                                                                         *)
(* The connection is two streams without message boundaries: a recv takes  *)
(* one or more of the messages that have arrived, run together.  A message *)
(* of one send is not split: all are far shorter than a segment and the    *)
(* buffers.  A command is known by its number, an answer by the number of  *)
(* the command it is about.  What a command does between its recv and its  *)
(* answers, locks included, takes any time and is the matter of the other  *)
(* modules; module System says where it is forwarded to.                   *)
(*                                                                         *)
(* A definition whose name extends that of the one after it is a faulty    *)
(* variant of it that no action uses.                                      *)
(***************************************************************************)
EXTENDS Naturals, SequencesExt

CONSTANT MaxCommands    \* the user types at most this many commands

ASSUME MaxCommandsAssumption == MaxCommands \in Nat

Ids == 1 .. MaxCommands
Nobody == 0             \* what INITIAL_ACK and a timeout are about

\* What sscanf and the dispatch of handle_client make of a command: it is
\* forwarded, it is not known, it has one word only, or the user just pressed
\* return and there is nothing to send.
Kinds == {"ok", "unknown", "short", "empty"}

Messages == {"INITIAL_ACK", "FINAL_ACK", "Unknown command", "Invalid command format"}

\* What handle_command tells the user.
Outcomes == {"timeout", "failed", "success", "response"}

VARIABLES
    cpc,        \* where the client is
    outcomes,   \* what the user was told of each command so far, and about
                \* which command that really was
    typed,      \* whether a command that was not empty has been sent
    toServer,   \* the commands on their way to the handler
    toClient,   \* the answers on their way to the client
    spc,        \* where the handler is
    outbox,     \* the answers it has still to send
    swallowed,  \* history: messages lost behind INITIAL_ACK in one recv
    ranTogether \* history: whether one recv has taken several commands

clientVars == <<cpc, outcomes, typed, swallowed>>
serverVars == <<spc, outbox, ranTogether>>
vars == <<clientVars, serverVars, toServer, toClient>>

Init ==
    /\ cpc = "menu"
    /\ outcomes = <<>>
    /\ typed = FALSE
    /\ toServer = <<>>
    /\ toClient = <<>>
    /\ spc = "accepted"
    /\ outbox = <<>>
    /\ swallowed = 0
    /\ ranTogether = FALSE

\* A recv leaves what follows its first k messages.
After(stream, k) == SubSeq(stream, k + 1, Len(stream))

-----------------------------------------------------------------------------
(* The client.                                                             *)

\* The command is sent without its newline; send of nothing sends nothing.
TypeCommand ==
    /\ cpc = "menu"
    /\ Len(outcomes) < MaxCommands
    /\ \E kind \in Kinds :
          IF kind = "empty" THEN UNCHANGED <<toServer, typed>>
          ELSE /\ toServer' = Append(toServer, [id |-> Len(outcomes) + 1, kind |-> kind])
               /\ typed' = TRUE
    /\ cpc' = "select"
    /\ UNCHANGED <<outcomes, swallowed, toClient, serverVars>>

Report(outcome, id) ==
    /\ outcomes' = Append(outcomes, [said |-> outcome, of |-> id])
    /\ cpc' = "menu"

TimeoutResending ==
    /\ cpc = "select"
    /\ toClient = <<>>
    /\ Len(toServer) = 1
    /\ toServer' = toServer \o toServer
    /\ UNCHANGED <<clientVars, toClient, serverVars>>
\* Nothing arrived within ACK_TIMEOUT seconds.
Timeout ==
    /\ cpc = "select"
    /\ toClient = <<>>
    /\ Report("timeout", Nobody)
    /\ UNCHANGED <<typed, swallowed, toServer, toClient, serverVars>>

\* strncmp looks at the first message of those received only.
IsInitialAckUnchecked(message) == TRUE
IsInitialAck(message) == message.text = "INITIAL_ACK"

ReceiveInitial ==
    /\ cpc = "select"
    /\ \E k \in 1 .. Len(toClient) :
          /\ toClient' = After(toClient, k)
          /\ IF IsInitialAck(Head(toClient))
             THEN /\ cpc' = "final"
                  /\ swallowed' = k - 1
                  /\ UNCHANGED outcomes
             ELSE Report("failed", Head(toClient).of) /\ UNCHANGED swallowed
    /\ UNCHANGED <<typed, toServer, serverVars>>

\* This recv has no timeout.
ReceiveFinal ==
    /\ cpc = "final"
    /\ \E k \in 1 .. Len(toClient) : toClient' = After(toClient, k)
    /\ Report(IF Head(toClient).text = "FINAL_ACK" THEN "success" ELSE "response",
              Head(toClient).of)
    /\ UNCHANGED <<typed, swallowed, toServer, serverVars>>

\* EXIT, or the end of the input.
Exit ==
    /\ cpc = "menu"
    /\ cpc' = "closed"
    /\ UNCHANGED <<outcomes, typed, swallowed, toServer, toClient, serverVars>>

-----------------------------------------------------------------------------
(* The handler thread.                                                     *)

\* INITIAL_ACK is sent once, before the loop.
SendInitialAck ==
    /\ spc = "accepted"
    /\ toClient' = Append(toClient, [text |-> "INITIAL_ACK", of |-> Nobody])
    /\ spc' = "recv"
    /\ UNCHANGED <<clientVars, outbox, ranTogether, toServer>>

\* What sscanf can make of commands run together.  The words of the first
\* come first and its last word runs into the next command.
Parsed(commands) ==
    LET kinds == {command.kind : command \in Range(commands)}
    IN  IF Len(commands) = 1 \/ commands[1].kind = "ok" THEN {commands[1].kind}
        ELSE IF kinds = {"short"} THEN {"ok", "unknown", "short"}
        ELSE {"ok", "unknown"}

AnswersInOneSend(kind) ==
    CASE kind = "ok" -> <<"FINAL_ACK">>
      [] kind = "unknown" -> <<"Unknown command FINAL_ACK">>
      [] kind = "short" -> <<"Invalid command format">>
AnswersSilentIfShort(kind) ==
    CASE kind = "ok" -> <<"FINAL_ACK">>
      [] kind = "unknown" -> <<"Unknown command", "FINAL_ACK">>
      [] kind = "short" -> <<>>
AnswersAcknowledged(kind) ==
    CASE kind = "ok" -> <<"INITIAL_ACK", "FINAL_ACK">>
      [] kind = "unknown" -> <<"INITIAL_ACK", "Unknown command", "FINAL_ACK">>
      [] kind = "short" -> <<"Invalid command format">>
\* FINAL_ACK follows whatever came of the command.
Answers(kind) ==
    CASE kind = "ok" -> <<"FINAL_ACK">>
      [] kind = "unknown" -> <<"Unknown command", "FINAL_ACK">>
      [] kind = "short" -> <<"Invalid command format">>

ReceiveCommand ==
    /\ spc = "recv"
    /\ \E k \in 1 .. Len(toServer) :
          /\ toServer' = After(toServer, k)
          /\ ranTogether' = (ranTogether \/ k > 1)
          /\ \E kind \in Parsed(SubSeq(toServer, 1, k)) :
                /\ outbox' = [i \in DOMAIN Answers(kind) |->
                                 [text |-> Answers(kind)[i], of |-> Head(toServer).id]]
                /\ spc' = IF kind = "ok" THEN "forward" ELSE "answer"
    /\ UNCHANGED <<clientVars, toClient>>

\* The handle_* function returns nothing, whatever has come of its command.
Forward ==
    /\ spc = "forward"
    /\ spc' = "answer"
    /\ UNCHANGED <<clientVars, outbox, ranTogether, toServer, toClient>>

Answer ==
    /\ spc = "answer"
    /\ IF outbox = <<>> THEN spc' = "recv" /\ UNCHANGED <<outbox, toClient>>
       ELSE /\ toClient' = Append(toClient, Head(outbox))
            /\ outbox' = Tail(outbox)
            /\ UNCHANGED spc
    /\ UNCHANGED <<clientVars, ranTogether, toServer>>

\* recv returns 0.
Disconnect ==
    /\ spc = "recv"
    /\ cpc = "closed"
    /\ toServer = <<>>
    /\ spc' = "closed"
    /\ UNCHANGED <<clientVars, outbox, ranTogether, toServer, toClient>>

-----------------------------------------------------------------------------

Client == TypeCommand \/ Timeout \/ ReceiveInitial \/ ReceiveFinal \/ Exit
Handler == SendInitialAck \/ ReceiveCommand \/ Answer \/ Disconnect

-----------------------------------------------------------------------------
(* Properties.                                                             *)

SessionTypeOK ==
    /\ cpc \in {"menu", "select", "final", "closed"}
    /\ outcomes \in Seq([said : Outcomes, of : Ids \cup {Nobody}])
    /\ Len(outcomes) <= MaxCommands
    /\ typed \in BOOLEAN
    /\ toServer \in Seq([id : Ids, kind : Kinds \ {"empty"}])
    /\ {toClient, outbox} \subseteq Seq([text : Messages, of : Ids \cup {Nobody}])
    /\ spc \in {"accepted", "recv", "forward", "answer", "closed"}
    /\ swallowed \in Nat /\ ranTogether \in BOOLEAN

\* What the user is told of a command is about that command, unless an earlier
\* one was given up: then its answer comes late and passes for that of another
\* (init_client.c:46-50, 67-78).
AnswerIsItsOwn ==
    \A i \in 1 .. Len(outcomes) :
        outcomes[i].said \in {"success", "response"} /\ outcomes[i].of # i
        => \E j \in 1 .. i - 1 : outcomes[j].said = "timeout"

\* Two commands reach the handler as one only after the client has given up
\* waiting for the first of them, or was told of it what belonged to an earlier
\* one: an unknown command is answered twice, and its FINAL_ACK passes for a
\* failure of the next (init_client.c:53-57; init_naming_server.c:765, 812, 825).
RanTogetherOnlyAfterLateAnswer ==
    ranTogether => \E i \in 1 .. Len(outcomes) : outcomes[i].of # i

\* INITIAL_ACK is sent once per connection but waited for before every
\* command, so that at most one command of a connection is ever reported as
\* completed, or answered at all (init_client.c:53-78 against
\* init_naming_server.c:761).
AtMostOneAnswered ==
    \A i, j \in 1 .. Len(outcomes) :
        {outcomes[i].said, outcomes[j].said} \subseteq {"success", "response"} => i = j

\* The client waits for an answer that cannot come any more.
HandlerIdle == spc = "recv" /\ toServer = <<>> /\ toClient = <<>>
Blocked == cpc = "final" /\ HandlerIdle

\* The recv without a timeout (init_client.c:67) waits for ever in two cases
\* only: the answer came together with INITIAL_ACK and was dropped with it, or
\* nothing but empty commands was sent.  In particular malformed commands,
\* commands that run together, and late answers never block the client.
BlockedOnlyByLostAnswer == Blocked => swallowed > 0 \/ ~typed

=============================================================================
