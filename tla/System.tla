-------------------------------- MODULE System --------------------------------
(***************************************************************************)
(* The whole way of a command: from the client to the handler thread of    *)
(* the naming server (module ClientSession) and from there to a storage    *)
(* server, of which all that matters is that it serves the first message   *)
(* to reach it (module OneShotServer, which StorageServer implements).     *)
(* There is one client: main of the naming server accepts no second one    *)
(* (src/init_naming_server.c:1002-1035).                                   *)
(***************************************************************************)
EXTENDS ClientSession

VARIABLES
    phase, queue, executed,     \* of the storage server
    lost        \* history: commands that were forwarded and did not reach it

storage == <<phase, queue, executed>>
storageVars == <<storage, lost>>
allVars == <<vars, storageVars>>

\* Other storage servers send copies to the same port.
Copy == Nobody

Storage == INSTANCE OneShotServer WITH Commands <- Ids, Copies <- {Copy}

SystemInit == Init /\ Storage!Init /\ lost = {}

\* No server for the path, or none that listens, or no place in its queue: the
\* handler does not notice and answers as if all were well.
ForwardCommand ==
    /\ Forward
    /\ LET id == Head(outbox).of
       IN  \/ Storage!Arrive(id) /\ UNCHANGED lost
           \/ lost' = lost \cup {id} /\ UNCHANGED storage

HandlerStep == ForwardCommand \/ (Handler /\ UNCHANGED storageVars)
ClientStep == Client /\ UNCHANGED storageVars
Serve == Storage!Serve /\ UNCHANGED <<vars, lost>>
\* At most one copy waits at a time.
CopyArrives == /\ Copy \notin Range(queue)
               /\ Storage!Arrive(Copy) /\ UNCHANGED <<vars, lost>>
StorageStep ==
    \/ (Storage!Listen \/ Storage!Fail) /\ UNCHANGED <<vars, lost>>
    \/ CopyArrives \/ Serve

Next == ClientStep \/ HandlerStep \/ StorageStep

Spec == SystemInit /\ [][Next]_allVars

\* The handler thread runs, a recv that has something to return returns, and a
\* storage server accepts what has arrived.  Users may stop typing, and a
\* storage server need not start.
FairSpec ==
    /\ Spec
    /\ WF_allVars(HandlerStep) /\ WF_allVars(Serve)
    /\ WF_allVars((ReceiveInitial \/ Timeout) /\ UNCHANGED storageVars)
    /\ WF_allVars(ReceiveFinal /\ UNCHANGED storageVars)

-----------------------------------------------------------------------------
(* Properties.                                                             *)

TypeOK ==
    /\ SessionTypeOK
    /\ phase \in {"starting", "listening", "over"}
    /\ queue \in Seq(Ids \cup {Copy}) /\ executed \in Seq(Ids)
    /\ lost \subseteq Ids

\* Every command the user typed is reported on, unless its answer was lost with
\* INITIAL_ACK or nothing has been sent (init_client.c:38-78).
EveryCommandReported ==
    cpc \in {"select", "final"} ~> cpc = "menu" \/ swallowed > 0 \/ ~typed

\* Success is reported although nobody knows of any; yet a command reported as
\* successful is executed, if it reached the storage server, that did not exit
\* or serve a copy instead, and nothing was lost with INITIAL_ACK
\* (init_naming_server.c:825; init_storage_server.c:408, 430-507).
SuccessIsExecuted ==
    \A id \in Ids :
        /\ \E i \in 1 .. Len(outcomes) : outcomes[i] = [said |-> "success", of |-> id]
        /\ swallowed = 0 /\ id \notin lost
        ~> executed = <<id>> \/ (phase = "over" /\ executed = <<>>)
=============================================================================
