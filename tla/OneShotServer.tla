---------------------------- MODULE OneShotServer ----------------------------
(***************************************************************************)
(* What a storage server is to those who send commands to it: it listens   *)
(* for a time, serves the first message that arrives in that time, and     *)
(* loses every other one.  StorageServer implements this specification and *)
(* System is built on it.                                                  *)
(***************************************************************************)
EXTENDS Sequences

CONSTANTS Commands, Copies  \* messages: copies are nothing it can execute

VARIABLES
    phase,      \* "starting", "listening" or "over"
    queue,      \* messages that have arrived and are not yet served
    executed    \* the commands executed

vars == <<phase, queue, executed>>

Init ==
    /\ phase = "starting"
    /\ queue = <<>>
    /\ executed = <<>>

Listen ==
    /\ phase = "starting"
    /\ phase' = "listening"
    /\ UNCHANGED <<queue, executed>>

Arrive(message) ==
    /\ phase = "listening"
    /\ queue' = Append(queue, message)
    /\ UNCHANGED <<phase, executed>>

\* The thread serves one connection and ends; so does the queue behind it.
Serve ==
    /\ phase = "listening" /\ queue # <<>>
    /\ phase' = "over"
    /\ executed' = IF Head(queue) \in Commands THEN Append(executed, Head(queue))
                   ELSE executed
    /\ queue' = <<>>

\* The program exits.
Fail ==
    /\ phase # "over"
    /\ phase' = "over"
    /\ queue' = <<>>
    /\ UNCHANGED executed

Next ==
    \/ Listen \/ Serve \/ Fail
    \/ \E message \in Commands \cup Copies : Arrive(message)

Spec == Init /\ [][Next]_vars
=============================================================================
