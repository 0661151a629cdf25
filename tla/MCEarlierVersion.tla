--------------------------- MODULE MCEarlierVersion ---------------------------
(* A small instance of EarlierVersion for TLC.                             *)
EXTENDS EarlierVersion

CONSTANTS s1, s2, client

MCServers == {s1, s2}
MCClients == {<<client>>}
MCConns == (MCServers \X {"register", "commands"}) \cup MCClients
MCStrangers == (MCServers \X {"commands"}) \cup MCClients
MCPathsIn == [c \in MCConns |-> IF c \in MCStrangers THEN {} ELSE {<<1>>}]
MCSize == [c \in MCConns |-> IF c \in MCStrangers THEN 1 ELSE 2]
MCTaken == {s2}
=============================================================================
