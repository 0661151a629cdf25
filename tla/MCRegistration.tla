--------------------------- MODULE MCRegistration ---------------------------
(* Small instances of Registration for TLC.                                *)
EXTENDS Registration, TLC

CONSTANTS c1, c2, c3, c4

MCStrangers == {c1}
MCConns3 == {c1, c2, c3}
MCConns4 == {c1, c2, c3, c4}

\* c2 and c3 list the same path, as two runs of one storage server do; c3
\* lists one below it, too.
MCPathsIn == [c \in MCConns3 |-> CASE c = c1 -> {}
                                  [] c = c2 -> {<<97>>}
                                  [] c = c3 -> {<<97>>, <<97, 98>>}]

\* All structs list the same path: the connections are interchangeable.
MCSamePaths == [c \in Conns |-> IF c \in Strangers THEN {} ELSE {<<97>>}]
\* The stranger sends two structs' worth of text, or one.
MCSize4 == [c \in Conns |-> IF c \in Strangers THEN 4 ELSE StructSize]
MCSize2 == [c \in Conns |-> StructSize]

Symmetry == Permutations(Conns \ Strangers)
=============================================================================
