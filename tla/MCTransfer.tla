------------------------------ MODULE MCTransfer ------------------------------
EXTENDS Transfer

\* Root holds the directory d1 and the file f2, d1 the empty directory d2 and
\* the file f1, and f1 takes two sends.
MCDirs == {"d1", "d2"}
MCFiles == {"f1", "f2"}
MCParent == [e \in {"d1", "d2", "f1", "f2"} |->
                IF e \in {"d1", "f2"} THEN "Root" ELSE "d1"]
MCChunks == [f \in {"f1", "f2"} |-> IF f = "f1" THEN 2 ELSE 1]
=============================================================================
