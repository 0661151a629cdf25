--------------------------- MODULE MCStorageServer ---------------------------
EXTENDS StorageServer

\* A directory with an entry, and an entry elsewhere of the same name.
MCPaths == {"/d", "/d/x", "/x"}
MCParent == [p \in {"/d", "/d/x", "/x"} |-> IF p = "/d/x" THEN "/d" ELSE "/"]
MCFileName == [p \in {"/d", "/d/x", "/x"} |-> IF p = "/d" THEN "/d" ELSE "/x"]
=============================================================================
