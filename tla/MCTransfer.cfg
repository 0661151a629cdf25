\* One copy of a directory of four entries, two levels deep.  The copy ends,
\* and the threads of the receiver wait for ever then.
SPECIFICATION FairSpec
CONSTANTS
    Root = "Root"
    Dirs <- MCDirs
    Files <- MCFiles
    Parent <- MCParent
    Chunks <- MCChunks
    MaxFailures = 2
INVARIANTS
    TypeOK
    FilesArePrefixes
    OnlyExplainedLosses
PROPERTY EveryFileArrives
CHECK_DEADLOCK FALSE
