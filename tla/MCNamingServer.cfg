\* Two handlers, the second of which may never start; a cache of two
\* entries and three paths, two of which share a bucket, so that entries hide
\* each other and are evicted.
SPECIFICATION Spec
CONSTANTS
    ss1 = ss1
    ss2 = ss2
    ss3 = ss3
    Handlers = {t1, t2}
    Queries <- MCQueries3
    StorageServers <- MCStorageServers2
    PathsIn <- MCPathsIn
    MaxServers = 2
    Nodes = {n1, n2, n3}
    Capacity = 2
    Hash <- MCHash
    NotEnd = NotEnd
SYMMETRY Symmetry
INVARIANTS
    TypeOK
    AnswerCoversBucket
    NoHiddenEntry
PROPERTY ResolutionIsSticky
