\* One handler; "aaba" and "ba" share a bucket.
SPECIFICATION Spec
CONSTANTS
    ss1 = ss1
    ss2 = ss2
    ss3 = ss3
    Handlers = {t1}
    Queries <- MCQueries3
    StorageServers <- MCStorageServers3
    PathsIn <- MCPathsIn
    MaxServers = 2
    Nodes = {n1, n2, n3}
    Capacity = 2
    Hash <- MCHash
    NotEnd = NotEnd
SYMMETRY Symmetry
INVARIANT AnswerCoversPath
