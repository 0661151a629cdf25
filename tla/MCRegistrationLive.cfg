\* A client that comes second and two storage servers.  No symmetry: liveness.
SPECIFICATION FairSpec
CONSTANTS
    c1 = c1
    c2 = c2
    c3 = c3
    c4 = c4
    Conns <- MCConns3
    PathsIn <- MCPathsIn
    Strangers <- MCStrangers
    Size <- MCSize2
    MaxServers = 2
    Resets = TRUE
    CreateFails = TRUE
    MonitorStarted = FALSE
    NoConn = NoConn
    NotEnd = NotEnd
INVARIANT TrieAgreesWithTable
PROPERTY EveryServerRegistered
CHECK_DEADLOCK FALSE
