\* Two storage servers, one of which finds its client port taken, and a client.
\* When both are registered everyone waits: no deadlock.
SPECIFICATION EarlierFairSpec
CONSTANTS
    s1 = s1
    s2 = s2
    client = client
    Servers <- MCServers
    Clients <- MCClients
    Taken <- MCTaken
    MaxStrangers = 1
    Conns <- MCConns
    Strangers <- MCStrangers
    Size <- MCSize
    PathsIn <- MCPathsIn
    MaxServers = 2
    Resets = FALSE
    CreateFails = TRUE
    MonitorStarted = FALSE
    NoConn = NoConn
    NotEnd = NotEnd
INVARIANT OnlyServersStored
PROPERTY StartedServersRegister
CHECK_DEADLOCK FALSE
