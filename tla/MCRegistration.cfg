\* Three registrations, all listing the same path so that they are
\* interchangeable, and a connection that is none, for two slots; threads fail
\* to start, and the monitor gives slots up as it would if main started it.  The
\* program rests when every peer has sent what it had to: no deadlock.
SPECIFICATION Spec
CONSTANTS
    c1 = c1
    c2 = c2
    c3 = c3
    c4 = c4
    Conns <- MCConns4
    PathsIn <- MCSamePaths
    Strangers <- MCStrangers
    Size <- MCSize4
    MaxServers = 2
    Resets = FALSE
    CreateFails = TRUE
    MonitorStarted = TRUE
    NoConn = NoConn
    NotEnd = NotEnd
SYMMETRY Symmetry
INVARIANTS
    TypeOK
    StoredIntact
    TextMustFillStructs
    CountMatches
CHECK_DEADLOCK FALSE
