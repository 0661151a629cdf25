SPECIFICATION Spec
CONSTANTS
    Ports = {8000, 9001, 9002}
    NamingPort = 8000
    Root = "/"
    Paths <- MCPaths
    Parent <- MCParent
    FileName <- MCFileName
    MaxQueue = 2
    MaxConnections = 3
INVARIANTS
    TypeOK
    ListedExist
    NoUnlockedRace
PROPERTY ServesFirstOnly
CHECK_DEADLOCK FALSE
