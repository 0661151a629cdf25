\* Capacity 3, so that a node can be moved from the middle of the list, four
\* paths of which two share a bucket, and one more node than fits.
SPECIFICATION Spec
CONSTANTS
    Paths <- MCPaths
    Servers = {s1, s2}
    Nodes = {n1, n2, n3, n4}
    Capacity = 3
    Hash <- MCHash
    NULL = NULL
SYMMETRY Symmetry
INVARIANTS
    TypeOK
    NoDangling
    ListConsistent
    BucketIsMostRecent
PROPERTY EvictsLeastRecent
