\* Three threads contend for three paths in a table that has room for two: the
\* table fills, one path stays without an entry, waits and spurious wakeups
\* interleave.  No symmetry, because a liveness property is checked.
SPECIFICATION FairSpec
CONSTANTS
    Threads = {t1, t2, t3}
    Paths = {p1, p2, p3}
    Commands = {"READ", "WRITE"}
    MaxFiles = 2
    Spurious = TRUE
    None = None
INVARIANTS
    TypeOK
    PathExclusion
    UnlockedOnlyWhenFull
    CountsExact
    NoLostWakeup
PROPERTY EveryWaiterServed
