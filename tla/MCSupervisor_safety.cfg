SPECIFICATION Spec
CONSTANTS
    v1 = v1
    v2 = v2
    s1 = s1
    s2 = s2
    Visitors = {v1, v2}
    Stoppers = {s1, s2}
    MaxStarts = 1
    MaxDeaths = 2
SYMMETRY Symmetry
INVARIANTS
    TypeOK
    TeardownBeforeRedial
    ActiveConnsExact
    ConnectedHasSession
    NoOrphanTask
    NoRestOnceStopStored
    StoppedUnlessAborted
PROPERTIES
    StatusMovesAllowed
\* Every run may be over: a supervisor that is stopped does nothing more.
CHECK_DEADLOCK FALSE
