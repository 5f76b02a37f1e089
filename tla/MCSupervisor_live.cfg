SPECIFICATION FairSpec
CONSTANTS
    v1 = v1
    s1 = s1
    s2 = s2
    Visitors = {v1}
    Stoppers = {s1, s2}
    MaxStarts = 1
    MaxDeaths = 1
PROPERTIES
    StoppedTaskEnds
    SilenceEndsSession
    LifeRefined
\* Every run may be over: a supervisor that is stopped does nothing more.
CHECK_DEADLOCK FALSE
