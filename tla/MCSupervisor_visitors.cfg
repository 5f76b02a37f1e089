SPECIFICATION Spec
CONSTANTS
    v1 = v1
    s1 = s1
    Visitors = {v1}
    Stoppers = {s1}
    MaxStarts = 1
    MaxDeaths = 1
INVARIANTS
    TeardownClosesVisitors
\* Every run may be over: a supervisor that is stopped does nothing more.
CHECK_DEADLOCK FALSE
