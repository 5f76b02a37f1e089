SPECIFICATION Spec
CONSTANTS
    RingCap = 3
    ViewCap = 2
    MaxWrites = 2
INVARIANTS
    ViewMatchesRing
    RestShowsLatest

    
\* A stopped tunnel does nothing more.
CHECK_DEADLOCK FALSE
