SPECIFICATION Spec
CONSTANTS
    RingCap = 3
    ViewCap = 3
    MaxRuns = 2
    MaxLines = 4
    MaxRevs = 3
INVARIANTS
    BufferIncreases
    
    
\* The bounds are used up at last.
CHECK_DEADLOCK FALSE
