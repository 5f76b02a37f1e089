SPECIFICATION FairSpec
CONSTANTS
    Chunk = 2
    SocketRoom = 1
    MaxBytes = 3

    
PROPERTIES
    PipesKept
    BytesFlow
    ErrorEndsBoth
\* A connection ends.
CHECK_DEADLOCK FALSE
