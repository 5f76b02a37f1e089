SPECIFICATION FairSpec
CONSTANTS
    MaxFrame = 3
    ReadChunk = 4
    MaxMsgs = 3
    MaxLen = 4
    MaxRaw = 2
INVARIANTS
    BytesConserved
    BufferBounded
    EndIsTrue
PROPERTIES
    FramesArrive
\* A stream ends.
CHECK_DEADLOCK FALSE
