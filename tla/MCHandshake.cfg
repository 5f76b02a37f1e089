SPECIFICATION FairSpec
CONSTANTS
    MaxDown = 2
INVARIANTS
    SoundDial
    JoinedAgrees
    ClaimIsClean
PROPERTIES
    EndsUnlessKeptAlive
\* A call that has returned does nothing more.
CHECK_DEADLOCK FALSE
