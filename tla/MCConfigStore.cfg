SPECIFICATION Spec
CONSTANTS
    Profiles = {p1, p2}
    Names = {n1, n2}
    Secrets = {s1}
    Callers = {c1, c2, c3}
    NoProfile = NoProfile
    NoName = NoName
    Blank = Blank
INVARIANTS
    FileSound
    AnswersKept
    NoOrphanSecrets
    StartedWithItsSecret
    TornIsKept
SYMMETRY Symmetry
\* The calls end.
CHECK_DEADLOCK FALSE
