SPECIFICATION TraySpec
CHECK_DEADLOCK FALSE
CONSTANTS
    MaxEdits = 2
    NoName = NoName
    p1 = p1
    p2 = p2
    n1 = n1
    n2 = n2
    r1 = r1
    r2 = r2
    Profiles = {p1, p2}
    Names = {n1, n2}
    Refreshes = {r1, r2}
SYMMETRY Symmetry
INVARIANTS
    TrayCurrent
