SPECIFICATION Spec
CONSTANTS
    NoProfile = NoProfile
    p1 = p1
    p2 = p2
    c1 = c1
    c2 = c2
    c3 = c3
    c4 = c4
    Profiles = {p1, p2}
    Callers = {c1, c2, c3, c4}
    MaxSups = 2
SYMMETRY Symmetry
INVARIANTS
    TypeOK
    QuitStopsAll
    NoLeakedTunnel
    FreshPumpAlive
    
\* Callers run one command each, and Quit ends the process.
CHECK_DEADLOCK FALSE
