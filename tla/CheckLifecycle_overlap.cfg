CONSTANTS
    c1 = c1
    c2 = c2
    c3 = c3
    r1 = r1
    r2 = r2
    r3 = r3
    None = None
    NodeCount = 1
    Procs = {p1, p2}
    Requests = {r1, r2}
    Checks = {c1, c2}
    Subjects = {s1, s2}
    Faults = {"close", "graph"}
    MaxCrashes = 1
SPECIFICATION Spec
SYMMETRY Symmetry
INVARIANTS
    OneActivePerSubject
    EventsNumbered
    ActiveIsOwned
PROPERTY
    NeverRevived
CHECK_DEADLOCK FALSE
