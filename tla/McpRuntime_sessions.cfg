CONSTANTS
    o1 = o1
    o2 = o2
    o3 = o3
    None = None
    Life = Life
    Servers = {s1}
    Calls = {o1, o2, o3}
    Kinds = {"create", "update", "delete", "start", "stop", "restart", "check"}
    Faults = {"stop", "die"}
    MaxDowns = 1
SPECIFICATION Spec
SYMMETRY Symmetry
INVARIANTS
    KeptSessionIsShown
    RunningIsRestored
CHECK_DEADLOCK FALSE
