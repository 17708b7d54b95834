CONSTANTS
    s1 = s1
    s2 = s2
    None = None
    Ids = {s1, s2}
    MaxCalls = 2
    MaxMoves = 1
    Kinds = {"create", "update", "delete", "stop"}
    Found = {"absent", "running"}
    Faults = {"net", "op"}
SYMMETRY Symmetry
SPECIFICATION Spec
INVARIANTS
    WaitsForAnswers
    ShowsOwnChanges
PROPERTY
    ListNeverGoesBack
CHECK_DEADLOCK FALSE
