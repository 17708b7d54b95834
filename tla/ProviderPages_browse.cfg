CONSTANTS
    s1 = s1
    s2 = s2
    m1 = m1
    m2 = m2
    None = None
    Ids = {s1, s2}
    Models = {m1, m2}
    MaxCalls = 2
    MaxMoves = 1
    Faults = {"net", "op"}
SPECIFICATION FairSpec
INVARIANTS
    PendingModelHasTest
    DetailIsOfRoute
PROPERTIES
    NoForeignResult
    DoneIsLeft
CHECK_DEADLOCK FALSE
