CONSTANTS
    c1 = c1
    c2 = c2
    c3 = c3
    r1 = r1
    r2 = r2
    r3 = r3
    None = None
    Procs = {p1}
    Requests = {r1, r2}
    Checks = {c1, c2}
    Subjects = {s1}
    NodeCount = 4
    Faults = {"open", "close", "graph", "db"}
    MaxCrashes = 1
SPECIFICATION FairSpec
INVARIANTS
    TypeOK
    LogTellsOutcome
    SessionFollowsCheck
    SuccessIsComplete
PROPERTIES
    ImplementsCheckSpec
    ActiveChecksEnd
    RequestsAreAnswered
CHECK_DEADLOCK FALSE
