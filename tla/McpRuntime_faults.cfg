CONSTANTS
    o1 = o1
    o2 = o2
    o3 = o3
    None = None
    Life = Life
    Servers = {s1}
    Calls = {o1, o2}
    Kinds = {"create", "update", "delete", "start", "stop", "restart", "check"}
    Faults = {"die", "db"}
    MaxDowns = 1
SPECIFICATION FairSpec
INVARIANTS
    OneSession
    SessionHasConfig
    SessionsAreOwned
PROPERTY
    OperationsEnd
CHECK_DEADLOCK FALSE
