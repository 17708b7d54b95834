CONSTANTS
    o1 = o1
    o2 = o2
    o3 = o3
    None = None
    Life = Life
    Servers = {s1}
    Calls = {o1, o2}
    Kinds = {"update", "delete", "start", "stop", "restart", "check"}
    Faults = {}
    MaxDowns = 0
SPECIFICATION FairSpec
PROPERTY
    UpdatesAreAnswered
CHECK_DEADLOCK FALSE
