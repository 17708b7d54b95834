CONSTANTS
    common = common
    admin = admin
    e1 = e1
    e2 = e2
    None = None
    Accounts = {common, admin}
    Admins = {admin}
    Envs = {e1, e2}
    FirstEnv = e1
    MaxChecks = 2
    MaxActs = 5
SPECIFICATION FairSpec
INVARIANTS
    UserIsSession
    ShownIsRouted
    StartingHasRequest
    RecentCatchesUp
PROPERTIES
    AnswerIsWanted
    StartIsAnswered
CHECK_DEADLOCK FALSE
