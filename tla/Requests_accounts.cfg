SPECIFICATION FairSpec
CONSTANTS
    Conn = {g1, g2}
    Requested <- AccountRoutes
    Name = {"alice", "bob"}
    Pwd = {"a", "b"}
    Device = {"phone", "laptop"}
    Limit = 1
    Start <- OneUser
    MayReset = FALSE
    MaxRequest = 2
    MaxCrash = 0
INVARIANTS LocalsAreOwn
PROPERTIES ImplementsAccounts RequestsEnd
CHECK_DEADLOCK FALSE
