SPECIFICATION Spec
CONSTANTS
    Conn = {g1}
    Requested <- Routes
    Name = {"alice", "bob"}
    Pwd = {"a", "b"}
    Device = {"phone", "laptop"}
    Limit = 1
    Start <- OneUser
    MayReset = TRUE
    MaxRequest = 2
    MaxCrash = 1
INVARIANTS GuardedAsAnnotated
CHECK_DEADLOCK FALSE
