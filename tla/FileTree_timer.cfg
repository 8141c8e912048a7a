SPECIFICATION FairSpec
CONSTANTS
    None = None
    x = x
    y = y
    Name = {"A", "B", "f", "g"}
    Content = {x, y}
    ExtraName = "thumb"
    ExtraData = "data"
    NumberedName <- Numbered
    Request <- TimerRequests
    Users = 1
    Client = {c1}
    Depth = 3
    MaxRow = 5
    MaxClock = 1
    HasTimer = TRUE
    MaxHandled = 1
    MaxCrash = 1
PROPERTIES PurgedWasTrashed ExpiredGetsPurged ImplementsNameSpace
CHECK_DEADLOCK FALSE
