SPECIFICATION Spec
CONSTANTS
    None = None
    x = x
    y = y
    Name = {"A", "B", "f", "g"}
    Content = {x, y}
    ExtraName = "thumb"
    ExtraData = "data"
    NumberedName <- Numbered
    Request <- RaceRequests
    Users = 1
    Client = {c1, c2}
    Depth = 2
    MaxRow = 4
    MaxClock = 1
    HasTimer = FALSE
    MaxHandled = 0
    MaxCrash = 1
INVARIANTS ParentIsFolder
PROPERTIES ImplementsNameSpace
CHECK_DEADLOCK FALSE
