SPECIFICATION Spec
CONSTANTS
    None = None
    x = x
    y = y
    Name = {"A", "B", "f", "g"}
    Content = {x, y}
    ExtraName = "thumb"
    ExtraData = "data"
    NumberedName <- Numbered
    Request <- SerialRequests
    Users = 1
    Client = {c1}
    Depth = 2
    MaxRow = 5
    MaxClock = 2
    HasTimer = FALSE
    MaxHandled = 0
    MaxCrash = 0
INVARIANTS TypeOK ParentIsFolder HistoryHasCurrent OneCurrentPerGrave
PROPERTIES ImplementsNameSpace
CHECK_DEADLOCK FALSE
