\* Two copies, a fault; the master writes all the while.
CONSTANTS
    Md5 = {"x", "y"}
    FileName = {"file"}
    FolderName = {"folder"}
    NewName = {"new", "other"}
    MasterInit <- Masters
    LocalInit <- Locals
    FirstId = 8
    Page = 1
    MaxRetry = 0
    Blocks = 1
    Calm = {"section", "deletes", "purge", "names"}
    IgnoreSyncError = TRUE
    MaxId = 12
    MaxSync = 2
    MaxFault = 1
SPECIFICATION Spec
INVARIANTS
    TypeOK
    Converged
    LogCanRun
    ParentsExist
    NewestIsCurrent
PROPERTIES
    OwnFilesKept
CHECK_DEADLOCK FALSE
