\* One client that uploads in pieces and one browser; breaks and a crash.
CONSTANTS
    Client = {c1}
    Browser = {b1}
    Go = {g1, g2}
    NoOne = none
    Blocks = 2
    MaxInode = 5
    MaxBreak = 1
    MaxCrash = 1
SPECIFICATION FairSpec

    
PROPERTIES
    UploadEnds
    CommittedIsHandled
CHECK_DEADLOCK FALSE
