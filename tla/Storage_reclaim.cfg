\* Two stored files, two entries; a request, the worker, the timer and
\* RecycleNow; a crash or a failing statement.
CONSTANTS
    Handler = {h1}
    Worker = worker
    Timer = timer
    Manual = {now1}
    MaxFile = 2
    MaxEntry = 2
    MaxCrash = 1
    MaxBusy = 1
    MaxFault = 1
SPECIFICATION Spec
INVARIANTS
    TypeOK
    ReferencedIsStored
    NightReclaims
CHECK_DEADLOCK FALSE
