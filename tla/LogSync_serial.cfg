\* One request at a time on the master, one on the slave; fair scheduling,
\* two crashes, statements that may be run twice.
CONSTANTS
    A = A
    B = B
    h1 = h1
    h2 = h2
    h3 = h3
    c1 = c1
    c2 = c2
    c3 = c3
    None = None
    Origin = A
    Server = {A, B}
    Masters <- OneWay
    Handler = {h1, h2}
    HomeOf <- BothHandle
    Change = {c1, c2, c3}
    Author <- AABy
    Inserts = {}
    MaxId = 3
    IdsOf <- Apart
    PageLimit = 1
    RunLimit = 2
    Budget <- CrashTwice
    FaultyCommit = FALSE
SPECIFICATION FairSpec
INVARIANTS
    TypeOK
    NoGap
    RanIsApplied
    NoPhantom
PROPERTIES
    HoldsAPrefix
    RunsOldestFirst
    HoldsEverything
CHECK_DEADLOCK FALSE
