\* Two request goroutines on the master and no fault at all.
CONSTANTS
    A = A
    B = B
    h1 = h1
    h2 = h2
    h3 = h3
    c1 = c1
    c2 = c2
    c3 = c3
    None = None
    Origin = A
    Server = {A, B}
    Masters <- OneWay
    Handler = {h1, h2}
    HomeOf <- TwoHandlers
    Change = {c1, c2}
    Author <- TwoByA
    Inserts = {c1}
    MaxId = 3
    IdsOf <- SameIds
    PageLimit = 1
    RunLimit = 2
    Budget <- NoFaults
    FaultyCommit = FALSE
SPECIFICATION FairSpec
PROPERTIES
    RowsReachSlaves
CHECK_DEADLOCK FALSE
