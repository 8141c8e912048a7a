\* Two servers that follow each other, two requests at a time on one of them and
\* one on the other; a crash, a failing request and a database that is busy.
CONSTANTS
    A = A
    B = B
    h1 = h1
    h2 = h2
    h3 = h3
    c1 = c1
    c2 = c2
    c3 = c3
    None = None
    Origin = A
    Server = {A, B}
    Masters <- TwoWay
    Handler = {h1, h2, h3}
    HomeOf <- MasterAndSlave
    Change = {c1, c2, c3}
    Author <- AABy
    Inserts = {c1}
    MaxId = 3
    IdsOf <- Apart
    PageLimit = 1
    RunLimit = 2
    Budget <- OneOfEach
    FaultyCommit = FALSE
SPECIFICATION Spec
INVARIANTS
    NoEcho
    IdsAgree
PROPERTIES
    ProgressIsDurable
CHECK_DEADLOCK FALSE
