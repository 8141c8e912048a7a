\* One slave whose connections break; another one's requests would only be
\* further broadcasts, which the keep-alive makes at any time.
CONSTANTS
    Slave = {s1}
    Req = {r1, r2, r3}
    NoReq = none
    MaxId = 2
    MaxStamp = 6
    MaxFault = 2
SPECIFICATION FairSpec
INVARIANTS
    TypeOK
    ServedByItsOwn
PROPERTIES
    RowsArrive
    ReplacedLeaves
CHECK_DEADLOCK FALSE
