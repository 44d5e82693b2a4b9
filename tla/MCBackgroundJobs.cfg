CONSTANTS
    r1 = r1
    r2 = r2
    w1 = w1
    w2 = w2
    Ids = {r1, r2}
    Expiring = {r2}
    Clients = {r1}
    Workers = {w1, w2}
    MaxLen = 1
    StaleSeconds = 1
    MaxNow = 1
    MaxFaults = 1
SPECIFICATION FairSpec
INVARIANTS TypeOK AcceptedWorkIsRecoverable OneResult
PROPERTIES ResponseEnds
