CONSTANTS
    workers = workers
    mistyped = mistyped
    c1 = c1
    Groups = {workers, mistyped}
    WorkerGroups = {workers}
    RpcCalls = {c1}
    HttpCalls = {}
    StreamIds <- MCFewStreamIds
    MaxLen = 0
    PendingPage = 1
    PelPage = 1
    Versions <- MCEitherRange
    MaxLosses = 0
SPECIFICATION FairSpec
PROPERTIES NoOrphanGroup
