CONSTANTS
    workers = workers
    mistyped = mistyped
    c1 = c1
    Groups = {workers, mistyped}
    WorkerGroups = {workers}
    RpcCalls = {}
    HttpCalls = {c1}
    StreamIds <- MCStreamIds
    MaxLen = 2
    PendingPage = 2
    PelPage = 1
    Versions <- MCVersions
    MaxLosses = 1
SPECIFICATION FairSpec
INVARIANTS TypeOK WorkloadCoversOutstanding CountedOnce
PROPERTIES QuietStatsAreExact StatsAnswered
