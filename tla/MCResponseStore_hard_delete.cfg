CONSTANTS
    r1 = r1
    r2 = r2
    t1 = t1
    t2 = t2
    t3 = t3
    s1 = s1
    s2 = s2
    c1 = c1
    c2 = c2
    c3 = c3
    Ids = {r1}
    Tasks = {t1, t2}
    Servers = {s1}
    Conns = {c1, c2}
    Requests <- DeleteRequests
    Preloaded <- LivenessPreloaded
    Lifetimes = {2}
    DefaultTtl = 2
    StaleSeconds = 1
    MaxAttempts = 2
    MaxNow = 1
SPECIFICATION FairSpec
PROPERTY InFlightIsTombstoned
