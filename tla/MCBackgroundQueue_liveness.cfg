CONSTANTS
    r1 = r1
    r2 = r2
    g1 = g1
    g2 = g2
    g3 = g3
    w1 = w1
    w2 = w2
    Ids = {r1}
    Expiring = {}
    Gateways = {g1, g2}
    Workers = {w1, w2}
    MaxLen = 0
    Counts = {1}
    AutoclaimModes = {TRUE}
    StartIds = {0}
    MaxFaults = 1
SPECIFICATION FairSpec
PROPERTIES JobIsHandled
