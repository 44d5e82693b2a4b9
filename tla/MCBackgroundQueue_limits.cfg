CONSTANTS
    r1 = r1
    r2 = r2
    g1 = g1
    g2 = g2
    g3 = g3
    w1 = w1
    w2 = w2
    Ids = {r1}
    Expiring = {r1}
    Gateways = {g1, g2, g3}
    Workers = {w1}
    MaxLen = 2
    Counts = {1, 2}
    AutoclaimModes = {TRUE}
    StartIds = {0}
    MaxFaults = 1
SPECIFICATION Spec
SYMMETRY Symmetry
INVARIANTS TypeOK EnqueuedJobIsReachable BatchWithinCount
PROPERTIES ImplementsDelivery
