SPECIFICATION FairSpec
CONSTANTS
    n1 = n1
    n2 = n2
    n3 = n3
    k = k
    w1 = w1
    w2 = w2
    NodeId = {n1, n2}
    Key = {k}
    Write = {w1, w2}
    KeyOf <- MCKeyOf
    N = 2
    W = 2
    Routes <- TwoNodeRoutes
    MaxRetries = 1
    HintExpiry = 0
    SendResults = {TRUE, FALSE}
    MaxTime = 1
    MaxStops = 1
    None = None
INVARIANTS
    TypeOK
    ReportsAreTruthful
    HintsStandForMisses
    BasedWritesComeAfter
PROPERTY HintsDrain
PROPERTY EveryWriteReturns
CHECK_DEADLOCK FALSE
