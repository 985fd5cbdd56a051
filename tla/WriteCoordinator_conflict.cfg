SPECIFICATION Spec
CONSTANTS
    n1 = n1
    n2 = n2
    n3 = n3
    k = k
    w1 = w1
    w2 = w2
    NodeId = {n1, n2, n3}
    Key = {k}
    Write = {w1, w2}
    KeyOf <- MCKeyOf
    N = 3
    W = 2
    Routes <- ThreeNodeRoutes
    MaxRetries = 1
    HintExpiry = 0
    SendResults = {TRUE}
    MaxTime = 0
    MaxStops = 0
    None = None
INVARIANT ConflictsAreDetected
CHECK_DEADLOCK FALSE
