SPECIFICATION Spec
CONSTANTS
    c1 = c1
    c2 = c2
    k1 = k1
    k2 = k2
    Client <- OneClient
    Key <- OneKey
    MemtableSize = 1
    Deletes = FALSE
    Cancellation = FALSE
    MaxCalls = 1
    MaxCrashes = 1
    MaxStops = 0
INVARIANT StartRecovers
CHECK_DEADLOCK FALSE
