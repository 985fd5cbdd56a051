SPECIFICATION FairSpec
CONSTANTS
    c1 = c1
    c2 = c2
    k1 = k1
    k2 = k2
    Client <- TwoClients
    Key <- TwoKeys
    MemtableSize = 2
    Deletes = TRUE
    Cancellation = TRUE
    MaxCalls = 3
    MaxCrashes = 1
    MaxStops = 1
INVARIANT TypeOK
INVARIANT MemtableIsLogged
INVARIANT RecoveryFollowsLog
INVARIANT ReadsLatestUnlessDisturbed
PROPERTY ImplementsStore
PROPERTY FlushesAndStopsEnd
CHECK_DEADLOCK FALSE
