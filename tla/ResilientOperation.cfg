SPECIFICATION FairSpec
CONSTANTS
    Caller = {c1, c2, c3}
    FailureThreshold = 2
    HalfOpenMaxCalls = 2
    MaxRetries = 1
INVARIANTS
    TypeOK
    ProbesWithinLimit
    HalfOpenLimitMeansProbing
    ClosedBelowThreshold
PROPERTIES
    RecoversUnlessProbeLost
    EveryExecutionEnds
