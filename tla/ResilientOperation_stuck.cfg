CONSTANTS
    Caller = {c1, c2}
    FailureThreshold = 2
    HalfOpenMaxCalls = 2
    MaxRetries = 1
SPECIFICATION FairSpec
PROPERTY RecoversOnceHealthy
