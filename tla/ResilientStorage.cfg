SPECIFICATION Spec
CONSTANTS
    s1 = s1
    s2 = s2
    s3 = s3
    AllServers <- Servers
    N = 3
    W = 2
    R = 2
    QuorumType = "SLOPPY"
    ClockSizes = {1, 2}
    Coordinator = {c1, c2}
    Preferences <- FullAndShort
    MaxWrites = 3
    MaxReads = 2
    MaxFailures = 1
SYMMETRY Symmetric
INVARIANTS
    TypeOK
    ClocksOnlyClaimSeen
    ConflictsAreReturned
    AcknowledgedIsReadable
CHECK_DEADLOCK FALSE
