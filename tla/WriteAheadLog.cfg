SPECIFICATION Spec
CONSTANTS
    Appender = {a1, a2}
    MaxFileSize = 1
    MaxCalls = 4
    MaxTime = 2
    MaxCancels = 1
    MaxCrashes = 1
SYMMETRY Symmetric
INVARIANTS
    TypeOK
    MissedOnlyIfOvertaken
    RecoveredInOrder
    FilesStayBounded
    ClosedOnlyInRotation
    CleanStopKeepsAll
CHECK_DEADLOCK FALSE
