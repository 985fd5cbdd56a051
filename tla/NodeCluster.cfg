SPECIFICATION ServerSpec
CONSTANTS
    n1 = n1
    n2 = n2
    n3 = n3
    NodeId = {n1, n2, n3}
    Key = {k1}
    Value = {v}
    None = None
    Splits <- MCSplits
    MaxOccurrences = 2
    Client = {c1, c2}
SYMMETRY Symmetric
INVARIANTS
    TypeOK
    ClocksTellCausality
    GlobalOrderRespectsCausality
    ConflictsAreUnrelatedWrites
    LogInCausalOrder
    OwnHistoryIsAChain
CHECK_DEADLOCK FALSE
