SPECIFICATION Spec
CONSTANTS
    n1 = n1
    n2 = n2
    n3 = n3
    NodeId = {n1, n2, n3}
    Replicas = 2
    RingSize = 6
    HashFunctions <- MCHashFunctions
INVARIANTS
    TypeOK
    KeysMatchRing
    RingFollowsMembers
    ReplicasAreDistinct
PROPERTY ReorganizationIsMinimal
CHECK_DEADLOCK FALSE
