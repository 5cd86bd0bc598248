SPECIFICATION Spec
CONSTANTS
    Procs = {p1}
    Classes = {"issue", "part"}
    Fields = {"publication", "linked_parts"}
    Single = {"publication"}
    Inverse <- HierInverse
    Owner <- HierOwner
    Slots = {1, 2, 3, 4, 5}
    NoDoc = NoDoc
    RefUids = {1, 3}
    InitialStores <- OnePart
    MayCrash = TRUE
    MaxBundle = 2
    MaxOps = 2
    p1 = p1
INVARIANT TypeOK
INVARIANT Contained
INVARIANT RefusalExplained
