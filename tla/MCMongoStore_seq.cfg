SPECIFICATION Spec
CONSTANTS
    Procs = {p1}
    Classes = {"person", "article", "review"}
    Fields = {"linked_texts", "linked_persons"}
    Single = {}
    Inverse <- ListInverse
    Owner <- ListOwner
    Slots = {1, 2, 3, 4, 5}
    NoDoc = NoDoc
    RefUids = {1, 2, 3}
    InitialStores <- SharedAuthor
    MayCrash = TRUE
    MaxBundle = 2
    MaxOps = 2
    p1 = p1
INVARIANT Contained
INVARIANT RefusalExplained
INVARIANT RefusedDeleteHarmless
