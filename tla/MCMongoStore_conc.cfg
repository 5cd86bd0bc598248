SPECIFICATION Spec
CONSTANTS
    Procs = {p1, p2}
    Classes = {"person", "article"}
    Fields = {"linked_texts", "linked_persons"}
    Single = {}
    Inverse <- ListInverse
    Owner <- ListOwner
    Slots = {1, 2, 3, 4, 5}
    NoDoc = NoDoc
    RefUids = {1, 3}
    InitialStores <- OneAuthor
    MayCrash = TRUE
    MaxBundle = 2
    MaxOps = 2
    p1 = p1
    p2 = p2
INVARIANT InductiveInvariant
