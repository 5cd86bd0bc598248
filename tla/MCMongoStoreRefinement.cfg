SPECIFICATION CarefulSpec
CONSTANTS
    Procs = {p1, p2}
    Classes = {"issue", "article", "review"}
    Fields = {"linked_container", "linked_texts"}
    Single = {"linked_container"}
    Inverse <- IssueInverse
    Owner <- IssueOwner
    Slots = {1, 2, 3, 4, 5, 6}
    NoDoc = NoDoc
    RefUids = {1, 3, 4, 5}
    InitialStores <- IssueStores
    MayCrash = FALSE
    MaxBundle = 2
    MaxOps = 2
    UidSpace = {1, 2, 3, 4, 5, 6}
    p1 = p1
    p2 = p2
PROPERTY ImplementsRelationStore
