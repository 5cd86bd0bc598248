CONSTANTS
    None = None
    MaxPending = 3
    Group = {g1, g2, g3, g4}
SPECIFICATION FairSpec
INVARIANTS
    Inductive
    NoCycle
PROPERTIES
    RefusalJustified
    ScansEnd
CHECK_DEADLOCK FALSE
