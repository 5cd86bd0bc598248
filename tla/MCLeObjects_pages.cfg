SPECIFICATION Spec
CONSTANTS
    None = None
    Concrete = {"A", "B"}
    RefFields = {"t"}
    Spelled <- MCSpelled
    Scripts = {1}
    Workers = {2}
    Slots = {1, 2, 3}
    Stores <- MCStores
    Forms <- MCForms
    FilterLists <- MCFilterLists
    Pages <- MCPages
    DocOrders <- MCDocOrders
    MaxOps = 3
INVARIANT PageFull
CHECK_DEADLOCK FALSE
