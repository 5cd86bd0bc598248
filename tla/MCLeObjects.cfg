SPECIFICATION Spec
CONSTANTS
    None = None
    Concrete = {"A", "B"}
    RefFields = {"t"}
    Spelled <- MCSpelled
    Scripts = {1}
    Workers = {2}
    Slots = {1, 2, 3}
    Stores <- MCStores
    Forms <- MCForms
    FilterLists <- MCFilterLists
    Pages <- MCPages
    DocOrders <- MCDocOrders
    MaxOps = 3
INVARIANTS SelectsAsked PageExact RefusedStaysOut DerivedFits
CHECK_DEADLOCK FALSE
