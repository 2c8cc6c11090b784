SPECIFICATION Spec
CONSTANTS
    Slots = {s1, s2}
    Products = {p1, p2}
    Requests <- AllRequests
    Opening <- Stocked
    Overlap = {"checkout", "adjust", "update", "remove"}
    MaxRequests = 4
    None = None
    Quantities = {1, 2}
    Gains = {1}
    Losses = {2}
    Levels = {0, 3}
    StartLevel = 2
SYMMETRY Symmetric
INVARIANTS TypeOK PendingSound MovementsAgree
PROPERTIES ImplementsShelf
CHECK_DEADLOCK FALSE
