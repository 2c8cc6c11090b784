SPECIFICATION FairSpec
CONSTANTS
    Slots = {s1, s2}
    Products = {p1, p2}
    Requests <- BasketsAndAll
    Opening <- Stocked
    Overlap = {"checkout", "update", "remove"}
    MaxRequests = 3
    None = None
    Quantities = {1, 2}
    Gains = {1}
    Losses = {2}
    Levels = {0, 3}
    StartLevel = 2
PROPERTIES ImplementsShelf RequestsEnd
CHECK_DEADLOCK FALSE
