SPECIFICATION Spec
CONSTANTS
    Slots = {s1, s2}
    Providers = {g1, g2}
    SyncIds = {x1}
    Requests <- SomeRequests
    Charges <- Fees
    Posts <- SomePosts
    Opening <- Opened
    Overlap = {g2}
    MaxRequests = 3
    None = None
    Amounts = {2}
    Gains = {}
    Losses = {2}
    Rules = {1, 3}
    Rebates = {3}
    StartBalance = 2
SYMMETRY Symmetric
INVARIANTS TypeOK
PROPERTIES ImplementsTill FeeEarned FlowsOneWay
CHECK_DEADLOCK FALSE
