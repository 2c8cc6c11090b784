SPECIFICATION Spec
CONSTANTS
    Slots = {s1, s2}
    Providers = {g1}
    SyncIds = {x1, x2}
    Requests <- SomeRequests
    Charges <- Fees
    Posts <- SomePosts
    Opening <- Opened
    Overlap = {g1}
    MaxRequests = 2
    None = None
    Amounts = {2}
    Gains = {}
    Losses = {}
    Rules = {}
    Rebates = {}
    StartBalance = 2
SYMMETRY Symmetric
PROPERTIES NoOverdraft
CHECK_DEADLOCK FALSE
