SPECIFICATION Spec
CONSTANTS
    Slots = {s1, s2}
    Providers = {g1}
    SyncIds = {x1, x2}
    Requests <- CashOuts
    Charges <- Fees
    Posts <- SomePosts
    Opening <- Opened
    Overlap = {g1}
    MaxRequests = 2
    None = None
    Amounts = {2}
    Gains = {}
    Losses = {}
    Rules = {1}
    Rebates = {}
    StartBalance = 2
SYMMETRY Symmetric
PROPERTIES StatementsChain
CHECK_DEADLOCK FALSE
