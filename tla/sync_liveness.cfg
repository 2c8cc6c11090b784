SPECIFICATION FairSpec
CONSTANTS
    Slots = {s1, s2}
    Devices = {d1, d2}
    Users = {u1}
    SyncIds = {x1, x2}
    Keys = {k1}
    Ids = {i1, i2, i3}
    Tables <- OptionalTables
    UsersOf <- EveryUser
    Batches <- Pairs
    Overlapping = TRUE
    Skew = 0
    QuickCap = 1
    PageLimit = 3
    MaxTime = 1
    MaxRequests = 3
    None = None
    NoDevice = NoDevice
    NoTime = NoTime
    Stamps = {1}
    Dels = {FALSE}
    Pins = {FALSE}
    MaxBatch = 2
PROPERTIES RequestsEnd
CHECK_DEADLOCK FALSE
