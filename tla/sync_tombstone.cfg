SPECIFICATION Spec
CONSTANTS
    Slots = {s1}
    Devices = {d1, d2}
    Users = {u1}
    SyncIds = {x1}
    Keys = {k1}
    Ids = {i1, i2}
    Tables <- OptionalTables
    UsersOf <- EveryUser
    Batches <- SignedBatches
    Overlapping = FALSE
    Skew = 0
    QuickCap = 1
    PageLimit = 3
    MaxTime = 4
    MaxRequests = 4
    None = None
    NoDevice = NoDevice
    NoTime = NoTime
    Stamps = {NoTime}
    Dels = {FALSE, TRUE}
    Pins = {FALSE}
    MaxBatch = 1
SYMMETRY Everything
INVARIANTS TombstonesDelivered
CHECK_DEADLOCK FALSE
