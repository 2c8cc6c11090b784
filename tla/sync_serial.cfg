SPECIFICATION Spec
CONSTANTS
    Slots = {s1}
    Devices = {d1}
    Users = {u1, u2}
    SyncIds = {x1, x2}
    Keys = {k1, k2}
    Ids = {i1, i2, i3}
    Tables <- AdoptedAndShown
    UsersOf <- EveryUser
    Batches <- SignedBatches
    Overlapping = FALSE
    Skew = 0
    QuickCap = 1
    PageLimit = 3
    MaxTime = 3
    MaxRequests = 3
    None = None
    NoDevice = NoDevice
    NoTime = NoTime
    Stamps = {1, NoTime}
    Dels = {FALSE, TRUE}
    Pins = {FALSE, TRUE}
    MaxBatch = 1
SYMMETRY Everything
INVARIANTS TypeOK QuickCapHeld UpsertsFindRows
PROPERTIES ImplementsLww
CHECK_DEADLOCK FALSE
