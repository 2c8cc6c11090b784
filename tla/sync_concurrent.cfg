SPECIFICATION TrackedSpec
CONSTANTS
    Slots = {s1, s2}
    Devices = {d1, d2}
    Users = {u1, u2}
    SyncIds = {x1, x2}
    Keys = {k1}
    Ids = {i1, i2, i3}
    Tables <- FourTables
    UsersOf <- SharedUser
    Batches <- OneRecord
    Overlapping = TRUE
    Skew = 0
    QuickCap = 1
    PageLimit = 2
    MaxTime = 2
    MaxRequests = 3
    None = None
    NoDevice = NoDevice
    NoTime = NoTime
    Stamps = {1,3}
    Dels = {FALSE, TRUE}
    Pins = {FALSE}
    MaxBatch = 1
SYMMETRY RowsAndSlots
INVARIANTS Consistent StampBounded OwnRowsOnly NothingSkipped
PROPERTIES SameDeviceNeverRegresses ImplementsLww
CHECK_DEADLOCK FALSE
