SPECIFICATION Spec
CONSTANTS
    Slots = {s1, s2}
    Devices = {d1, d2}
    SyncIds = {x1, x2}
    Keys = {k1, k2}
    Ids = {i1, i2}
    Tables <- RestTables
    Batches <- AllBatches
    Overlapping = TRUE
    Skew = 0
    QuickCap = 1
    MaxTime = 2
    MaxRecords = 3
    None = None
    NoTime = NoTime
    Stamps = {1, 2}
SYMMETRY Symmetric
INVARIANTS TypeOK CountingSound
PROPERTIES AcknowledgedStored OneClientInOrder DeletionFinal LaterEditKept ChangesPulled
CHECK_DEADLOCK FALSE
