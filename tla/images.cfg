SPECIFICATION Spec
CONSTANTS
    Slots = {s1, s2}
    MaxTime = 2
    None = None
SYMMETRY Symmetric
INVARIANTS
    TypeOK
    NoDanglingImage
    NoOrphanedFile
