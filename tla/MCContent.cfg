SPECIFICATION Spec
CONSTANTS
    a = a
    b = b
    c = c
    Digest = {a, b, c}
    BlobSize <- Sizes
    Threshold = 5
    User = {u1, u2}
    MaxClock = 4
    MaxCrash = 0
    MaxFault = 0
SYMMETRY Symmetry
INVARIANTS
    LeaseCacheSynced
    BlobsHeld
PROPERTIES
    EvictsInLFRUOrder
    GcClears
