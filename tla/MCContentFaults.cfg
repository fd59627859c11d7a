SPECIFICATION Spec
CONSTANTS
    a = a
    b = b
    c = c
    Digest = {a, b, c}
    BlobSize <- Sizes
    Threshold = 5
    User = {u1}
    MaxClock = 3
    MaxCrash = 1
    MaxFault = 2
SYMMETRY Symmetry
INVARIANTS
    CacheDriftBounded
PROPERTIES
    EvictsLeastUsed
    CollectReachesLimit
CHECK_DEADLOCK FALSE
