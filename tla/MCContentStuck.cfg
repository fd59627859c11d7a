SPECIFICATION Spec
CONSTANTS
    a = a
    b = b
    c = c
    Digest = {a, b, c}
    BlobSize <- Sizes
    Threshold = 5
    User = {u1}
    MaxClock = 4
    MaxCrash = 1
    MaxFault = 0
SYMMETRY Symmetry
PROPERTY
    GcClears
CHECK_DEADLOCK FALSE
