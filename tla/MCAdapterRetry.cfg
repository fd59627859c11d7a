SPECIFICATION FairSpec
CONSTANTS
    t1 = t1
    t2 = t2
    t3 = t3
    Task = {t1, t2}
    Ref = {rCached}
    rCached = rCached
    rSkip = rSkip
    rBad = rBad
    Map <- MapMixed
    Mode = {"async"}
    Count = 1
    MaxPush <- NoPush
    Hourly = Hourly
PROPERTY
    PushedIsNotFailed
