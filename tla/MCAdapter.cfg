SPECIFICATION FairSpecMC
CONSTANTS
    t1 = t1
    t2 = t2
    t3 = t3
    Task = {t1, t2, t3}
    Ref = {rCached, rSkip}
    rCached = rCached
    rSkip = rSkip
    rBad = rBad
    Map <- MapMixed
    Mode = {"sync", "async"}
    Count = 1
    MaxPush <- PushOnce
    Hourly = Hourly
PROPERTIES
    TargetNeverRegresses
    EveryTaskFinishes
    EveryCollectionEnds
