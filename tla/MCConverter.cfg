SPECIFICATION FairSpec
CONSTANTS
    first = first
    second = second
    other = other
    app = app
    tool = tool
    amd64 = amd64
    arm64 = arm64
    Conversion = {first, second, other}
    Sync = {first}
    Ref = {app, tool}
    Platform = {amd64, arm64}
    Selected = {amd64, arm64}
    DefaultPlatform = amd64
    Source <- MCSource
    Image <- MCImage
    Caching = {second}
    Cached <- MCCached
    Serves <- MCServes
    MaxFault = 1
INVARIANTS
    TypeOK
    PulledIsReadable
    LoneConversionIsFresh
PROPERTIES
    
    EveryConversionEnds
    TargetHasBoth
    TargetSharesNothing
CHECK_DEADLOCK FALSE
