SPECIFICATION SpecMC
CONSTANTS
    t1 = t1
    t2 = t2
    t3 = t3
    q1 = q1
    q2 = q2
    Task = {t1, t2, t3}
    Request = {q1, q2}
    Resources <- ResourcesMC
    Ref <- RefMC
    Rules <- RulesMC
    Map <- MapMC
    Mode = {"sync", "async"}
    Count = 1
    MaxPush <- NoPush
    Hourly = Hourly
INVARIANTS
    WebhookTypeOK
    OneConversionPerRef
    NoCollectionDuringConversion
    CompletedIsPublished
    ReplyIsTrue
    OwnPushesIgnored
