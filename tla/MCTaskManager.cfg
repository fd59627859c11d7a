SPECIFICATION Spec
CONSTANTS
    TaskId = {t1, t2, t3}
    KeepPeriod = 0
    MaxClock = 1
SYMMETRY Symmetry
INVARIANTS
    TypeOK
    FinishFindsTask
    NoOrphanProcessing
    SavedOutcomeShown
    ListedOutcomeStands
PROPERTIES
    SavedOutcomeKept
    ImplementsTaskRecord
