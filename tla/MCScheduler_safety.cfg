SPECIFICATION Spec
CONSTANTS
    t1 = t1
    t2 = t2
    t3 = t3
    i1 = i1
    i2 = i2
    None = None
    Never = Never
    Ids = {i1, i2}
    Tasks = {t1, t2, t3}
    Id <- MixedIds
    Kind <- MixedKinds
    Period <- MixedPeriods
    Slots = {s1, s2}
    ShortRuns = {t1, t2}
INVARIANTS
    NoOversleep
    ScheduledOnce
    ShortRunsEndAfterDeletion
CHECK_DEADLOCK FALSE
