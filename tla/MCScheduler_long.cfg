SPECIFICATION Spec
CONSTANTS
    t1 = t1
    t2 = t2
    t3 = t3
    i1 = i1
    i2 = i2
    None = None
    Never = Never
    Ids = {i1, i2}
    Tasks = {t1, t2}
    Id <- PairIds
    Kind <- PairKinds
    Period <- PairPeriods
    Slots = {s1, s2}
    ShortRuns = {}
INVARIANTS
    RunsAtMostOnceAfterDeletion
CHECK_DEADLOCK FALSE
