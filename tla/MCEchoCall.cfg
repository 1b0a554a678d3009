SPECIFICATION FairSpec
CONSTANTS
    Calls = {c1, c2}
    Codes = {k1, k2}
    Null = Null
    Default = Default
    Garbage = Garbage
    Races <- AllRaces
INVARIANTS
    OwnAnswer
    TerminatesOnlyOnCollision
    NoStaleEntry
PROPERTIES
    EveryCallEnds
CHECK_DEADLOCK FALSE
