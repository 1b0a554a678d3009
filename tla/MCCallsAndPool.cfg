SPECIFICATION CallsAndPoolSpec
CONSTANTS
    Calls = {c1, c2}
    Codes = {k1, k2}
    Null = Null
    Default = Default
    Garbage = Garbage
    Races <- NoRaces
    Borrowers = {b1, b2, b3}
    Ids = {i0, i1}
    Addresses = {a1, a2, a3}
    Zero = i0
    None = None
    Reconnects = TRUE
    Threads = {t1, t2}
INVARIANTS
    NoAnswerMissed
    NeverBlocked
    Exclusive
    PoolKeepsItsSize
PROPERTIES
    ImplementsOneShot
    EveryRequestServed
CHECK_DEADLOCK FALSE
