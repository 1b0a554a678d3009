SPECIFICATION WaitFairSpec
CONSTANTS
    Groups = {g1}
    Users = {u1, u2}
    Waiters = {w1, w2}
    Messages = {m1, m2}
    Anywhere = Anywhere
    Nobody = Nobody
INVARIANTS
    OneToOne
    WaiterFindable
    NoThrowOnOneThread
PROPERTIES
    EveryWaitEnds
CHECK_DEADLOCK FALSE
