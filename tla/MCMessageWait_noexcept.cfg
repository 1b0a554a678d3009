SPECIFICATION WaitSpec
CONSTANTS
    Groups = {g1}
    Users = {u1}
    Waiters = {w1}
    Messages = {m1, m2}
    Anywhere = Anywhere
    Nobody = Nobody
INVARIANTS
    NoExceptionEscapes
CHECK_DEADLOCK FALSE
