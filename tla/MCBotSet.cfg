SPECIFICATION BotsSpec
CONSTANTS
    Channels = {c1, c2}
    Walks = {morning}
    Copies = {}
    Closes = {"early", "handling", "walking"}
    End = End
INVARIANTS
    IteratorUnaffected
CHECK_DEADLOCK FALSE
