SPECIFICATION ManageSpec
CONSTANTS
    Users = {u1}
    ChatGroups = {q1, q2}
    Silent = {q1}
    BotConfig <- OnlyGroups
    MaxEvents = 4
INVARIANTS
    CleansOnlySilent
CHECK_DEADLOCK FALSE
