SPECIFICATION CronSpec
CONSTANTS
    Expressions <- SomeExpressions
    Starts <- SomeStarts
    MaxRuns = 4
INVARIANTS
    DueNext
CHECK_DEADLOCK FALSE
