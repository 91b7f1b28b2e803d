\* Three tasks, two calls per window of three ticks, one retry each.
SPECIFICATION FairSpec
CONSTANTS
    Callers = {t1, t2, t3}
    MaxPerMinute = 2
    Window = 3
    MaxRetries = 1
    FineClock = TRUE
    NoOne = NoOne
INVARIANTS
    TypeOK
    RateIsBounded
    NothingIsForgotten
PROPERTIES
    EveryGetEnds
