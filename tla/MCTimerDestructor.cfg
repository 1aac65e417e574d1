SPECIFICATION FairSpec
CONSTANTS
    Timers = {t1, t2}
    NoTimer = NoTimer
    Durations = {1}
    HandlerChoices = {TRUE}
    TicksPerMs = 2
    MaxTime = 4
    TickDuringScan = FALSE
PROPERTIES
    DestructorReturns
