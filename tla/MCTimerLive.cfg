SPECIFICATION FairSpec
CONSTANTS
    Timers = {t1, t2}
    NoTimer = NoTimer
    Durations = {1, 2}
    HandlerChoices = {TRUE, FALSE}
    TicksPerMs = 2
    MaxTime = 5
    TickDuringScan = FALSE
INVARIANTS
    SleepCoversActiveTimers
PROPERTIES
    StartedTimerServed
    DrainCompletes
