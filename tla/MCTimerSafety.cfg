SPECIFICATION Spec
CONSTANTS
    Timers = {t1, t2, t3}
    NoTimer = NoTimer
    Durations = {1, 2}
    HandlerChoices = {TRUE, FALSE}
    TicksPerMs = 2
    MaxTime = 4
    TickDuringScan = TRUE
SYMMETRY TimerSymmetry
INVARIANTS
    ListOrdered
    ServicedTimerKept
    ExpiredTimerPending
    NoTimerOutlivesManager
PROPERTIES
    NeverEarly
    ImplementsService
