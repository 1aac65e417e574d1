SPECIFICATION FairSpec
CONSTANTS
    Counters = {c1}
    Waiters = {w1}
    TimedWaiters = {}
    InitialCount = 2
    MaxCalls = 3
PROPERTIES
    WaitReturnsAtZero
