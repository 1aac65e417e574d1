SPECIFICATION FairSpec
CONSTANTS
    Counters = {c1, c2}
    Waiters = {w1, w2, w3}
    TimedWaiters = {w3}
    InitialCount = 2
    MaxCalls = 3
INVARIANTS
    ReturnMeansCountedDown
PROPERTIES
    LateWaitReturns
    TimedWaitReturns
