SPECIFICATION LoopSpec
CONSTANTS
    Values = {v1, v2}
    NullPtr = NullPtr
    Size = 3
    Modulus = 8
    StateHandlers = {s, t}
    Initial = initial
    NoState = NoState
    MaxDepth = 2
CHECK_DEADLOCK FALSE
INVARIANTS
    ExitsMatchEntries
    PostingNeverAsserts
PROPERTIES
    ImplementsBuffer
    EventsReachEnteredState
