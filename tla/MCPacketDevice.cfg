CONSTANTS
    p = p
    q = q
    cr = cr
    lf = lf
    Devices = {p, q}
    Port = p
    NoDevice = NoDevice
    Bytes = {cr, lf}
    BufferSize = 2
    Sessions <- PassSessions
    LineClients = {c1, c2}
    Requests <- LineRequests
    Delimiters <- CrLfOrCr
    MaxPacketSize = 1
SPECIFICATION Spec
CHECK_DEADLOCK FALSE
INVARIANTS
    TypeOK
    OwnerKeepsTerminal
    LineAsConfigured
    ClosedStaysShut
    LineRequestsKept
    RemovedInOrder
    CapacitySuffices
    PacketsAreWhole
    FramingFollowsStream
PROPERTIES
    GapsAreSeparated
    ClosingEnds
    BytesAreTaken
