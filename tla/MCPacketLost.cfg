CONSTANTS
    p = p
    q = q
    cr = cr
    lf = lf
    Devices = {p, q}
    Port = p
    NoDevice = NoDevice
    Bytes = {cr, lf}
    BufferSize = 2
    Sessions <- StreamSessions
    LineClients = {}
    Requests <- LineRequests
    Delimiters <- CrOnly
    MaxPacketSize = 3
SPECIFICATION Spec
CHECK_DEADLOCK FALSE
INVARIANTS
    EveryPacketArrives
