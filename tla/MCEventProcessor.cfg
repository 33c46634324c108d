SPECIFICATION Spec
CONSTANTS
    e1 = e1
    e2 = e2
    e3 = e3
    plain = plain
    sock = sock
    idle = idle
    Events = {e1, e2, e3}
    UUIDs = {plain, sock}
    UuidOf <- MCUuidOf
    SockOf <- MCSockOf
    Size <- MCSize
    Callers = {c1, c2}
    TruncateSize = 2
    IncomingCap = 1
    OutCap = 1
    DestroyCap = 1
    ChanCap = 1
    ErrCap = 1
    MaxTickerCount = 0
    NoEvent = NoEvent
INVARIANTS NoPanic ExactlyOnePlace OneWorkerPerUUID SockWorkerPersists FlushedWhenDone
CHECK_DEADLOCK FALSE
