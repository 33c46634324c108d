SPECIFICATION ProgramsSpec
CONSTANTS
    Threads = {t1, t2}
    Rets <- MCRets
    MapCap = 1
    MaxData = 2
    MaxCalls = 3
    MaxDepth = 2
    MaxMoves = 2
    Fds = {3, 4}
    Socks = {s1, s2}
    Elems = {e1}
    NoElem = NoElem
    NoSock = NoSock
    Shells = {b1, b2}
    Cpus = {cpu1, cpu2}
    Statuses = {0, 1}
    ErrNo = 1
    RingCap = 1
    MaxLines = 3
    Conns = {c1, c2}
    Slots = {m1, m2}
    NoSlot = NoSlot
    SqlRets = {0, 1}
    MaxPackets = 4
    GoCpus = {cpu1}
    GoConns = {1, 2}
    Chunk = 4
    Segments = 3
    GoLens <- MCGoLens
    TlsConns = {k1}
    Suites = {4865, 4866, 4867, 4868}
    MaxFailures = 2
    Events = {1, 2, 3, 4, 5, 6, 7}
    Mono <- MCMono
    LagNs = 2
    MaxPending = 4
INVARIANTS
    OwnArguments ConnectionIsTheCalls LineShownOnce WholeCommands AloneIsOwn
    OwnTuple SegmentsTile LoggedOnce LoggedIsRight NothingMissing
    NothingLost DispatchedInOrder
PROPERTY ImplementsCallLog
CHECK_DEADLOCK FALSE
