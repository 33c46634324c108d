SPECIFICATION Spec
CONSTANTS
    plain = plain
    sorted = sorted
    x1 = x1
    x2 = x2
    x3 = x3
    Readers = {plain, sorted}
    Ordered = {sorted}
    Records = {x1, x2, x3}
    ReaderOf <- MCReaderOf
    RingCap = 1
    ConfCap = 1
    MaxReloads = 1
    MaxSignals = 1
    NoRecord = NoRecord
INVARIANTS NoneLostAtClose SessionsDisjoint DeliveredOnce
PROPERTIES CloseCompletes FirstSessionDelivers
CHECK_DEADLOCK FALSE
