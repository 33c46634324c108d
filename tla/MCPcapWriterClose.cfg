SPECIFICATION Spec
CONSTANTS
    Packets = {p1}
    Keys = {k1}
    PacketCap = 1
    KeylogCap = 1
    MayFail = FALSE
INVARIANTS AllDataWritten
CHECK_DEADLOCK FALSE
