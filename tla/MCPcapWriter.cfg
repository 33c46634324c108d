SPECIFICATION Spec
CONSTANTS
    Packets = {p1, p2, p3}
    Keys = {k1, k2}
    PacketCap = 2
    KeylogCap = 1
    MayFail = TRUE
INVARIANTS PacketsInOrder DSBFirst SeenKeyOnce NoSendOnClosed CaptureOnDisk
PROPERTIES ShutdownDSBFirst CloseCompletes PacketSaved
CHECK_DEADLOCK FALSE
