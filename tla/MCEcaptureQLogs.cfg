SPECIFICATION Spec
CONSTANTS
    c1 = c1
    c2 = c2
    Clients = {c1, c2}
    Beating = {c1}
    Faulty = {c1}
    Lines = {l1, l2}
    Events = {e1}
    LogBuffLen = 1
    SendCap = 3
    NoLine = NoLine
    Beat = Beat
INVARIANTS LogsSentAsTheyOccur
CHECK_DEADLOCK FALSE
