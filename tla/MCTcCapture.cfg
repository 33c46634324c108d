SPECIFICATION Spec
CONSTANTS
    web = web
    webAnswer = webAnswer
    mail = mail
    mailAnswer = mailAnswer
    Procs = {p1, p2}
    Local <- MCLocal
    Reverse <- MCReverse
    Cgroups = {g1, g2}
    TargetPid = p1
    TargetCgroup = NoCgroup
    NoProc = NoProc
    NoCgroup = NoCgroup
    NetCap = 2
INVARIANTS PidLimitsCapture
CHECK_DEADLOCK FALSE
