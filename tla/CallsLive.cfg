SPECIFICATION FairSpec
CONSTANTS
    Cpvt = {c1, c2}
    SysChan = sys
    NULL = null
    MaxIdx = 1
    MaxIncoming = 1
    MaxLine = 1
    MaxDrops = 0
    Group295 = FALSE
    MayFail = FALSE
CHECK_DEADLOCK FALSE
PROPERTY IncomingSeen
