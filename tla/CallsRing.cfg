SPECIFICATION Spec
CONSTANTS
    Cpvt = {c1}
    SysChan = sys
    NULL = null
    MaxIdx = 1
    MaxIncoming = 1
    MaxLine = 2
    MaxDrops = 0
    Group295 = FALSE
    MayFail = FALSE
CHECK_DEADLOCK FALSE
INVARIANT RingUntilEnd
