SPECIFICATION Spec
CONSTANTS
    Cpvt = {c1, c2}
    SysChan = sys
    NULL = null
    MaxIdx = 2
    MaxIncoming = 0
    MaxLine = 1
    MaxDrops = 1
    Group295 = TRUE
    MayFail = TRUE
CHECK_DEADLOCK FALSE
SYMMETRY Perms
INVARIANT NumberedRight
