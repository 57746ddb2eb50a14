SPECIFICATION Spec
CONSTANTS
    Cpvt = {c1, c2}
    SysChan = sys
    NULL = null
    MaxIdx = 2
    MaxIncoming = 1
    MaxLine = 1
    MaxDrops = 0
    Group295 = FALSE
    MayFail = FALSE
CHECK_DEADLOCK FALSE
SYMMETRY Perms
INVARIANTS TypeOK CountsMatch  OneSetup
PROPERTY ReleaseTold
