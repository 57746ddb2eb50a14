SPECIFICATION Spec
CONSTANTS
    Dev = {p1, p2}
    Tty = {t1}
    Place = {b1, b2}
    NULL = null
    MaxPlugs = 2
    MaxRequests = 1
    MaxReloads = 1
    MaxWork = 1
    MaxFails = 1
    MayUnload = TRUE
SYMMETRY Perms
CHECK_DEADLOCK FALSE
INVARIANTS TypeOK MonitorsAgree StoppedBeforeFreed LocksRight
