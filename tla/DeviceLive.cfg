SPECIFICATION FairSpec
CONSTANTS
    Dev = {p1, p2, p3}
    Tty = {t1}
    Place = {b1, b2}
    NULL = null
    MaxPlugs = 3
    MaxRequests = 0
    MaxReloads = 0
    MaxWork = 0
    MaxFails = 2
    MayUnload = TRUE
CHECK_DEADLOCK FALSE
PROPERTIES LostGone FoundStarts UnloadEnds
