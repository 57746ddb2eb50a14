SPECIFICATION Spec
CONSTANTS
    d1 = d1
    d2 = d2
    d3 = d3
    alien = alien
    None = none
    Dev = {d1, d2, d3}
    Order <- MCOrder
    Profiles <- MCProfiles
    Variables <- MCVariables
    MaxFlips = 1
    MaxCalls = 1
    MaxImb = 2
    MaxSoupri = 2
    MayFail = TRUE
CHECK_DEADLOCK FALSE
INVARIANTS SelectedRight  EntriesFreed
