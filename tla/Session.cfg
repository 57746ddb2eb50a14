SPECIFICATION Spec
CONSTANTS
    s1 = s1
    Sender = {s1}
    Requests = {"sms", "ussd"}
    SimModes = {1}
    SimStates = {1}
    Refused = {"CNUM", "CREG_INIT", "CMGS_PDU", "SMSTEXT", "CMGD", "CLVL"}
    EmptySlot = FALSE
    Multiband = FALSE
    SmsAsPdu = TRUE
    AutoDelete = TRUE
    MayFail = FALSE
    Noise = TRUE
    CutOff = FALSE
    MaxRequests = 2
    MaxNews = 2
    MaxDrops = 1
INVARIANTS
    TypeOK
    SetUpOnce
    Backed
    
PROPERTIES
    ComesUp
    GetsConvenient
