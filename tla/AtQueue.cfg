SPECIFICATION FairSpec
CONSTANTS
    Cpvt = {c1}
    SysChan = sys
    NoCmd = none
    Script <- MCScript
    InitScript <- MCDial
    Ping <- MCPing
    MaxCmds = 2
    MaxTasks = 4
INVARIANTS TypeOK CountersMatch OnlyHeadWritten  
PROPERTIES HeadStays  QueueDrains
CHECK_DEADLOCK FALSE
