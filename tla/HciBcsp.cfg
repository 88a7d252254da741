CONSTANTS
    SEQ = 3
    BCSP_TXWINSIZE = 2
    HostPkts = 3
    CardWindow = 1
    CardPkts = 1
    MaxUnrel = 1
    LineCap = 1
    Idle = Idle
SPECIFICATION FairSpec
INVARIANTS
    TimerRuns
PROPERTIES
    ImplementsLink
    PacketsArrive
