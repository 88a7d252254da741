CONSTANTS
    Cmds = {c1, c2}
    NoCmd = NoCmd
    MaxMsgs = 3
SPECIFICATION FairSpec
INVARIANTS
    TypeOK
    RequestUnderMutex
    CancelNotLost
    AnsweredAtMostOnce
    NoStaleAbort
    NoUseAfterFree
    NothingLeaked
    IInv
PROPERTIES
    ImplementsService
    CommandFinishes
    DisconnectCompletes
    WorkerExits
