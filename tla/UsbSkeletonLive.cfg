CONSTANTS
    p1 = p1
    p2 = p2
    Procs = {p1, p2}
    NobodyHolds = NobodyHolds
    CoreThread = CoreThread
    WRITES_IN_FLIGHT = 1
    BulkInSize = 1
    Counts = {2}
    Word = 3
    MaxDone = 1
SPECIFICATION FairSpec
PROPERTIES
    DisconnectCompletes
    CallsReturn
