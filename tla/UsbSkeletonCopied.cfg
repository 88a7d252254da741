CONSTANTS
    p1 = p1
    p2 = p2
    Procs = {p1, p2}
    NobodyHolds = NobodyHolds
    CoreThread = CoreThread
    WRITES_IN_FLIGHT = 2
    BulkInSize = 2
    Counts = {1, 2}
    Word = 4
    MaxDone = 2
SPECIFICATION Spec
INVARIANTS
    CopiedWithinFilled
