CONSTANTS
    Procs = {p1, p2}
    NKeys = 2
    BT1 = 1
SPECIFICATION Spec
SYMMETRY Symmetry
INVARIANTS
    NoChangeUnreported
    NoMissedWakeUp
    LinesFollowFile
