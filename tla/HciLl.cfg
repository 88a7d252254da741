\* Deadlock is not checked: when every packet has arrived, nothing is left to
\* do but what the chip may ask for.
CONSTANTS
    Senders = {s1}
    Rx = Rx
    Wake = Wake
    UartSize = 2
    Data = {1, 2}
    None = None
SPECIFICATION FairSpec
CHECK_DEADLOCK FALSE
INVARIANTS
    ArriveInOrder
    AsleepHearsOnlyWake
PROPERTIES
    PacketsArrive
