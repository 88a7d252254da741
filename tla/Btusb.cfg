\* Deadlock is not checked: a suspension that waits for the work (1093) while
\* the work waits for the suspension (825) stops the driver for good.
CONSTANTS
    MaxTx = 2
SPECIFICATION Spec
CHECK_DEADLOCK FALSE
INVARIANTS
    TxCounted
    ClosedIsDeaf
    Listens
    DeferredWaits
