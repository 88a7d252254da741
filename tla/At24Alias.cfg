CONSTANTS
    Procs = {p1, p2}
    NobodyHolds = NobodyHolds
    Factory = Factory
    byte_len = 4
    page_size = 2
    Addressable = 2
    io_limit = 2
    write_timeout = 1
    WriteCycle = 1
SPECIFICATION Spec
INVARIANTS
    WriteLanded
