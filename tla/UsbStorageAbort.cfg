CONSTANTS
    Cmds = {c1}
    NoCmd = NoCmd
    MaxMsgs = 1
SPECIFICATION FairSpec
PROPERTIES
    AbortFinishes
