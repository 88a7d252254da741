CONSTANTS
    Lengths = {0, 1, 2}
    SenseSize = 1
    Signatures = {1, 2}
    MaxCommands = 2
SPECIFICATION Spec
INVARIANTS
    InStep
    VerdictIsTrue
    NoShortGood
    ResidTrusted
