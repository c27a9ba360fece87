SPECIFICATION Spec
CONSTANTS
    NumSamples = 2
    Positions <- MCPositions
    Floating = {0, 2000}
    Word = 65536
    MaxFails = 2
INVARIANTS TypeOK StillRight
