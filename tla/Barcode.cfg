SPECIFICATION Spec
CONSTANTS
    Wrap = 128
    Epochs = 2
    Codes <- MCCodes
    Drifting <- MCDrifting
    MinSpeed = 24
    MaxSpeed = 27
    Quiet = 120
    MaxExtra = 3
    Starts = {0, 200}
INVARIANTS TypeOK ReadRight BitTimeClose
CHECK_DEADLOCK FALSE
