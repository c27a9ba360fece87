SPECIFICATION Spec
CONSTANTS
    TxByte = {}
    RxByte = {1, 2}
    TX_SIZE = 2
    RX_SIZE = 4
    FifoDepth = 3
    MaxWrite = 0
    Calls = {"getch", "flush", "init"}
    ReArm = TRUE
    SplitExtract = TRUE

PROPERTY RxRefines
