SPECIFICATION Spec
CONSTANTS
    TxByte = {}
    RxByte = {1, 2}
    TX_SIZE = 2
    RX_SIZE = 4
    FifoDepth = 3
    MaxWrite = 0
    Calls = {"getch", "txempty", "flush", "init"}
    ReArm = TRUE
    SplitExtract = FALSE
INVARIANT TypeOK
PROPERTY RxRefines
