SPECIFICATION FairSpec
CONSTANTS
    TxByte = {1, 2}
    RxByte = {}
    TX_SIZE = 3
    RX_SIZE = 2
    FifoDepth = 2
    MaxWrite = 2
    Calls = {"puts", "write", "flush", "init"}
    ReArm = TRUE
    SplitExtract = FALSE
INVARIANTS TypeOK TxInv WriteNeverShort ThrNeverOverwritten NoLostWakeup
PROPERTIES TxRefines TxLive
