SPECIFICATION TxSpec
CONSTANTS
    TX_TIMEOUT = 1
    UIP_CONNS = 1
    TxDepth = 2
    NTags = 4
INVARIANT NoOldStatus
