SPECIFICATION TxFairSpec
CONSTANTS
    TX_TIMEOUT = 1
    UIP_CONNS = 1
    TxDepth = 2
    NTags = 4
INVARIANTS TxTypeOK OwnStatus
PROPERTIES MainLoopLive TimersServed
