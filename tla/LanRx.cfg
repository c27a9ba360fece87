SPECIFICATION FairSpec
CONSTANTS
    ENET_MAX_MTU = 8
    FFWD_MIN = 5
    NUM_RX_BUFF = 2
    Lengths = {3, 6, 9}
    RxDepth = 2
    RxWords = 5
INVARIANTS TypeOK RxInStep NeverFull
PROPERTY ReadReturns
