SPECIFICATION FairSpec
CONSTANTS
    PicSize = 2
    RxSize = 12
    CmdDepth = 2
    MaxFaults = 3
INVARIANTS TypeOK FreshAck PictureWhole
PROPERTIES Recovers
