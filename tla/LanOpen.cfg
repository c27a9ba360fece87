SPECIFICATION FairSpec
CONSTANTS
    PhyTimeout = 2
    AnTimeout = 1
    MaxSlow = 2
INVARIANTS TypeOK OpenRight OneSlow
PROPERTIES OpenReturns
CHECK_DEADLOCK FALSE
