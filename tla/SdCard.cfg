SPECIFICATION FairSpec
CONSTANTS
    Entries <- MCEntries
    MaxEntries = 3
    Chains <- MCChains
    SecPerClus = 2
    InitTries = 1
    MaxList = 3
    MaxSearch = 2
    MaxFails = 1
INVARIANTS TypeOK ListRight SearchRight FileRight
PROPERTIES ListingEnds
CHECK_DEADLOCK FALSE
