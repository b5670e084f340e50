SPECIFICATION FairSpec
CONSTANTS
    Scans <- MCScans
    InitialIds <- MCInitialIds
    Ids <- MCIds
    PageSize = 2
    MaxPage = 2
    ResultWindow = 6
    MaxChanges = 1
CHECK_DEADLOCK FALSE
INVARIANTS
    TypeOK
    RewritesCatchUp
    NothingTwice
    NothingMissed
    FinishedChecksClean
PROPERTIES
    ReachableCountsEnd
