SPECIFICATION FairSpec
CONSTANTS
    Scans <- MCCheck
    InitialIds <- MCInitialIds
    Ids <- MCIds
    PageSize = 2
    MaxPage = 2
    ResultWindow = 6
    MaxChanges = 0
CHECK_DEADLOCK FALSE
PROPERTIES
    ChecksClean
