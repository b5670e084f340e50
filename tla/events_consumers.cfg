SPECIFICATION FairSpec
CONSTANTS
    Consumers = {c1, c2}
    Scripts <- MCScripts
    Statuses <- MCStatuses
    NoDocument = NoDocument
    OwnActions <- MCOwnActions
    Total = 3
    MaxCrashes = 1
CHECK_DEADLOCK FALSE
INVARIANTS
    TypeOK
    LastMessageWins
    HistoryKept
    NoRefundCountedTwice
    MigratedAmountsAreNet
    ProcessedIsMailed
PROPERTIES
    UpdatesAreAnnounced
    QueueDrains
