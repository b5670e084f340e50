SPECIFICATION Spec
CONSTANTS
    Consumers = {c1}
    Scripts <- MCPaidLater
    OwnActions <- MCOwnCapture
    Statuses <- MCStatuses
    NoDocument = NoDocument
    Total = 3
    MaxCrashes = 0
CHECK_DEADLOCK FALSE
PROPERTY StatusChangesAreAnnounced
