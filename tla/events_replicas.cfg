SPECIFICATION Spec
CONSTANTS
    Consumers = {c1, c2}
    Scripts <- MCRepeatedUpdate
    OwnActions <- MCOwnCapture
    Statuses <- MCStatuses
    NoDocument = NoDocument
    Total = 3
    MaxCrashes = 0
CHECK_DEADLOCK FALSE
PROPERTY UpdatesTellOfTheirChanges
