SPECIFICATION FairSpec
CONSTANTS
    b1 = b1
    b2 = b2
    u1 = u1
    u2 = u2
    eur = eur
    usd = usd
    sek = sek
    invoice = invoice
    instalment = instalment
    TooSmall = {115}
    TooLarge = {110}
    DayLength = 24
    Hundred = 100
    MonthLengths <- MCMonthLengths
    DocOf <- MCDocOf
    Scenarios <- MCScenarios
    DirectLimitMerchant = 1
    DirectLimitAdmin = 2
    PdfLimit = 2
    MaxChanges = 1
    MaxCrashes = 2
    LastMonth = 24
    MonthCount = 3
CHECK_DEADLOCK FALSE
INVARIANTS
    OnlyOwnTransactions
    EnginesAgree
    DailyReportCountsOnce
    MonthsReportedOnce
PROPERTIES
    AcceptedExportsArrive
