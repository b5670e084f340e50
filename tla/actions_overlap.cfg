SPECIFICATION FairSpec
CONSTANTS
    Requests = {r1, r2}
    Jobs <- MCOverlapJobs
    Identifiers <- MCIdentifiers
    Cart <- MCCart
    Total = 4
    Fees = {1}
    InitialFees = 1
    ThirdParty = FALSE
    Statuses = {"STATUS_ACCEPTED"}
    InitialStatus = "STATUS_ACCEPTED"
    Sizes = {1}
    Serial = FALSE
CHECK_DEADLOCK FALSE
INVARIANTS
    TypeOK
    TallyIsSumOfEntries
    AnsweredRequestsAreComplete
PROPERTIES
    FreshValidatedActionsFit
    ChargesAreRecorded
    ImplementsLedger
