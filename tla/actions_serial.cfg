SPECIFICATION Spec
CONSTANTS
    Requests = {r1, r2}
    Jobs <- MCValidatedJobs
    Identifiers <- MCIdentifiers
    Cart <- MCCart
    Total = 4
    Fees = {1}
    InitialFees = 1
    ThirdParty = TRUE
    Statuses = {"STATUS_ACCEPTED", "STATUS_REFUNDED"}
    InitialStatus = "STATUS_ACCEPTED"
    Sizes = {1}
    Serial = TRUE
CHECK_DEADLOCK FALSE
INVARIANTS
    RefundsWithinTotal
    CapturesWithinTotal
    AnswerIsApplied
    AnsweredRequestsAreComplete
