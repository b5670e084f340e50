SPECIFICATION Spec
CONSTANTS
    Requests = {r1, r2}
    Jobs <- MCCaptureJobs
    Identifiers <- MCIdentifiers
    Cart <- MCOneArticle
    Total = 4
    Fees = {1}
    InitialFees = 1
    ThirdParty = FALSE
    Statuses = {"STATUS_ACCEPTED", "STATUS_REFUNDED"}
    InitialStatus = "STATUS_ACCEPTED"
    Sizes = {1, 4}
    Serial = TRUE
CHECK_DEADLOCK FALSE
INVARIANT CapturesWithinCart
