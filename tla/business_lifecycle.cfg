SPECIFICATION FairSpec
CONSTANTS
    Consumers = {c1, c2}
    Requests = {r1}
    p1 = p1
    p2 = p2
    f1 = f1
    e1 = e1
    e2 = e2
    Payments = {p1, p2}
    Flows = {f1}
    FlowOf <- MCFlowOf
    Emails = {e1, e2}
    Names = {n1, n2}
    Nothing = Nothing
    Catalog = 2
    Inboxes <- MCInboxes
    MaxBroken = 1
CHECK_DEADLOCK FALSE
INVARIANTS
    TypeOK
    StatisticsKnowExamples
    PaymentsClearExamples
PROPERTIES
    RemovedStaysRemoved
    NameSetOnce
    SellerNameArrives
