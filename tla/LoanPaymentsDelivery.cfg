\* Stale events and overlapping requests: what holds all the same, and does
\* each gateway success arrive when every event that can be processed is?
SPECIFICATION FairSpec
CONSTANTS
    p1 = p1  p2 = p2  p3 = p3
    a1 = a1  maker = maker  checker = checker
    Payments = {p1}
    Adjustments = {a1}
    Users <- MCUsers
    Installments <- MCInstallments
    Due <- MCDue
    DueDay <- MCDueDay
    TotalRepayable = 3
    Principal = 2
    Tenders = {2}
    LastDay = 1
    StaleEvents = TRUE
    Overlap = TRUE
INVARIANTS SuccessMeansMoneyMoved
PROPERTIES AllocatedOnce GatewaySuccessIsPosted
CHECK_DEADLOCK FALSE
