\* An event may be delivered after its resource moved on.
SPECIFICATION Spec
CONSTANTS
    p1 = p1  p2 = p2  p3 = p3
    a1 = a1  maker = maker  checker = checker
    Payments <- TwoPayments
    Adjustments = {a1}
    Users <- MCUsers
    Installments <- MCInstallments
    Due <- MCDue
    DueDay <- DueToday
    TotalRepayable = 3
    Principal = 2
    Tenders = {2}
    LastDay = 0
    StaleEvents = TRUE
    Overlap = FALSE
SYMMETRY Symmetry
PROPERTIES ReversalIsFinal
CHECK_DEADLOCK FALSE
