CONSTANTS
    l1 = l1
    l2 = l2
    w1 = w1
    w2 = w2
    Ops = {1}
    Deductions = {l1, l2}
    Workers = {w1, w2}
    Terms <- MCTerms
    InitialTerms <- MCInitialTerms
    Settled <- MCSettled
    Readers = {"worker", "operation", "loan"}
    Caller = "worker"
    LastDay = 0
    NoWork = NoWork
    NoDeduction = NoDeduction
    InitialBalance = 2
    Maximum = 2
    Headroom = 1
    MaxEvents = 2
SPECIFICATION Spec
CHECK_DEADLOCK FALSE
SYMMETRY Symmetry
INVARIANT
    NoSilentSchedule
