CONSTANTS
    a1 = a1
    a2 = a2
    b1 = b1
    A = A
    B = B
    Calls = {a1, a2, b1}
    Mixes <- MCMixes
    Clients = {A, B}
    ClientOf <- MCClientOf
    NoCall = NoCall
    Modes = 2
    Limit = 5
    MaxEvents = 1
SPECIFICATION Spec
CHECK_DEADLOCK FALSE
INVARIANTS
    SentAsPromised
    LoginsExclusive
    WithinAllowance
    WholeSession
