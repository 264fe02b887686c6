\* Two days, a row of each kind (one or two of them are entered), two acts of
\* people or slow transactions; the expense needs an approval.  The bounded
\* acts may run out, so the behaviour may stop.
SPECIFICATION FairSpec
CONSTANTS
    LastDay = 2
    Payments = {"payment"}
    Expenses = {"expense"}
    NeedApproval = {"expense"}
    Funds = {"fund"}
    Transfers = {"transfer"}
    Gateway = {"payment"}
    Amount <- MCAmount
    NoCount = NoCount
    Mixes <- MCMixes
    MaxActs = 2
INVARIANTS
    TypeOK
    LockedIsAsSubmitted
    NothingLostOverNight
    JournalsFollowRows
PROPERTIES
    CountIsEvidence
    PastDaysClose
CHECK_DEADLOCK FALSE
