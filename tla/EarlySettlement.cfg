CONSTANTS
    Quotes = {1, 2}
    Payments = {1, 2}
    Installments <- MCInstallments
    Due <- MCDue
    Future <- MCFuture
    Revised <- MCRevised
    Tenders = {2}
    NoQuote = NoQuote
SPECIFICATION FairSpec
INVARIANTS
    OneSettlement
    SettledIsPaid
    CreditIsReceived
    ReceivedIsCredited
    ClosedAtTheQuote
    RebateIsSettled
    SuccessSettles
PROPERTY SettlementMoneyIsPosted
