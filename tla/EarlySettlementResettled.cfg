CONSTANTS
    Quotes = {1, 2}
    Payments = {1, 2, 3}
    Installments <- MCInstallments
    Due <- MCDue
    Future <- MCFuture
    Revised <- MCRevised
    Tenders = {2}
    NoQuote = NoQuote
SPECIFICATION Spec
PROPERTY ChangedLoanIsRefused
