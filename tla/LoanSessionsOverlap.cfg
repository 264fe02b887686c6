\* Two disbursements, three repayments, two of them under one key, and two
\* reversals, overlapping freely.
SPECIFICATION Spec
CHECK_DEADLOCK FALSE
CONSTANTS
    d1 = d1  d2 = d2
    r1 = r1  r2 = r2  r3 = r3
    v1 = v1  v2 = v2
    Disbursements = {d1, d2}
    Repayments = {r1, r2, r3}
    Reversals = {v1, v2}
    Installments = {1, 2}
    Due <- MCDue
    Key <- MCKey
    Principal = 3
    Tenders = {1, 3}
SYMMETRY Symmetry
INVARIANTS TypeOK ColumnsAgree NeverOverallocated ReversedOnce OnePaymentPerKey AloneLoanMatches
