\* A repayment overlaps the reversal of an earlier one.
SPECIFICATION Spec
CHECK_DEADLOCK FALSE
CONSTANTS
    d1 = d1  d2 = d2
    r1 = r1  r2 = r2  r3 = r3
    v1 = v1  v2 = v2
    Disbursements = {d1}
    Repayments = {r1, r2}
    Reversals = {v1}
    Installments = {1, 2}
    Due <- MCDue
    Key <- MCKey
    Principal = 3
    Tenders = {1, 3}
INVARIANTS ReversedIsNotCredited
