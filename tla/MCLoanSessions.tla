--------------------------- MODULE MCLoanSessions ---------------------------
(* LoanSessions on a loan of two instalments.  Two repayments share an     *)
(* idempotency key: one is the retry of the other.  Keys are only compared *)
(* with each other, so exchanging those two, two disbursements or two      *)
(* reversals is a symmetry.                                                *)
EXTENDS LoanSessions, TLC

CONSTANTS d1, d2, r1, r2, r3, v1, v2

MCDue == [i \in Installments |-> 2]
MCKey == [r \in Creators |-> IF r \in {r1, r3} THEN r1 ELSE r]
Symmetry == Permutations({d1, d2}) \cup Permutations({r1, r3}) \cup Permutations({v1, v2})
=============================================================================
