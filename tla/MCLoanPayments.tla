--------------------------- MODULE MCLoanPayments ---------------------------
(* Instances of LoanPayments for TLC: two installments of which the second *)
(* falls due a day later, so that partial payments, payments that spill    *)
(* over and payoffs that need a settlement quote all occur.                *)
EXTENDS LoanPayments, TLC

CONSTANTS p1, p2, p3, a1, maker, checker

MCPayments == {p1, p2, p3}
TwoPayments == {p1, p2}
MCUsers == {maker, checker}
MCInstallments == {1, 2}
MCDue == [i \in MCInstallments |-> i]
MCDueDay == [i \in MCInstallments |-> i - 1]

DueToday == [i \in MCInstallments |-> 0]

Symmetry == Permutations(TwoPayments) \cup Permutations(MCUsers)

(* The schedule adds up to the loan's total.                               *)
ASSUME ScheduleAddsUp == TotalRepayable = Total(Due)
=============================================================================
