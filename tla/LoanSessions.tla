---------------------------- MODULE LoanSessions ----------------------------
(***************************************************************************)
(* Concurrent requests about one loan, statement by statement.  Module     *)
(* LoanPayments takes a transaction as one step; this module looks inside  *)
(* the three cash transactions: disburse_cash_loan, record_cash_repayment  *)
(* (services/loan_service.py) and reverse_latest_cash_repayment            *)
(* (services/loan_last_payment_reversal.py).                               *)
(*                                                                         *)
(* A request runs in its own SQLAlchemy session over PostgreSQL at READ    *)
(* COMMITTED.  routers/loans.py first loads the loan with its installments *)
(* and payments (loan_or_404): the session's identity map, `view` here.    *)
(* A later query reads the database afresh, in its WHERE and ORDER BY, but *)
(* hands back the loaded objects with the attributes they already have:    *)
(* nothing asks for populate_existing, and objects expire only at commit.  *)
(* A commit writes the columns whose value differs from the loaded one.    *)
(*                                                                         *)
(* Row locks.  Inserting a payment takes FOR KEY SHARE on the loan row     *)
(* (the foreign key) until commit; with_for_update takes FOR UPDATE, which *)
(* waits for it.  From its FOR UPDATE to its commit a session keeps every  *)
(* other one from inserting a payment or writing the loan, and all that    *)
(* another can do meanwhile (load, check) commutes with that commit, so    *)
(* the locked part of a request is one step.                               *)
(*                                                                         *)
(* The loan here has no top-up, settlement, rollover, restructure or       *)
(* instalment that is not yet due, so the guards about these are not met.  *)
(***************************************************************************)
EXTENDS Integers, FiniteSetsExt, SequencesExt

CONSTANTS
    Disbursements,   \* requests to pay the loan out in cash
    Repayments,      \* requests to record a cash repayment
    Reversals,       \* requests to reverse the latest cash repayment
    Key,             \* request |-> the idempotency key it carries
    Installments,    \* installment numbers of the schedule
    Due,             \* installment |-> total_due
    Principal,       \* loan.principal_amount, what a disbursement pays out
    Tenders          \* amounts a borrower hands over

Requests == Disbursements \cup Repayments \cup Reversals
Creators == Disbursements \cup Repayments   \* a payment is named by the request that made it

ASSUME RequestsAssumption ==
    /\ Disbursements \cap (Repayments \cup Reversals) = {} /\ Repayments \cap Reversals = {}
    /\ DOMAIN Key = Creators /\ IsFiniteSet(Repayments)
ASSUME ScheduleAssumption ==
    /\ Installments \subseteq Nat /\ IsFiniteSet(Installments) /\ Installments # {}
    /\ Due \in [Installments -> Nat \ {0}]
    /\ Principal \in Nat /\ Tenders \subseteq Nat \ {0}

VARIABLES
    loan,        \* client_company_loan row: status, amountPaid, balance
    inst,        \* repayment_installments rows: paid, status
    payment,     \* payment_transactions rows: status, amount
    allocation,  \* payment_allocations.amount per repayment and installment
    voided,      \* repayments whose treasury entry is voided
    stamped,     \* repayments in the order of their completed_at
    session,     \* what each request has loaded and decided so far
    undone,      \* history: how often each repayment has been undone
    overlapped,  \* history: have two requests been in progress at once?
    overpaid     \* history: has amount_paid been written beyond total_repayable?

rows == <<loan, inst, payment, allocation, voided>>
history == <<undone, overlapped, overpaid>>
vars == <<loan, inst, payment, allocation, voided, stamped, session, undone, overlapped, overpaid>>

TotalRepayable == SumFunctionOnSet(Due, Installments)
Least(a, b) == IF a < b THEN a ELSE b
Monus_NoFloor(a, b) == a - b     \* mutant: a max(..., 0) forgotten
Monus(a, b) == IF a < b THEN 0 ELSE a - b

LoanRow == [status : {"approved", "active", "completed"},
            amountPaid : Nat, balance : 0..TotalRepayable]
InstallmentRow == [paid : Nat, status : {"pending", "partial", "paid"}]
PaymentRow == [status : {"none", "succeeded", "reversed"}, amount : Nat]
\* the identity map of a session after loan_or_404
View == [loan : LoanRow, inst : [Installments -> InstallmentRow], payment : [Creators -> PaymentRow]]

Idle == [stage |-> "idle"]
Done == [stage |-> "done"]
Stage(r) == session[r].stage

(* The type invariant.  Only the floors in the code keep the columns from  *)
(* leaving their ranges: they are written from values read at different    *)
(* moments.  amount_paid has no such bound: the preview takes a tender     *)
(* that is at most what the current installment owes without looking at    *)
(* the balance.                                                            *)
TypeOK ==
    /\ loan \in LoanRow
    /\ inst \in [Installments -> InstallmentRow]
    /\ payment \in [Creators -> PaymentRow]
    /\ allocation \in [Repayments -> [Installments -> Nat]]
    /\ voided \subseteq Repayments
    /\ stamped \in Seq(Repayments)
    /\ \A r \in Requests :
          /\ Stage(r) \in {"idle", "loaded", "checked", "posted", "done"}
          /\ Stage(r) \in {"loaded", "checked", "posted"} => session[r].view \in View
          /\ Stage(r) \in {"checked", "posted"} => session[r].amount \in Nat
          /\ Stage(r) = "posted" => session[r].open \subseteq Installments
    /\ undone \in [Repayments -> Nat]
    /\ overlapped \in BOOLEAN
    /\ overpaid \in BOOLEAN

Init ==
    /\ loan = [status |-> "approved", amountPaid |-> 0, balance |-> TotalRepayable]
    /\ inst = [i \in Installments |-> [paid |-> 0, status |-> "pending"]]
    /\ payment = [p \in Creators |-> [status |-> "none", amount |-> 0]]
    /\ allocation = [p \in Repayments |-> [i \in Installments |-> 0]]
    /\ voided = {}
    /\ stamped = <<>>
    /\ session = [r \in Requests |-> Idle]
    /\ undone = [p \in Repayments |-> 0]
    /\ overlapped = FALSE
    /\ overpaid = FALSE

Recorded(p) == payment[p].status # "none"
KeyTaken(r) == \E p \in Creators : Recorded(p) /\ Key[p] = Key[r]     \* _existing_payment
Sharing(r) == Stage(r) = "posted"      \* r's payment holds FOR KEY SHARE on the loan row

\* A commit writes an attribute only where the session changed what it had loaded.
Written(old, new, row) == [f \in DOMAIN row |-> IF new[f] = old[f] THEN row[f] ELSE new[f]]
WriteLoan(r, new) == loan' = Written(session[r].view.loan, new, loan)
WriteInstallments(r, new) ==
    inst' = [i \in Installments |-> Written(session[r].view.inst[i], new[i], inst[i])]
Finish(r) == session' = [session EXCEPT ![r] = Done]

-----------------------------------------------------------------------------
(* Loading: loan_or_404.  A reversal names a payment its user has seen.    *)

IdentityMap == [loan |-> loan, inst |-> inst, payment |-> payment]

Load(r) ==
    /\ session[r] = Idle
    /\ overlapped' = (overlapped \/ \E q \in Requests : Stage(q) \notin {"idle", "done"})
    /\ \/ /\ r \in Creators
          /\ session' = [session EXCEPT ![r] = [stage |-> "loaded", view |-> IdentityMap]]
       \/ /\ r \in Reversals
          /\ \E p \in {q \in Repayments : Recorded(q)} :
                session' = [session EXCEPT ![r] =
                    [stage |-> "loaded", view |-> IdentityMap, target |-> p]]
    /\ UNCHANGED <<rows, stamped, undone, overpaid>>

-----------------------------------------------------------------------------
(* disburse_cash_loan: the loan row is locked, the loaded status checked.  *)

DisburseCash(r) ==
    /\ r \in Disbursements /\ Stage(r) = "loaded"
    /\ \A q \in Requests : ~Sharing(q)
    /\ session[r].view.loan.status = "approved"
    /\ ~KeyTaken(r)
    /\ WriteLoan(r, [session[r].view.loan EXCEPT !.status = "active"])
    /\ payment' = [payment EXCEPT ![r] = [status |-> "succeeded", amount |-> Principal]]
    /\ Finish(r)
    /\ UNCHANGED <<inst, allocation, voided, stamped, history>>

\* The 409, or the payment an earlier request with the same key recorded.
DisburseNothing(r) ==
    /\ r \in Disbursements /\ Stage(r) = "loaded"
    /\ \A q \in Requests : ~Sharing(q)
    /\ session[r].view.loan.status # "approved" \/ KeyTaken(r)
    /\ Finish(r)
    /\ UNCHANGED <<rows, stamped, history>>

-----------------------------------------------------------------------------
(* record_cash_repayment: no lock on the loan is asked for.                *)

OpenIn(schedule) == {i \in Installments : schedule[i].status # "paid"}
Outstanding_WholeDue(view, i) == Due[i]     \* mutant: what was paid is ignored
Outstanding(view, i) == Due[i] - view.inst[i].paid

\* preview_cash_repayment: what of a tender is applied, from the loaded loan.
Applied(view, tendered, action) ==
    LET current == Min(OpenIn(view.inst))
    IN  IF tendered <= Outstanding(view, current) THEN tendered
        ELSE IF action = "give_change" THEN Outstanding(view, current)
        ELSE Least(tendered, view.loan.balance)

\* preview, idempotency check, and the timestamp the payment will carry
CheckRepayment(r) ==
    /\ r \in Repayments /\ Stage(r) = "loaded"
    /\ LET view == session[r].view IN
       /\ view.loan.status = "active" /\ OpenIn(view.inst) # {}
       /\ \E tendered \in Tenders, action \in {"give_change", "carry_forward"} :
             session' = [session EXCEPT ![r] =
                 [stage |-> "checked", view |-> view, amount |-> Applied(view, tendered, action)]]
    /\ ~KeyTaken(r)
    /\ stamped' = Append(stamped, r)
    /\ UNCHANGED <<rows, history>>

RefuseRepayment(r) ==
    /\ r \in Repayments /\ Stage(r) = "loaded"
    /\ \/ session[r].view.loan.status # "active"
       \/ OpenIn(session[r].view.inst) = {}
       \/ KeyTaken(r)
    /\ Finish(r)
    /\ UNCHANGED <<rows, stamped, history>>

\* mutant: idempotency_key is not unique
PostRepayment_NoUniqueKey(r) ==
    /\ r \in Repayments /\ Stage(r) = "checked"
    /\ session' = [session EXCEPT ![r] = [stage |-> "posted", view |-> @.view,
                                          amount |-> @.amount, open |-> OpenIn(inst)]]
    /\ UNCHANGED <<rows, stamped, history>>

\* The flush that inserts the payment waits for an uncommitted row with its
\* key and fails on a committed one (idempotency_key is UNIQUE); then
\* allocate_repayment asks the database which installments are open.
PostRepayment(r) ==
    /\ r \in Repayments /\ Stage(r) = "checked"
    /\ ~ \E q \in Repayments \ {r} : Sharing(q) /\ Key[q] = Key[r]
    /\ ~KeyTaken(r)
    /\ session' = [session EXCEPT ![r] = [stage |-> "posted", view |-> @.view,
                                          amount |-> @.amount, open |-> OpenIn(inst)]]
    /\ UNCHANGED <<rows, stamped, history>>

\* IntegrityError on the key, or a later HTTPException (a closed treasury
\* day): the transaction rolls back.
RollBack(r) ==
    /\ r \in Repayments
    /\ \/ Stage(r) = "posted"
       \/ Stage(r) = "checked" /\ KeyTaken(r)
    /\ Finish(r)
    /\ UNCHANGED <<rows, stamped, history>>

\* allocate_repayment: oldest open installment first, up to what the LOADED
\* installment still owes, until nothing remains.  (Where an overlap leaves an
\* installment that owes nothing open, the code also keeps an allocation of 0.)
OutstandingBefore(r, i) ==
    SumFunctionOnSet([j \in Installments |-> Outstanding(session[r].view, j)],
                     {j \in session[r].open : j < i})
Reached(r, i) == i \in session[r].open /\ OutstandingBefore(r, i) < session[r].amount

Share(r, i) ==
    IF Reached(r, i)
    THEN Least(Outstanding(session[r].view, i), session[r].amount - OutstandingBefore(r, i))
    ELSE 0

AllocatedTo(r, i) ==
    LET was == session[r].view.inst[i]
        now == was.paid + Share(r, i)
    IN  IF Reached(r, i)
        THEN [paid |-> now, status |-> IF now >= Due[i] THEN "paid" ELSE "partial"]
        ELSE was

\* mutant: the balance left to a later refresh
CreditedWith_NoBalance(row, total) == [row EXCEPT !.amountPaid = total]

CreditedWith(row, total) ==
    [status |-> row.status, amountPaid |-> total, balance |-> Monus(TotalRepayable, total)]

CommitRepayment(r) ==
    /\ r \in Repayments /\ Stage(r) = "posted"
    /\ LET was == session[r].view.loan
           credited == CreditedWith(was, was.amountPaid + session[r].amount)
       IN  WriteLoan(r, IF credited.balance = 0
                        THEN [credited EXCEPT !.status = "completed"] ELSE credited)
    /\ WriteInstallments(r, [i \in Installments |-> AllocatedTo(r, i)])
    /\ payment' = [payment EXCEPT ![r] = [status |-> "succeeded", amount |-> session[r].amount]]
    /\ allocation' = [allocation EXCEPT ![r] = [i \in Installments |-> Share(r, i)]]
    /\ Finish(r)
    /\ overpaid' = (overpaid \/ session[r].view.loan.amountPaid + session[r].amount > TotalRepayable)
    /\ UNCHANGED <<voided, stamped, undone, overlapped>>

-----------------------------------------------------------------------------
(* reverse_latest_cash_repayment: the loan row and the payment row are     *)
(* locked; their attributes are the loaded ones, the order of the payments *)
(* and the treasury entry are read afresh.                                 *)

Position(p) == Max({k \in DOMAIN stamped : stamped[k] = p})
IsLatest(p) == \A q \in Repayments : Recorded(q) => Position(q) <= Position(p)

\* mutant: the locked payment row is trusted, the treasury entry not asked
MayReverse_LockedRowOnly(r) ==
    LET p == session[r].target
    IN  session[r].view.payment[p].status = "succeeded" /\ IsLatest(p)

MayReverse(r) ==
    LET p == session[r].target
    IN  /\ session[r].view.payment[p].status = "succeeded"
        /\ IsLatest(p)
        /\ p \notin voided

TakenBack_Nothing(r, i) == session[r].view.inst[i]     \* mutant: installments forgotten

\* reverse_loan_payment
TakenBack(r, i) ==
    LET was == session[r].view.inst[i]
        share == allocation[session[r].target][i]
        now == Monus(was.paid, share)
    IN  IF share = 0 THEN was
        ELSE [paid |-> now, status |-> IF now = 0 THEN "pending"
                                       ELSE IF now < Due[i] THEN "partial" ELSE was.status]

ReverseLatest(r) ==
    /\ r \in Reversals /\ Stage(r) = "loaded"
    /\ \A q \in Requests : ~Sharing(q)
    /\ MayReverse(r)
    /\ LET p == session[r].target
           was == session[r].view.loan
           debited == CreditedWith(was, Monus(was.amountPaid, payment[p].amount))
       IN  /\ WriteLoan(r, IF was.status = "completed" /\ debited.balance > 0
                           THEN [debited EXCEPT !.status = "active"] ELSE debited)
           /\ WriteInstallments(r, [i \in Installments |-> TakenBack(r, i)])
           /\ payment' = [payment EXCEPT ![p].status = "reversed"]
           /\ voided' = voided \cup {p}
           /\ undone' = [undone EXCEPT ![p] = @ + 1]
    /\ Finish(r)
    /\ UNCHANGED <<allocation, stamped, overlapped, overpaid>>

RefuseReversal(r) ==
    /\ r \in Reversals /\ Stage(r) = "loaded"
    /\ \A q \in Requests : ~Sharing(q)
    /\ ~MayReverse(r)
    /\ Finish(r)
    /\ UNCHANGED <<rows, stamped, history>>

Next == \E r \in Requests :
    \/ Load(r)
    \/ DisburseCash(r) \/ DisburseNothing(r)
    \/ CheckRepayment(r) \/ RefuseRepayment(r) \/ PostRepayment(r) \/ RollBack(r) \/ CommitRepayment(r)
    \/ ReverseLatest(r) \/ RefuseReversal(r)

Spec == Init /\ [][Next]_vars

-----------------------------------------------------------------------------
(* What holds however requests overlap.                                    *)

\* balance and amount_paid are two columns, each written only when a session
\* changed it, from values it loaded earlier: they still always add up, unless
\* more than is repayable was credited.  Then the balance is at its floor, and
\* a session that changes amount_paid alone leaves another's balance beside it.
ColumnsAgree == ~overpaid => loan.amountPaid + loan.balance = TotalRepayable

\* However stale the schedule a repayment was allocated from, no installment
\* is credited with more than it is due.
NeverOverallocated == \A i \in Installments : inst[i].paid <= Due[i]

\* Two reversals of one repayment may both have loaded it as succeeded (the
\* lock does not refresh the loaded row): it is undone at most once.
ReversedOnce == \A p \in Repayments : undone[p] <= 1

\* A request retried under its idempotency key, even while the first one is
\* still running, records one payment.
OnePaymentPerKey ==
    \A p, q \in Creators : Recorded(p) /\ Recorded(q) /\ Key[p] = Key[q] => p = q

Standing(p) == payment[p].status = "succeeded"

\* As long as no two requests have overlapped, the loan and its schedule add
\* up to the repayments that stand and to each other, nothing is credited
\* beyond what is repayable, and the loan is paid out once ("Serialize every
\* payout attempt for this loan before reading mutable state",
\* loan_service.py:665).
AloneLoanMatches ==
    LET standing == {p \in Repayments : Standing(p)}
    IN  ~overlapped =>
        /\ loan.amountPaid = SumFunctionOnSet([p \in Repayments |-> payment[p].amount], standing)
        /\ \A i \in Installments :
              inst[i].paid = SumFunctionOnSet([p \in Repayments |-> allocation[p][i]], standing)
        /\ loan.amountPaid = SumFunctionOnSet([i \in Installments |-> inst[i].paid], Installments)
        /\ \A p, q \in Disbursements : Standing(p) /\ Standing(q) => p = q
        /\ ~overpaid

(* What does not hold when requests overlap.                               *)

\* No loan is credited with money of a reversed repayment: the code means to
\* "serialise competing reversal and payment-update requests against the
\* loan" (loan_last_payment_reversal.py:77).
ReversedIsNotCredited ==
    loan.amountPaid <= SumFunctionOnSet([p \in Repayments |-> payment[p].amount],
                                        {p \in Repayments : Standing(p)})

=============================================================================
