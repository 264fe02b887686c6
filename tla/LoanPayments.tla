---------------------------- MODULE LoanPayments ----------------------------
(***************************************************************************)
(* The payment ledger of one loan: disbursement, repayment, reversal and   *)
(* maker/checker adjustment of its payments, paid in cash or through the   *)
(* LelefaPayGate gateway (services/loan_service.py,                        *)
(* services/lelefa_paygate_service.py, services/governance_control_        *)
(* service.py, services/loan_last_payment_reversal.py).                    *)
(*                                                                         *)
(* One action is one database transaction.  A handler that calls the       *)
(* gateway is split where the code splits it: at the commit before the     *)
(* call, at the gateway's answer, and at the transaction that applies the  *)
(* answer with the payment row it had loaded before the call.  A refused   *)
(* request (HTTPException) rolls its transaction back: its refusal is the  *)
(* guard of its action.  How two transactions interleave INSIDE their      *)
(* statements is the subject of module LoanSessions.                       *)
(*                                                                         *)
(* Not in this module: top-ups, early-settlement quotes, restructured      *)
(* schedules, direct debits.  The loan modelled here has none of them, so  *)
(* the branches of the handlers that ask for them are not taken.           *)
(***************************************************************************)
EXTENDS Integers, FiniteSets, FiniteSetsExt

CONSTANTS
    Payments,        \* payment_transactions.id (and idempotency_key: one each)
    Adjustments,     \* payment_adjustments.id
    Users,           \* finance users, makers and checkers
    Installments,    \* installment numbers of the schedule
    Due,             \* installment |-> total_due
    DueDay,          \* installment |-> due_date
    TotalRepayable,  \* loan.total_repayable
    Principal,       \* loan.principal_amount, what a disbursement pays out
    Tenders,         \* amounts a borrower offers
    LastDay,         \* bound: the business days of a behaviour are 0..LastDay
    StaleEvents,     \* may the gateway deliver an event after its resource moved on?
    Overlap          \* may a payment change while a request about it waits for the gateway?

ASSUME PaymentsAssumption == IsFiniteSet(Payments)
ASSUME InstallmentsAssumption == Installments \subseteq Nat /\ IsFiniteSet(Installments)
ASSUME DueAssumption ==
    /\ Due \in [Installments -> Nat \ {0}]
    /\ DueDay \in [Installments -> Nat]
ASSUME AmountsAssumption ==
    /\ TotalRepayable \in Nat /\ Principal \in Nat \ {0}
    /\ Tenders \subseteq Nat \ {0}
    /\ LastDay \in Nat
ASSUME EnvironmentAssumption == StaleEvents \in BOOLEAN /\ Overlap \in BOOLEAN

VARIABLES
    loan,        \* client_company_loan row: status, amountPaid, balance
    paid,        \* repayment_installments.paid_amount
    payment,     \* payment_transactions rows
    allocation,  \* payment_allocations.amount per payment and installment (0: no row)
    journal,     \* the payment's journal: none, posted, or posted and reversed
    treasury,    \* the payment's treasury entry: none, posted or voided
    adjustment,  \* payment_adjustments rows
    today,       \* the business day
    call,        \* the request that creates the payment at the gateway
    refresh,     \* the request that asks the gateway for the payment's status
    gateway,     \* external: the gateway's resource for the payment
    sent,        \* external: webhook events the gateway has sent
    recorded     \* lelefapaygate_webhook_events: the events processed

ledgerVars   == <<loan, paid, payment, allocation, journal, treasury>>
externalVars == <<gateway, sent>>
vars == <<loan, paid, payment, allocation, journal, treasury, adjustment, today,
          call, refresh, gateway, sent, recorded>>

Never == LastDay + 1   \* completed_at IS NULL: PostgreSQL sorts it above every date

PaymentStatus == {"absent", "processing", "succeeded", "failed", "reversed"}
ActiveAdjustment == {"pending_approval", "processing", "under_investigation", "completed"}
NoPayment == [status |-> "absent", purpose |-> "repayment", method |-> "cash",
              amount |-> 0, day |-> Never, pending |-> FALSE]
NoAdjustment == [status |-> "absent"]
NoRefresh == [stage |-> "none"]

(* How the gateway's answer to the creating request ends: with a status of *)
(* the resource, in an error that may be retried (or an answer without a   *)
(* resource id), or in a refusal.                                          *)
Answers == {"processing", "succeeded", "failed", "timeout", "rejected"}

PaymentRow == [status : PaymentStatus, purpose : {"disbursement", "repayment"},
               method : {"cash", "gateway"}, amount : Nat, day : Nat, pending : BOOLEAN]
AdjustmentRow == {NoAdjustment} \cup
    [status : ActiveAdjustment \cup {"rejected"}, payment : Payments,
     kind : {"reversal", "chargeback"}, maker : Users]
RefreshRequest == {NoRefresh} \cup
    [stage : {"loaded"}, view : PaymentStatus] \cup
    [stage : {"answered"}, view : PaymentStatus,
     answer : {"processing", "succeeded", "failed", "reversed"}]
WebhookEvent == [payment : Payments, status : {"processing", "succeeded", "failed", "reversed"}]

(* The type invariant.                                                     *)
TypeOK ==
    /\ loan \in [status : {"approved", "active", "completed"}, amountPaid : Nat, balance : Nat]
    /\ paid \in [Installments -> Nat]
    /\ payment \in [Payments -> PaymentRow]
    /\ allocation \in [Payments -> [Installments -> Nat]]
    /\ journal \in [Payments -> {"none", "posted", "reversed"}]
    /\ treasury \in [Payments -> {"none", "posted", "voided"}]
    /\ adjustment \in [Adjustments -> AdjustmentRow]
    /\ today \in 0 .. LastDay
    /\ call \in [Payments -> {"none", "calling"} \cup Answers]
    /\ refresh \in [Payments -> RefreshRequest]
    /\ gateway \in [Payments -> {"none", "processing", "succeeded", "failed", "reversed"}]
    /\ sent \subseteq WebhookEvent
    /\ recorded \subseteq sent

(* A loan begins approved, or active when it takes over the remainder of   *)
(* another one (final_installment_rollover_posting.py:182).                *)
Init ==
    /\ \E s \in {"approved", "active"} : loan = [status |-> s, amountPaid |-> 0, balance |-> TotalRepayable]
    /\ paid = [i \in Installments |-> 0]
    /\ payment = [p \in Payments |-> NoPayment]
    /\ allocation = [p \in Payments |-> [i \in Installments |-> 0]]
    /\ journal = [p \in Payments |-> "none"]
    /\ treasury = [p \in Payments |-> "none"]
    /\ adjustment = [a \in Adjustments |-> NoAdjustment]
    /\ today = 0
    /\ call = [p \in Payments |-> "none"]
    /\ refresh = [p \in Payments |-> NoRefresh]
    /\ gateway = [p \in Payments |-> "none"]
    /\ sent = {}
    /\ recorded = {}

-----------------------------------------------------------------------------
(* Amounts and the schedule.                                               *)

Monus(a, b) == IF a > b THEN a - b ELSE 0
Least(a, b) == IF a < b THEN a ELSE b
Total(amounts) == MapThenSumSet(LAMBDA i : amounts[i], Installments)

Owed(i) == Monus(Due[i], paid[i])

Open(i) == paid[i] < Due[i]

Allocated(p) == \E i \in Installments : allocation[p][i] > 0

(* How an amount is spread over the open installments: oldest first.       *)
OldestFirst(share, amount) ==
    /\ \A i \in Installments : share[i] <= Owed(i)
    /\ \A i, j \in Installments : i < j /\ share[j] > 0 => share[i] = Owed(i)
    /\ Total(share) = Least(amount, Total([i \in Installments |-> Owed(i)]))

(* A repayment that would close the loan while an installment is not yet   *)
(* due needs an early-settlement quote instead.                            *)
NeedsSettlement(applied, day) ==
    /\ applied >= loan.balance
    /\ \E i \in Installments : Open(i) /\ DueDay[i] > day

(* What of an amount tendered is applied to the loan.                      *)
IsApplied(applied, tendered, giveChange) ==
    \E i \in Installments :
        /\ Open(i) /\ \A j \in Installments : Open(j) => i <= j
        /\ applied = IF tendered <= Owed(i) THEN tendered
                     ELSE IF giveChange THEN Owed(i)
                     ELSE Least(tendered, loan.balance)

AcceptsRepayment(applied, tendered, giveChange, day) ==
    /\ loan.status = "active"
    /\ IsApplied(applied, tendered, giveChange)
    /\ ~NeedsSettlement(applied, day)

-----------------------------------------------------------------------------
(* The effects on the ledger that the handlers share.                      *)

Waiting(p) == call[p] # "none" \/ refresh[p] # NoRefresh

Undisturbed(p) == Overlap \/ ~Waiting(p)

AllocateRepayment(p, amount) ==
    \E share \in [Installments -> 0 .. amount] :
        LET nowPaid == loan.amountPaid + amount
            balance == Monus(TotalRepayable, nowPaid)
        IN  /\ OldestFirst(share, amount)
            /\ paid' = [i \in Installments |-> paid[i] + share[i]]
            /\ allocation' = [allocation EXCEPT ![p] = share]
            /\ loan' = [status |-> IF balance = 0 THEN "completed" ELSE loan.status,
                        amountPaid |-> nowPaid, balance |-> balance]

(* Mutant: a repayment is allocated without asking whether it was before.  *)
FinalizeLoanPayment_Again(p, purpose, amount) ==
    \/ /\ purpose = "disbursement"
       /\ loan' = [loan EXCEPT !.status = "active"]
       /\ UNCHANGED <<paid, allocation>>
    \/ /\ purpose = "repayment"
       /\ AllocateRepayment(p, amount)

FinalizeLoanPayment(p, purpose, amount) ==
    \/ /\ purpose = "disbursement"
       /\ loan' = [loan EXCEPT !.status = "active"]
       /\ UNCHANGED <<paid, allocation>>
    \/ /\ purpose = "repayment" /\ ~Allocated(p)
       /\ AllocateRepayment(p, amount)
    \/ /\ purpose = "repayment" /\ Allocated(p)
       /\ UNCHANGED <<loan, paid, allocation>>

(* Journal and treasury entries are looked up by payment before they are   *)
(* made: a second posting finds the first.                                 *)
PostBooks(p) ==
    /\ journal' = [journal EXCEPT ![p] = IF @ = "none" THEN "posted" ELSE @]
    /\ treasury' = [treasury EXCEPT ![p] = IF @ = "none" THEN "posted" ELSE @]

(* A payment takes a status at a day; its gateway id is known.             *)
Mark(p, status, day) ==
    payment' = [payment EXCEPT ![p] =
        [@ EXCEPT !.status = status, !.day = day, !.pending = FALSE]]

FinalizeGatewayPayment(p) ==
    /\ Mark(p, "succeeded", today)
    /\ FinalizeLoanPayment(p, payment[p].purpose, payment[p].amount)
    /\ PostBooks(p)

(* Mutant: the installments stay paid.                                     *)
ReverseLoanPayment_LoanOnly(p) ==
    /\ LET nowPaid == Monus(loan.amountPaid, payment[p].amount)
           balance == Monus(TotalRepayable, nowPaid)
       IN  loan' = [status |-> "active", amountPaid |-> nowPaid, balance |-> balance]
    /\ UNCHANGED paid

ReverseLoanPayment(p) ==
    \/ /\ payment[p].purpose = "repayment"
       /\ paid' = [i \in Installments |-> Monus(paid[i], allocation[p][i])]
       /\ LET nowPaid == Monus(loan.amountPaid, payment[p].amount)
              balance == Monus(TotalRepayable, nowPaid)
          IN  loan' = [status |-> IF loan.status = "completed" /\ balance > 0
                                  THEN "active" ELSE loan.status,
                       amountPaid |-> nowPaid, balance |-> balance]
    \/ /\ payment[p].purpose = "disbursement"
       /\ loan' = [loan EXCEPT !.status = "approved"]
       /\ UNCHANGED paid

ReverseJournal(p) ==
    journal' = [journal EXCEPT ![p] = IF @ = "posted" THEN "reversed" ELSE @]

(* Reversal from the gateway or by an adjustment: the treasury entry is    *)
(* left as it is.                                                          *)
ReversePayment(p) ==
    /\ ReverseLoanPayment(p)
    /\ ReverseJournal(p)
    /\ Mark(p, "reversed", today)
    /\ UNCHANGED <<allocation, treasury>>

-----------------------------------------------------------------------------
(* Paying out the loan and collecting repayments.                          *)

CreateSucceeded(p, purpose, amount, day) ==
    /\ payment[p].status = "absent"
    /\ payment' = [payment EXCEPT ![p] =
          [status |-> "succeeded", purpose |-> purpose, method |-> "cash",
           amount |-> amount, day |-> day, pending |-> FALSE]]
    /\ FinalizeLoanPayment(p, purpose, amount)
    /\ PostBooks(p)
    /\ UNCHANGED <<adjustment, today, call, refresh, gateway, sent, recorded>>

(* The row is committed before the gateway is called.                      *)
CreateProcessing(p, purpose, amount) ==
    /\ payment[p].status = "absent"
    /\ payment' = [payment EXCEPT ![p] =
          [status |-> "processing", purpose |-> purpose, method |-> "gateway",
           amount |-> amount, day |-> Never, pending |-> TRUE]]
    /\ call' = [call EXCEPT ![p] = "calling"]
    /\ UNCHANGED <<loan, paid, allocation, journal, treasury, adjustment, today,
                   refresh, gateway, sent, recorded>>

DisburseCash(p) ==
    /\ loan.status = "approved"
    /\ CreateSucceeded(p, "disbursement", Principal, today)

DisburseByGateway(p) ==
    /\ loan.status = "approved"
    /\ CreateProcessing(p, "disbursement", Principal)

RecordCashRepayment(p, tendered, giveChange, day) ==
    /\ day <= today
    /\ \E applied \in 1 .. tendered :
        /\ AcceptsRepayment(applied, tendered, giveChange, day)
        /\ CreateSucceeded(p, "repayment", applied, day)

StartGatewayRepayment(p, tendered) ==
    \E applied \in 1 .. tendered :
        /\ AcceptsRepayment(applied, tendered, FALSE, today)
        /\ CreateProcessing(p, "repayment", applied)

-----------------------------------------------------------------------------
(* The gateway, which is outside the repository.  It accepts a request and *)
(* answers it, or the answer is lost, or it refuses; it moves its resource *)
(* on and sends an event for every state the resource takes.               *)

Enter(p, status) ==
    /\ gateway' = [gateway EXCEPT ![p] = status]
    /\ sent' = sent \cup {[payment |-> p, status |-> status]}

GatewayAnswers(p, answer) ==
    /\ call[p] = "calling"
    /\ call' = [call EXCEPT ![p] = answer]
    /\ \/ answer \in {"processing", "succeeded", "failed"} /\ Enter(p, answer)
       \/ answer = "timeout" /\ Enter(p, "processing")
       \/ answer \in {"timeout", "rejected"} /\ UNCHANGED externalVars
    /\ UNCHANGED <<ledgerVars, adjustment, today, refresh, recorded>>

GatewayMoves(p) ==
    /\ \/ gateway[p] = "processing" /\ \E s \in {"succeeded", "failed"} : Enter(p, s)
       \/ gateway[p] = "succeeded" /\ Enter(p, "reversed")
    /\ UNCHANGED <<ledgerVars, adjustment, today, call, refresh, recorded>>

-----------------------------------------------------------------------------
(* Mutant: an accepted request is taken for a completed payment.           *)
FinishInitiation_AcceptedIsPaid(p) ==
    /\ call[p] \in {"processing", "succeeded"}
    /\ call' = [call EXCEPT ![p] = "none"]
    /\ FinalizeGatewayPayment(p)
    /\ UNCHANGED <<adjustment, today, refresh, gateway, sent, recorded>>

(* The transaction that ends the creating request.  Its payment row is the *)
(* one it loaded before the call, still "processing": setting the same     *)
(* status again writes nothing.                                            *)
FinishInitiation(p) ==
    /\ call[p] \in Answers
    /\ call' = [call EXCEPT ![p] = "none"]
    /\ \/ /\ call[p] = "processing"
          /\ Mark(p, payment[p].status, payment[p].day)
          /\ UNCHANGED <<loan, paid, allocation, journal, treasury>>
       \/ /\ call[p] = "succeeded"
          /\ FinalizeGatewayPayment(p)
       \/ /\ call[p] = "failed"
          /\ Mark(p, "failed", payment[p].day)
          /\ UNCHANGED <<loan, paid, allocation, journal, treasury>>
       \/ /\ call[p] = "timeout"
          /\ UNCHANGED ledgerVars
       \/ /\ call[p] = "rejected"
          /\ payment' = [payment EXCEPT ![p].status = "failed"]
          /\ UNCHANGED <<loan, paid, allocation, journal, treasury>>
    /\ UNCHANGED <<adjustment, today, refresh, gateway, sent, recorded>>

(* The process dies while it waits: the committed row stays "processing".  *)
CrashInitiation(p) ==
    /\ call[p] # "none"
    /\ call' = [call EXCEPT ![p] = "none"]
    /\ UNCHANGED <<ledgerVars, adjustment, today, refresh, gateway, sent, recorded>>

(* Mutant: the provider's reversal is not told to the adjustment.          *)
CompleteAdjustments_Forgotten(p) == UNCHANGED adjustment

CompleteAdjustments(p) ==
    adjustment' = [a \in Adjustments |->
        IF /\ adjustment[a].status \in {"processing", "under_investigation"}
           /\ adjustment[a].payment = p
        THEN [adjustment[a] EXCEPT !.status = "completed"]
        ELSE adjustment[a]]

(* Mutant: a success after a reversal is applied like any other.           *)
ApplyGatewayResource_NoRefusal(p, view, status) ==
    \/ /\ status = "succeeded" /\ view # "succeeded"
       /\ FinalizeGatewayPayment(p)
       /\ UNCHANGED adjustment
    \/ /\ status = "reversed" /\ view = "succeeded"
       /\ ReversePayment(p)
       /\ CompleteAdjustments(p)
    \/ /\ view # "succeeded" /\ status # "succeeded"
       /\ Mark(p, status, payment[p].day)
       /\ UNCHANGED <<loan, paid, allocation, journal, treasury, adjustment>>

(* Apply the gateway's status to a payment row that the handler has loaded *)
(* with status view.  A success after a reversal is refused (409).         *)
ApplyGatewayResource(p, view, status) ==
    \/ /\ status = "succeeded" /\ view \notin {"succeeded", "reversed"}
       /\ FinalizeGatewayPayment(p)
       /\ UNCHANGED adjustment
    \/ /\ status = "reversed" /\ view = "succeeded"
       /\ ReversePayment(p)
       /\ CompleteAdjustments(p)
    \/ /\ view = "succeeded" /\ status # "reversed"
       /\ Mark(p, payment[p].status, payment[p].day)
       /\ UNCHANGED <<loan, paid, allocation, journal, treasury, adjustment>>
    \/ /\ view # "succeeded" /\ status # "succeeded"
       /\ Mark(p, IF status = view THEN payment[p].status ELSE status, payment[p].day)
       /\ UNCHANGED <<loan, paid, allocation, journal, treasury, adjustment>>

(* Mutant: events are matched by the gateway's resource id alone, which is *)
(* unknown to a payment whose creating request got no answer.              *)
ProcessGatewayWebhook_ByReference(e) ==
    /\ e \in sent \ recorded
    /\ StaleEvents \/ e.status = gateway[e.payment]
    /\ Undisturbed(e.payment)
    /\ \/ /\ payment[e.payment].pending
          /\ UNCHANGED <<ledgerVars, adjustment>>
       \/ /\ ~payment[e.payment].pending
          /\ ApplyGatewayResource(e.payment, payment[e.payment].status, e.status)
    /\ recorded' = recorded \cup {e}
    /\ UNCHANGED <<today, call, refresh, gateway, sent>>

(* A webhook event is processed once: its id is looked up first.           *)
ProcessGatewayWebhook(e) ==
    /\ e \in sent \ recorded
    /\ StaleEvents \/ e.status = gateway[e.payment]
    /\ Undisturbed(e.payment)
    /\ ApplyGatewayResource(e.payment, payment[e.payment].status, e.status)
    /\ recorded' = recorded \cup {e}
    /\ UNCHANGED <<today, call, refresh, gateway, sent>>

(* A status refresh loads the payment, asks the gateway, applies what it   *)
(* answers; it is refused while the resource's id is not known.            *)
RefreshLoad(p) ==
    /\ refresh[p] = NoRefresh
    /\ payment[p].method = "gateway" /\ ~payment[p].pending
    /\ Undisturbed(p)
    /\ refresh' = [refresh EXCEPT ![p] = [stage |-> "loaded", view |-> payment[p].status]]
    /\ UNCHANGED <<ledgerVars, adjustment, today, call, gateway, sent, recorded>>

RefreshAnswer(p) ==
    /\ refresh[p].stage = "loaded"
    /\ \/ /\ gateway[p] # "none"
          /\ refresh' = [refresh EXCEPT ![p] =
                [stage |-> "answered", view |-> refresh[p].view, answer |-> gateway[p]]]
       \/ refresh' = [refresh EXCEPT ![p] = NoRefresh]
    /\ UNCHANGED <<ledgerVars, adjustment, today, call, gateway, sent, recorded>>

RefreshApply(p) ==
    /\ refresh[p].stage = "answered"
    /\ refresh' = [refresh EXCEPT ![p] = NoRefresh]
    /\ \/ ApplyGatewayResource(p, refresh[p].view, refresh[p].answer)
       \/ /\ refresh[p].view = "reversed" /\ refresh[p].answer = "succeeded"
          /\ UNCHANGED <<ledgerVars, adjustment>>
    /\ UNCHANGED <<today, call, gateway, sent, recorded>>

-----------------------------------------------------------------------------
(* Undoing a payment by hand.                                              *)

(* The company's latest repayment by completed_at.  The time of day is     *)
(* abstracted: of the payments of one day any may be the latest.           *)
IsLatestRepayment(p) ==
    \A q \in Payments :
        /\ payment[q].purpose = "repayment"
        /\ payment[q].status \in {"succeeded", "reversed"}
        => payment[q].day <= payment[p].day

ReverseLatestCashRepayment(p) ==
    /\ payment[p].status = "succeeded"
    /\ payment[p].purpose = "repayment" /\ payment[p].method = "cash"
    /\ IsLatestRepayment(p)
    /\ treasury[p] = "posted" /\ journal[p] # "none"
    /\ ReverseLoanPayment(p)
    /\ treasury' = [treasury EXCEPT ![p] = "voided"]
    /\ Mark(p, "reversed", payment[p].day)
    /\ ReverseJournal(p)
    /\ UNCHANGED <<allocation, adjustment, today, call, refresh, gateway, sent, recorded>>

RequestAdjustment(a, p, kind, user) ==
    /\ adjustment[a] = NoAdjustment
    /\ payment[p].status = "succeeded"
    /\ Undisturbed(p)
    /\ \A b \in Adjustments :
        ~(adjustment[b].status \in ActiveAdjustment /\ adjustment[b].payment = p)
    /\ adjustment' = [adjustment EXCEPT ![a] =
          [status |-> "pending_approval", payment |-> p, kind |-> kind, maker |-> user]]
    /\ UNCHANGED <<ledgerVars, today, call, refresh, gateway, sent, recorded>>

ApproveAdjustment(a, user) ==
    /\ adjustment[a].status = "pending_approval" /\ adjustment[a].maker # user
    /\ LET p == adjustment[a].payment
           Become(status) == adjustment' = [adjustment EXCEPT ![a].status = status]
       IN  /\ payment[p].status = "succeeded"
           /\ Undisturbed(p)
           /\ \/ /\ adjustment[a].kind = "chargeback"
                 /\ Become("under_investigation")
                 /\ UNCHANGED ledgerVars
              \/ /\ adjustment[a].kind = "reversal" /\ payment[p].method = "cash"
                 /\ Become("completed")
                 /\ ReversePayment(p)
              \/ /\ adjustment[a].kind = "reversal" /\ payment[p].method = "gateway"
                 /\ Become("processing")
                 /\ UNCHANGED ledgerVars
    /\ UNCHANGED <<today, call, refresh, gateway, sent, recorded>>

RejectAdjustment(a, user) ==
    /\ adjustment[a].status = "pending_approval" /\ adjustment[a].maker # user
    /\ adjustment' = [adjustment EXCEPT ![a].status = "rejected"]
    /\ UNCHANGED <<ledgerVars, today, call, refresh, gateway, sent, recorded>>

ConfirmAdjustment(a) ==
    /\ \/ adjustment[a].status = "processing"
       \/ adjustment[a].status = "under_investigation"
    /\ LET p == adjustment[a].payment
       IN  /\ payment[p].status = "succeeded"
           /\ Undisturbed(p)
           /\ ReversePayment(p)
    /\ adjustment' = [adjustment EXCEPT ![a].status = "completed"]
    /\ UNCHANGED <<today, call, refresh, gateway, sent, recorded>>

NextDay ==
    /\ today < LastDay
    /\ today' = today + 1
    /\ UNCHANGED <<ledgerVars, adjustment, call, refresh, gateway, sent, recorded>>

-----------------------------------------------------------------------------
PaymentStep(p) ==
    \/ DisburseCash(p)
    \/ DisburseByGateway(p)
    \/ \E t \in Tenders, g \in BOOLEAN, d \in 0 .. LastDay : RecordCashRepayment(p, t, g, d)
    \/ \E t \in Tenders : StartGatewayRepayment(p, t)
    \/ \E answer \in Answers : GatewayAnswers(p, answer)
    \/ GatewayMoves(p)
    \/ FinishInitiation(p)
    \/ CrashInitiation(p)
    \/ RefreshLoad(p)
    \/ RefreshAnswer(p)
    \/ RefreshApply(p)
    \/ ReverseLatestCashRepayment(p)

AdjustmentStep(a) ==
    \/ \E p \in Payments, kind \in {"reversal", "chargeback"}, u \in Users :
           RequestAdjustment(a, p, kind, u)
    \/ \E u \in Users : ApproveAdjustment(a, u) \/ RejectAdjustment(a, u)
    \/ ConfirmAdjustment(a)

Next ==
    \/ \E p \in Payments : PaymentStep(p)
    \/ \E e \in sent : ProcessGatewayWebhook(e)
    \/ \E a \in Adjustments : AdjustmentStep(a)
    \/ NextDay

Spec == Init /\ [][Next]_vars

(* The gateway delivers an event until it is answered with success, so     *)
(* every event that can be processed is; nothing else has to happen.       *)
DeliversEvents == \A p \in Payments, s \in {"processing", "succeeded", "failed", "reversed"} :
    WF_vars(ProcessGatewayWebhook([payment |-> p, status |-> s]))

FairSpec == Spec /\ DeliversEvents
-----------------------------------------------------------------------------
(* Correctness.                                                            *)

Credited(p) == payment[p].purpose = "repayment" /\ payment[p].status = "succeeded"

(* The loan and its schedule agree with the payments: what the loan counts *)
(* as paid is the sum of its succeeded repayments, and what an installment *)
(* counts as paid is what those were allocated to it, whatever was         *)
(* reversed, refused, retried or reported twice on the way.                *)
LedgerReconciles ==
    LET credited == {p \in Payments : Credited(p)}
    IN  /\ loan.amountPaid = SumFunctionOnSet([p \in Payments |-> payment[p].amount], credited)
        /\ \A i \in Installments :
               paid[i] = SumFunctionOnSet([p \in Payments |-> allocation[p][i]], credited)

(* The books agree with the payments: a payment has an unreversed journal  *)
(* exactly while it is succeeded, so no success goes unposted and no       *)
(* reversed money stays on the books.                                      *)
BooksFollowPayments ==
    \A p \in Payments :
        /\ journal[p] = "posted" <=> payment[p].status = "succeeded"
        /\ journal[p] = "reversed" => payment[p].status = "reversed"

(* A gateway payment counts as succeeded only when the gateway has moved   *)
(* the money, although answers, events and refreshes about it arrive late, *)
(* twice, or after the process that asked has died.                        *)
MoneyMoved(p) == gateway[p] \in {"succeeded", "reversed"}
SuccessMeansMoneyMoved ==
    \A p \in Payments :
        payment[p].method = "gateway" /\ payment[p].status = "succeeded" => MoneyMoved(p)

(* No installment ever counts more as paid than is due on it.              *)
NeverOverallocated == \A i \in Installments : paid[i] <= Due[i]

(* The cash that an approved chargeback disputes was taken back at the     *)
(* desk, which looks at no adjustment: the chargeback stays under          *)
(* investigation, and its confirmation is refused from then on.            *)
Overtaken(a) ==
    adjustment[a].kind = "chargeback" /\ treasury[adjustment[a].payment] = "voided"

(* An approved adjustment that waits for the provider (governance_control: *)
(* processing or under investigation) still has a payment to undo, unless  *)
(* the desk took that payment back first; a completed one has undone it;   *)
(* one payment has one active adjustment.                                  *)
AdjustmentsTrackPayments ==
    \A a \in Adjustments :
        /\ adjustment[a].status \in {"processing", "under_investigation"} =>
               payment[adjustment[a].payment].status = "succeeded" \/ Overtaken(a)
        /\ adjustment[a].status = "completed" =>
               payment[adjustment[a].payment].status = "reversed"
        /\ \A b \in Adjustments \ {a} :
               {adjustment[a].status, adjustment[b].status} \subseteq ActiveAdjustment
               => adjustment[a].payment # adjustment[b].payment

(* A reversal is final: no later event, answer or refresh revives the      *)
(* payment.                                                                *)
ReversalIsFinal ==
    [][\A p \in Payments :
          payment[p].status = "reversed" => payment'[p].status = "reversed"]_vars

(* The allocation rows of a payment are written once, whoever reports its  *)
(* success again.                                                          *)
AllocatedOnce ==
    [][\A p \in Payments : Allocated(p) => allocation'[p] = allocation[p]]_vars

(* Money that the gateway took reaches the books, or is given back,        *)
(* whatever crashed, arrived late or was retried in between.               *)
GatewaySuccessIsPosted ==
    \A p \in Payments :
        gateway[p] = "succeeded" ~> journal[p] # "none" \/ payment[p].status = "reversed"
=============================================================================
