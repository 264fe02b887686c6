--------------------------- MODULE EarlySettlement ---------------------------
(***************************************************************************)
(* Closing a loan early: a quote rebates the interest of the installments  *)
(* not yet due, and a payment made against the quote closes the loan at    *)
(* the rebated total (services/early_settlement_service.py), beside the    *)
(* ordinary repayments, the direct debits and the treasury day that the    *)
(* same loan meets (services/loan_service.py, lelefa_paygate_service.py,   *)
(* loan_payment_operations_service.py, treasury_service.py).               *)
(*                                                                         *)
(* A settlement request takes several transactions: it loads the quote,    *)
(* commits it as processing, commits the payment row, calls the gateway,   *)
(* commits the answer and, for a hosted checkout, commits the link from    *)
(* the payment to the quote.  It may crash between any two of them.  A     *)
(* notification (webhook or refresh) is one transaction and carries the    *)
(* state the gateway has then: old notifications are the subject of        *)
(* module LoanPayments, concurrent statements that of LoanSessions.        *)
(*                                                                         *)
(* The installments in Future stay in the future for a whole behaviour.    *)
(***************************************************************************)
EXTENDS Integers, FiniteSets, FiniteSetsExt

CONSTANTS
    Quotes,        \* loan_early_settlements rows, numbered as they are made
    Payments,      \* payment_transactions rows, numbered as they are asked for
    Installments,  \* installment numbers of the schedule
    Due,           \* installment |-> total_due
    Future,        \* installments with due_date after today
    Revised,       \* what revised_total_repayable may be, by settlement date
    Tenders,       \* amounts of the ordinary repayments and debits
    NoQuote        \* provider_payload has no early_settlement_id

ASSUME InstallmentsAssumption ==
    /\ Installments \subseteq Nat /\ IsFiniteSet(Installments)
    /\ Due \in [Installments -> Nat \ {0}]
    /\ Future \subseteq Installments
ASSUME PaymentsAssumption == Payments \subseteq Nat /\ IsFiniteSet(Payments)
ASSUME QuotesAssumption == Quotes \subseteq Nat /\ IsFiniteSet(Quotes)
ASSUME AmountsAssumption == Revised \subseteq Nat /\ Tenders \subseteq Nat \ {0}
ASSUME NoQuoteAssumption == NoQuote \notin Quotes

VARIABLES
    loan,        \* client_company_loan row: status, total_repayable, amount_paid
    paid,        \* repayment_installments.paid_amount
    waived,      \* installments WAIVED and superseded by a settlement
    quote,       \* loan_early_settlements rows
    payment,     \* payment_transactions rows
    allocation,  \* payment_allocations.amount per payment and installment (0: no row)
    booked,      \* payments with their journal and treasury entry
    request,     \* the request that creates the payment
    gateway,     \* external: the gateway's resource for the payment
    dayOpen,     \* does the branch's treasury day accept today's payments?
    upset        \* history: what went wrong that the properties excuse

loanVars   == <<loan, paid, waived>>
ledgerButPayment == <<loan, paid, waived, quote, allocation, booked>>
ledgerVars == <<loan, paid, waived, quote, payment, allocation, booked>>
vars == <<loan, paid, waived, quote, payment, allocation, booked, request, gateway,
          dayOpen, upset>>

Total(amounts) == SumFunctionOnSet(amounts, Installments)
Monus(a, b) == IF a > b THEN a - b ELSE 0
Least(a, b) == IF a < b THEN a ELSE b

Contract == Total(Due)
Balance == Monus(loan.total, loan.paid)

NoPayment == [status |-> "absent", amount |-> 0, link |-> NoQuote, cash |-> FALSE]
NoRequest == [stage |-> "none", door |-> "none", quote |-> NoQuote]
Untouched == [total |-> 0, paid |-> 0, inst |-> [i \in Installments |-> 0], waived |-> {}]
NoOffer == [status |-> "absent", revised |-> 0, was |-> Untouched]

(* What a behaviour may have met that a property has to excuse:            *)
(*   stale request: a settlement began although, since it loaded its quote *)
(*     and its loan, the quote ceased to be payable;                       *)
(*   torn commit: a success that could not be posted was committed in part;*)
(*   unlinked settlement: a settlement's money was posted as an ordinary   *)
(*     repayment, before its checkout was linked or after it was given up; *)
(*   lost settlement: a settled quote was marked failed;                   *)
(*   late repayment: ordinary money was posted to a loan already closed;   *)
(*   old reversal: a payment was taken back as an ordinary repayment while *)
(*     a settlement's money stood beside it.                               *)
Upsets == {"stale request", "torn commit", "unlinked settlement", "lost settlement",
           "late repayment", "old reversal"}
Noting(what, happens) == upset' = IF happens THEN upset \cup {what} ELSE upset

(* The type invariant.                                                     *)
TypeOK ==
    /\ loan \in [status : {"active", "completed"}, total : Nat, paid : Nat]
    /\ paid \in [Installments -> Nat]
    /\ waived \subseteq Installments
    /\ quote \in [Quotes ->
          [status : {"absent", "quoted", "processing", "settled", "failed", "expired", "reversed"},
           revised : Nat,
           was : [total : Nat, paid : Nat, inst : [Installments -> Nat],
                  waived : SUBSET Installments]]]
    /\ payment \in [Payments ->
          [status : {"absent", "processing", "succeeded", "failed", "reversed"},
           amount : Nat, link : Quotes \cup {NoQuote}, cash : BOOLEAN]]
    /\ allocation \in [Payments -> [Installments -> Nat]]
    /\ booked \subseteq Payments
    /\ request \in [Payments ->
          [stage : {"none", "loaded", "started", "calling", "opened", "linked", "done", "lost"},
           door : {"none", "branch", "checkout", "counter", "collection", "debit"},
           quote : Quotes \cup {NoQuote}]]
    /\ gateway \in [Payments -> {"none", "processing", "succeeded", "failed", "reversed"}]
    /\ dayOpen \in BOOLEAN
    /\ upset \subseteq Upsets

Init ==
    /\ loan = [status |-> "active", total |-> Contract, paid |-> 0]
    /\ paid = [i \in Installments |-> 0]
    /\ waived = {}
    /\ quote = [q \in Quotes |-> NoOffer]
    /\ payment = [p \in Payments |-> NoPayment]
    /\ allocation = [p \in Payments |-> [i \in Installments |-> 0]]
    /\ booked = {}
    /\ request = [p \in Payments |-> NoRequest]
    /\ gateway = [p \in Payments |-> "none"]
    /\ dayOpen = TRUE
    /\ upset = {}

-----------------------------------------------------------------------------
(* The loan and its schedule.                                              *)

Open(i) == i \notin waived /\ paid[i] < Due[i]
Owed(i) == IF Open(i) THEN Due[i] - paid[i] ELSE 0

(* What a payment brought in, as long as it stands.                        *)
Standing(p) == IF payment[p].status = "succeeded" THEN payment[p].amount ELSE 0
Received == SumFunctionOnSet([p \in Payments |-> Standing(p)], Payments)

SettledQuotes == {q \in Quotes : quote[q].status = "settled"}

Amount(q) == Monus(quote[q].revised, quote[q].was.paid)

(* The payment is the one a settlement request made.                       *)
SettlesBy(p) == request[p].quote \in Quotes

(* Would this amount close installments that are not due yet?              *)
NeedsQuote(a) == a >= Balance /\ \E i \in Future : Open(i)

NoSettlementInProgress == \A q \in Quotes : quote[q].status # "processing"

(* How an amount is spread over the open installments: oldest first.       *)
OldestFirst(share, amount) ==
    /\ \A i \in Installments : share[i] <= Owed(i)
    /\ \A i, j \in Installments : i < j /\ share[j] > 0 => share[i] = Owed(i)
    /\ Total(share) = Least(amount, Total([i \in Installments |-> Owed(i)]))

Shares(amount) == {s \in [Installments -> 0 .. amount] : OldestFirst(s, amount)}

StatusOfLoan(total, amountPaid, otherwise) ==
    IF amountPaid >= total THEN "completed" ELSE otherwise

(* An ordinary repayment of amount a, allocated and counted.               *)
Allocate(p, a) ==
    /\ \E share \in Shares(a) :
         /\ allocation' = [allocation EXCEPT ![p] = share]
         /\ paid' = [i \in Installments |-> paid[i] + share[i]]
    /\ loan' = [loan EXCEPT !.paid = @ + a,
                            !.status = StatusOfLoan(loan.total, loan.paid + a, @)]
    /\ UNCHANGED waived

Allocated(p) == \E i \in Installments : allocation[p][i] > 0

AllocateOnce(p) ==
    IF Allocated(p) THEN UNCHANGED <<loan, paid, waived, allocation>>
                    ELSE Allocate(p, payment[p].amount)

(* The loan is the one the quote was made for.                             *)
StillAsQuoted(q) == loan.paid = quote[q].was.paid

(* Mutant: the contract's total is kept.                                   *)
CloseAt_KeepsTotal(q) ==
    /\ waived' = waived \cup {i \in Installments : paid[i] < Due[i]}
    /\ loan' = [loan EXCEPT !.status = "completed", !.paid = quote[q].revised]
    /\ UNCHANGED <<paid, allocation>>

(* The loan closes at the rebated total.                                   *)
CloseAt(q) ==
    /\ waived' = waived \cup {i \in Installments : paid[i] < Due[i]}
    /\ loan' = [status |-> "completed", total |-> quote[q].revised, paid |-> quote[q].revised]
    /\ UNCHANGED <<paid, allocation>>

SetQuote(q, status) == quote' = [quote EXCEPT ![q].status = status]
SetPayment(p, status) == payment' = [payment EXCEPT ![p].status = status]
SetStage(p, stage) == request' = [request EXCEPT ![p].stage = stage]

-----------------------------------------------------------------------------
(* Quotes.                                                                 *)

(* quote_early_settlement: an older open quote expires; the loan must      *)
(* reconcile with its successful repayments; the snapshot is kept.         *)
MakeQuote(q, r) ==
    /\ quote[q].status = "absent"
    /\ \A o \in Quotes : o < q => quote[o].status # "absent"
    /\ loan.status = "active"
    /\ NoSettlementInProgress
    /\ Received = loan.paid
    /\ quote' = [o \in Quotes |->
          IF o = q THEN [status |-> "quoted", revised |-> r,
                         was |-> [total |-> loan.total, paid |-> loan.paid,
                                  inst |-> paid, waived |-> waived]]
          ELSE IF quote[o].status = "quoted" THEN [quote[o] EXCEPT !.status = "expired"]
          ELSE quote[o]]
    /\ UNCHANGED <<loan, paid, waived, payment, allocation, booked, request, gateway,
                   dayOpen, upset>>

-----------------------------------------------------------------------------
(* Finalization: what a confirmed success does.  Each branch is a          *)
(* transaction of its own, and one that must raise is not enabled.         *)

(* record_payment_treasury_entry: a new entry needs an open day.           *)
CanBook(p) == dayOpen \/ p \in booked

(* A success that was settled, or posted, before changes nothing more.     *)
AlreadyDone(p) ==
    IF payment[p].link \in Quotes THEN quote[payment[p].link].status = "settled"
                                  ELSE payment[p].status = "succeeded"

(* Mutant: the loan is not compared with the quote.                        *)
Settle_AnyLoan(p, q) ==
    /\ CloseAt(q)
    /\ SetQuote(q, "settled")
    /\ booked' = booked \cup {p}

(* Mutant: only a quote that is still processing can be settled.           *)
Settle_OnlyProcessing(p, q) ==
    /\ StillAsQuoted(q) /\ quote[q].status = "processing"
    /\ CloseAt(q)
    /\ SetQuote(q, "settled")
    /\ booked' = booked \cup {p}

(* finalize_early_settlement_payment, once the quote is found not settled. *)
Settle(p, q) ==
    /\ StillAsQuoted(q)
    /\ CloseAt(q)
    /\ SetQuote(q, "settled")
    /\ booked' = booked \cup {p}

Repaid(p) ==
    /\ AllocateOnce(p)
    /\ booked' = booked \cup {p}
    /\ UNCHANGED quote

(* Mutant: the settlement's payment is posted like any other.              *)
Finalize_AsRepayment(p) ==
    /\ SetPayment(p, "succeeded")
    /\ \/ payment[p].status = "succeeded" /\ UNCHANGED ledgerButPayment
       \/ payment[p].status # "succeeded" /\ CanBook(p) /\ Repaid(p)
    /\ UNCHANGED upset

(* finalize_gateway_payment.                                               *)
Finalize(p) ==
    /\ SetPayment(p, "succeeded")
    /\ \/ /\ AlreadyDone(p)
          /\ UNCHANGED <<ledgerButPayment, upset>>
       \/ /\ ~AlreadyDone(p)
          /\ CanBook(p)
          /\ payment[p].link \in Quotes
          /\ Settle(p, payment[p].link)
          /\ UNCHANGED upset
       \/ /\ ~AlreadyDone(p)
          /\ CanBook(p)
          /\ payment[p].link = NoQuote
          /\ Repaid(p)
          /\ upset' = upset \cup (IF SettlesBy(p) THEN {"unlinked settlement"} ELSE {})
                            \cup (IF loan.status = "completed" THEN {"late repayment"} ELSE {})

-----------------------------------------------------------------------------
(* Ordinary repayments of the loan.                                        *)

NewPayment(p, a, status, link, cash) ==
    payment' = [payment EXCEPT ![p] =
        [status |-> status, amount |-> a, link |-> link, cash |-> cash]]
NewRequest(p, stage, door, q) ==
    request' = [request EXCEPT ![p] = [stage |-> stage, door |-> door, quote |-> q]]

(* A new payment is the next in number.                                    *)
NextInNumber(p) ==
    /\ request[p].stage = "none"
    /\ \A o \in Payments : o < p => request[o].stage # "none"

(* What a repayment or debit of the tender a would apply.                  *)
Applied(a) == Least(a, Balance)

(* record_cash_repayment in cash: guarded, posted, one transaction.        *)
RepayInCash(p, a) ==
    /\ NextInNumber(p)
    /\ loan.status = "active" /\ Balance > 0
    /\ ~NeedsQuote(Applied(a))
    /\ NoSettlementInProgress
    /\ dayOpen
    /\ NewPayment(p, Applied(a), "succeeded", NoQuote, TRUE)
    /\ NewRequest(p, "done", "collection", NoQuote)
    /\ Allocate(p, Applied(a))
    /\ booked' = booked \cup {p}
    /\ UNCHANGED <<quote, gateway, dayOpen, upset>>

(* The row of a gateway repayment, committed before the gateway is called. *)
AskGateway(p, a, door) ==
    /\ NextInNumber(p)
    /\ loan.status = "active" /\ Balance > 0
    /\ NewPayment(p, Applied(a), "processing", NoQuote, FALSE)
    /\ NewRequest(p, "calling", door, NoQuote)
    /\ UNCHANGED <<loan, paid, waived, quote, allocation, booked, gateway, dayOpen, upset>>

(* A repayment by a branch user (record_cash_repayment) or by the borrower *)
(* (create_borrower_checkout, which does not ask for a settlement in       *)
(* progress, and so is the weaker guard of the two).                       *)
Collect(p, a) ==
    /\ ~NeedsQuote(Applied(a))
    /\ AskGateway(p, a, "collection")

(* run_due_mandate_collections: neither guard is asked.                    *)
Debit(p, a) == AskGateway(p, a, "debit")

-----------------------------------------------------------------------------
(* Settlement requests.                                                    *)

Payable(q) == quote[q].status = "quoted" /\ Amount(q) > 0 /\ StillAsQuoted(q)

(* The router reads the quote and the loan; the row it locks afterwards is *)
(* not read again, so this view is what the guards are evaluated on.       *)
LoadQuote(p, q, door) ==
    /\ NextInNumber(p)
    /\ Payable(q)
    /\ NewRequest(p, "loaded", door, q)
    /\ UNCHANGED <<loan, paid, waived, quote, payment, allocation, booked, gateway,
                   dayOpen, upset>>

(* The guards passed: the quote is committed as processing.                *)
StartSettlement(p) ==
    /\ request[p].stage = "loaded"
    /\ SetQuote(request[p].quote, "processing")
    /\ SetStage(p, "started")
    /\ Noting("stale request", ~Payable(request[p].quote))
    /\ \A o \in Quotes \ {request[p].quote} : quote[o].status \notin {"quoted", "processing"}
    /\ UNCHANGED <<loan, paid, waived, payment, allocation, booked, gateway, dayOpen>>

(* The quote had run out when the request locked it.                       *)
FindExpired(p) ==
    /\ request[p].stage = "loaded"
    /\ SetQuote(request[p].quote, "expired")
    /\ SetStage(p, "done")
    /\ Noting("stale request", ~Payable(request[p].quote))
    /\ UNCHANGED <<loan, paid, waived, payment, allocation, booked, gateway, dayOpen>>

(* Cash over the counter: paid and posted in one transaction.              *)
SettleInCash(p) ==
    /\ request[p].stage = "started" /\ request[p].door = "counter"
    /\ NewPayment(p, Amount(request[p].quote), "succeeded", request[p].quote, TRUE)
    /\ SetStage(p, "done")
    /\ IF quote[request[p].quote].status = "settled"
       THEN UNCHANGED ledgerButPayment
       ELSE dayOpen /\ Settle(p, request[p].quote)
    /\ UNCHANGED <<gateway, dayOpen, upset>>

(* The payment row, committed before the gateway is called.  A branch      *)
(* payment names its quote from the start; a hosted checkout does not yet. *)
RecordIntent(p) ==
    /\ request[p].stage = "started" /\ request[p].door \in {"branch", "checkout"}
    /\ NewPayment(p, Amount(request[p].quote), "processing",
                  IF request[p].door = "branch" THEN request[p].quote ELSE NoQuote, FALSE)
    /\ SetStage(p, "calling")
    /\ UNCHANGED <<loan, paid, waived, quote, allocation, booked, gateway, dayOpen, upset>>

(* The request marks its quote failed, whatever the quote is by then.     *)
FailQuote(p) ==
    /\ IF SettlesBy(p) THEN SetQuote(request[p].quote, "failed") ELSE UNCHANGED quote
    /\ Noting("lost settlement", SettlesBy(p) /\ quote[request[p].quote].status = "settled")

(* No gateway, no method, no phone: the request fails, and so the quote.   *)
IntentUnavailable(p) ==
    /\ request[p].stage = "started" /\ request[p].door \in {"branch", "checkout"}
    /\ FailQuote(p)
    /\ SetStage(p, "done")
    /\ UNCHANGED <<loan, paid, waived, payment, allocation, booked, gateway, dayOpen>>

(* The request, or its process, stops here; what was committed stays.  A   *)
(* request that must raise ends the same way: cash on a closed day, a      *)
(* collection whose immediate success cannot be posted.                    *)
Crash(p) ==
    /\ request[p].stage \in {"loaded", "started", "calling", "opened", "linked"}
    /\ SetStage(p, IF request[p].door = "debit" THEN "lost" ELSE "done")
    /\ UNCHANGED <<ledgerVars, gateway, dayOpen, upset>>

-----------------------------------------------------------------------------
(* The gateway's answer to the creating call, applied by the request.      *)

AnswerPending(p) ==
    /\ request[p].stage = "calling" /\ gateway[p] # "none"
    /\ SetStage(p, IF request[p].door = "checkout" THEN "opened" ELSE "done")
    /\ UNCHANGED <<ledgerVars, gateway, dayOpen, upset>>

(* The payment failed at once, or the gateway refused it.                  *)
AnswerFailed(p) ==
    /\ request[p].stage = "calling"
    /\ \/ gateway[p] = "failed" /\ request[p].door # "checkout"
       \/ gateway[p] = "none"
    /\ SetPayment(p, "failed")
    /\ FailQuote(p)
    /\ SetStage(p, IF request[p].door = "debit" /\ gateway[p] = "none" THEN "lost" ELSE "done")
    /\ UNCHANGED <<loanVars, allocation, booked, gateway, dayOpen>>

(* The answer was lost (a retryable error): the branch keeps waiting for   *)
(* the payment, the checkout gives its quote up, the debit has no id.      *)
AnswerLost(p) ==
    /\ request[p].stage = "calling"
    /\ IF request[p].door = "checkout" THEN FailQuote(p) ELSE UNCHANGED <<quote, upset>>
    /\ SetStage(p, IF request[p].door = "debit" THEN "lost" ELSE "done")
    /\ UNCHANGED <<loanVars, payment, allocation, booked, gateway, dayOpen>>

(* The answer carried no usable id or address.                             *)
AnswerUnusable(p) ==
    /\ request[p].stage = "calling" /\ gateway[p] # "none"
    /\ FailQuote(p)
    /\ IF request[p].door \in {"checkout", "debit"} THEN SetPayment(p, "failed") ELSE UNCHANGED payment
    /\ SetStage(p, IF request[p].door = "debit" THEN "lost" ELSE "done")
    /\ UNCHANGED <<loanVars, allocation, booked, gateway, dayOpen>>

(* The payment succeeded at once.                                          *)
AnswerSucceeded(p) ==
    /\ request[p].stage = "calling" /\ gateway[p] = "succeeded"
    /\ request[p].door # "checkout"
    /\ Finalize(p)
    /\ SetStage(p, "done")
    /\ UNCHANGED <<gateway, dayOpen>>

(* It succeeded at once and finalization raised: the handler for the       *)
(* refusal marks the quote (or the debit) failed and commits the session,  *)
(* with what finalization had changed before it raised.                    *)
AnswerTorn(p) ==
    /\ request[p].stage = "calling" /\ gateway[p] = "succeeded"
    /\ ~AlreadyDone(p)
    /\ SetStage(p, "done")
    /\ upset' = upset \cup {"torn commit"}
    /\ \/ /\ request[p].door = "debit" /\ ~CanBook(p)
          /\ AllocateOnce(p)
          /\ SetPayment(p, "failed")
          /\ UNCHANGED quote
       \/ /\ request[p].door = "branch"
          /\ SetPayment(p, "succeeded")
          /\ SetQuote(request[p].quote, "failed")
          /\ \/ ~StillAsQuoted(request[p].quote) /\ UNCHANGED <<loanVars, allocation>>
             \/ StillAsQuoted(request[p].quote) /\ ~CanBook(p) /\ CloseAt(request[p].quote)
    /\ UNCHANGED <<booked, gateway, dayOpen>>

(* The hosted checkout is open: the payment is linked to its quote.        *)
LinkCheckout(p) ==
    /\ request[p].stage = "opened"
    /\ payment' = [payment EXCEPT ![p].link = request[p].quote]
    /\ SetStage(p, IF payment[p].status = "succeeded" THEN "linked" ELSE "done")
    /\ UNCHANGED <<loanVars, quote, allocation, booked, gateway, dayOpen, upset>>

(* A checkout that was paid before it was linked is finalized at once.     *)
FinishCheckout(p) ==
    /\ request[p].stage = "linked" /\ payment[p].status = "succeeded"
    /\ Finalize(p)
    /\ SetStage(p, "done")
    /\ UNCHANGED <<gateway, dayOpen>>

-----------------------------------------------------------------------------
(* Notifications: apply_gateway_resource, one transaction.                 *)

(* Mutant: the settlement is undone to a loan with nothing paid.           *)
RestoreQuoted_Blank(q) ==
    /\ loan' = [status |-> "active", total |-> quote[q].was.total, paid |-> 0]
    /\ paid' = [i \in Installments |-> 0]
    /\ waived' = quote[q].was.waived
    /\ SetQuote(q, "reversed")
    /\ UNCHANGED allocation

(* Mutant: the waived installments stay waived.                            *)
RestoreQuoted_StaysWaived(q) ==
    /\ loan' = [status |-> "active", total |-> quote[q].was.total, paid |-> quote[q].was.paid]
    /\ paid' = quote[q].was.inst
    /\ SetQuote(q, "reversed")
    /\ UNCHANGED <<allocation, waived>>

(* reverse_early_settlement: the loan becomes the one that was quoted.     *)
RestoreQuoted(q) ==
    /\ loan' = [status |-> "active", total |-> quote[q].was.total, paid |-> quote[q].was.paid]
    /\ paid' = quote[q].was.inst
    /\ waived' = quote[q].was.waived
    /\ SetQuote(q, "reversed")
    /\ UNCHANGED allocation

(* Mutant: the installments are reversed, the loan is forgotten.           *)
Unallocate_InstallmentsOnly(p) ==
    /\ \A i \in Installments : allocation[p][i] > 0 => i \notin waived
    /\ paid' = [i \in Installments |-> Monus(paid[i], allocation[p][i])]
    /\ UNCHANGED <<loan, waived, quote, allocation>>

(* The reversal of an ordinary repayment; refused when a settlement waived *)
(* what is left of an installment it was allocated to.                     *)
Unallocate(p) ==
    /\ \A i \in Installments : allocation[p][i] > 0 => i \notin waived
    /\ paid' = [i \in Installments |-> Monus(paid[i], allocation[p][i])]
    /\ LET left == Monus(loan.paid, payment[p].amount)
       IN  loan' = [loan EXCEPT !.paid = left,
                       !.status = IF left < loan.total THEN "active" ELSE @]
    /\ UNCHANGED <<waived, quote, allocation>>

(* A successful settlement payment stands beside this one.                 *)
BesideSettlement(p) ==
    \E o \in Payments \ {p} : payment[o].status = "succeeded" /\ payment[o].link \in Quotes

(* Mutant: the settlement is not looked for.                               *)
Reverse_AsRepayment(p) ==
    /\ SetPayment(p, "reversed")
    /\ Unallocate(p) /\ Noting("old reversal", BesideSettlement(p))
    /\ UNCHANGED booked

(* reverse_loan_payment.                                                   *)
Reverse(p) ==
    /\ SetPayment(p, "reversed")
    /\ IF payment[p].link \in Quotes /\ quote[payment[p].link].status = "settled"
       THEN RestoreQuoted(payment[p].link) /\ UNCHANGED upset
       ELSE Unallocate(p) /\ Noting("old reversal", BesideSettlement(p))
    /\ UNCHANGED booked

(* A debit is matched by the gateway's id, which a lost answer never gave; *)
(* the other payments are matched by their own id in the metadata.         *)
Matched(p) ==
    /\ payment[p].status # "absent" /\ gateway[p] # "none"
    /\ request[p].door = "debit" => request[p].stage = "done"

NotifySuccess(p) ==
    /\ Matched(p) /\ gateway[p] = "succeeded"
    /\ payment[p].status # "reversed"
    /\ Finalize(p)
    /\ UNCHANGED <<request, gateway, dayOpen>>

NotifyReversal(p) ==
    /\ Matched(p) /\ gateway[p] = "reversed" /\ payment[p].status = "succeeded"
    /\ Reverse(p)
    /\ UNCHANGED <<request, gateway, dayOpen>>

(* A status that moves no money; a failure fails the quote it pays.        *)
NotifyStatus(p) ==
    /\ Matched(p) /\ gateway[p] # "succeeded" /\ payment[p].status # "succeeded"
    /\ SetPayment(p, gateway[p])
    /\ IF /\ gateway[p] = "failed" /\ payment[p].link \in Quotes
          /\ quote[payment[p].link].status = "processing"
       THEN SetQuote(payment[p].link, "failed")
       ELSE UNCHANGED quote
    /\ UNCHANGED <<loanVars, allocation, booked, request, gateway, dayOpen, upset>>

(* A cash payment is reversed by an approved adjustment.                   *)
ReverseCash(p) ==
    /\ payment[p].cash /\ payment[p].status = "succeeded"
    /\ Reverse(p)
    /\ UNCHANGED <<request, gateway, dayOpen>>

-----------------------------------------------------------------------------
(* External: the gateway and the branch's treasury day.                    *)

GatewayTakes(p) ==
    /\ request[p].stage = "calling" /\ gateway[p] = "none"
    /\ gateway' = [gateway EXCEPT ![p] = "processing"]
    /\ UNCHANGED <<ledgerVars, request, dayOpen, upset>>

GatewayMoves(p) ==
    /\ \E s \in {"succeeded", "failed", "reversed"} :
         /\ gateway[p] = (IF s = "reversed" THEN "succeeded" ELSE "processing")
         /\ gateway' = [gateway EXCEPT ![p] = s]
    /\ UNCHANGED <<ledgerVars, request, dayOpen, upset>>

(* A person submits the day (ensure_current_payment_day_writable reopens   *)
(* only what the scheduler submitted) and the payments of the day stop.    *)
SubmitDay ==
    /\ dayOpen /\ dayOpen' = FALSE
    /\ UNCHANGED <<ledgerVars, request, gateway, upset>>

(* The day is reopened, or the next day's ledger is opened.                *)
OpenDay ==
    /\ ~dayOpen /\ dayOpen' = TRUE
    /\ UNCHANGED <<ledgerVars, request, gateway, upset>>

RequestStep(p) ==
    \/ \E a \in Tenders : RepayInCash(p, a) \/ Collect(p, a) \/ Debit(p, a)
    \/ \E q \in Quotes, door \in {"branch", "checkout", "counter"} : LoadQuote(p, q, door)
    \/ StartSettlement(p) \/ FindExpired(p) \/ SettleInCash(p)
    \/ RecordIntent(p) \/ IntentUnavailable(p) \/ Crash(p)
    \/ AnswerPending(p) \/ AnswerFailed(p) \/ AnswerLost(p) \/ AnswerUnusable(p)
    \/ AnswerSucceeded(p) \/ AnswerTorn(p)
    \/ LinkCheckout(p) \/ FinishCheckout(p)

Notify(p) == NotifySuccess(p) \/ NotifyReversal(p) \/ NotifyStatus(p)

Next ==
    \/ \E q \in Quotes, r \in Revised : MakeQuote(q, r)
    \/ \E p \in Payments : RequestStep(p) \/ Notify(p) \/ ReverseCash(p)
                            \/ GatewayTakes(p) \/ GatewayMoves(p)
    \/ SubmitDay \/ OpenDay

Spec == Init /\ [][Next]_vars

(* The gateway repeats a notification until it is accepted, and every day  *)
(* that was closed is followed by one that opens.                          *)
FairSpec ==
    /\ Spec
    /\ \A p \in Payments : SF_vars(NotifySuccess(p))
    /\ WF_vars(OpenDay)

-----------------------------------------------------------------------------
(* Properties.                                                             *)

PaidBy(q) == {p \in Payments : payment[p].link = q /\ payment[p].status = "succeeded"}

(* The one number a settlement is compared by (amount_paid) is the same    *)
(* for two quotes: what one makes of the loan, the other was made for.     *)
SameSums ==
    \E q, o \in Quotes :
        /\ q # o /\ quote[q].status # "absent" /\ quote[o].status # "absent"
        /\ quote[q].revised = quote[o].was.paid

(* A loan is settled once, also when a quote given up as failed or expired *)
(* is paid after all, at another total, beside the quote that replaced it. *)
OneSettlement ==
    upset \cap {"torn commit", "late repayment", "old reversal"} = {} /\ ~SameSums
    => Cardinality(SettledQuotes) <= 1

(* What the refusal in finalize_early_settlement_payment says ("The loan   *)
(* changed after this quote; create a new early-settlement quote"): a loan *)
(* that another quote has closed is settled by no quote made before.       *)
ChangedLoanIsRefused ==
    [][upset \cap {"torn commit", "late repayment", "old reversal"} = {}
       => \A q \in Quotes : quote[q].status # "settled" /\ quote'[q].status = "settled"
            => SettledQuotes \subseteq {q}]_vars

(* A quote stays settled only as long as a payment for it stands: every    *)
(* reversal that takes the last one away takes the settlement with it.     *)
SettledIsPaid == \A q \in SettledQuotes : PaidBy(q) # {}

(* The loan credits no money that is not a standing successful payment,    *)
(* whatever settlements, reversals and repayments came in between.         *)
CreditIsReceived ==
    /\ upset \cap {"torn commit", "unlinked settlement", "late repayment", "old reversal"} = {}
    /\ ~SameSums
    => loan.paid <= Received

(* Nor is a successful payment left without credit on the loan (what a     *)
(* rebate later cuts off is never cut below what was received).            *)
ReceivedIsCredited ==
    /\ upset \cap {"stale request", "torn commit", "late repayment", "old reversal"} = {}
    /\ ~SameSums
    => Received <= loan.paid

(* While a settlement stands the loan is closed at exactly the quoted sum, *)
(* also when reversals, repayments and debits arrive under it.             *)
ClosedAtTheQuote ==
    upset \cap {"torn commit", "late repayment", "old reversal"} = {} /\ ~SameSums
    => \A q \in SettledQuotes :
         loan = [status |-> "completed", total |-> quote[q].revised, paid |-> quote[q].revised]

(* Interest is rebated, and installments are waived, only while a          *)
(* settlement stands: undoing it restores the whole contract.              *)
RebateIsSettled ==
    upset \cap {"stale request", "torn commit", "lost settlement", "old reversal"} = {}
    => (loan.total < Contract \/ waived # {} => SettledQuotes # {})

(* A successful payment that names a quote has settled that quote: the     *)
(* borrower who paid a quote is never left with an open loan.              *)
SuccessSettles ==
    upset \cap {"stale request", "torn commit", "unlinked settlement", "lost settlement"} = {}
    => \A q \in Quotes : PaidBy(q) # {} => quote[q].status = "settled"

(* A payment whose money the gateway holds for a quote that still fits     *)
(* the loan, and that has not settled it.                                  *)
OwedASettlement(p) ==
    /\ payment[p].link \in Quotes /\ gateway[p] = "succeeded"
    /\ quote[payment[p].link].status # "settled" /\ StillAsQuoted(payment[p].link)

(* Money that the gateway collected for a quote settles the loan in the    *)
(* end, unless the loan changed after the quote or the money went back.    *)
SettlementMoneyIsPosted == \A p \in Payments : OwedASettlement(p) ~> ~OwedASettlement(p)
=============================================================================
