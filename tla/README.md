# LoanHub: specification and verification of its money-moving core

TLA+ modules of LoanHub's backend, TLC configurations that model-check them on
small instances, and TLAPS proofs of what must hold for every instance. Paths
are relative to `apps/backend/` unless they start with `services/worker-go`.

Run, in this directory: `tlc -config LoanPaymentsOrderly.cfg MCLoanPayments`
(and so on for every configuration below), `tlapm LoanPayments_proofs.tla`.

## 1. The system

LoanHub is a multi-company lending platform: a FastAPI backend over PostgreSQL
(SQLAlchemy sessions, one per request, READ COMMITTED, no autoflush), scheduler
tasks inside every backend process, a Go worker for outgoing HTTP, Java, Rust
and C++ workers for computations, and web and mobile clients. The parts that
keep state which several actors change:

| Part | State | Operations | What makes it correct |
|---|---|---|---|
| Loan payment ledger, `services/loan_service.py` | loan (status, amount_paid, balance), installments (paid_amount, status), payments, allocations | disburse, repay, allocate, reverse | loan and schedule equal the sum of standing repayments; closed only when paid; paid out once; early payoff needs a quote |
| Gateway, `services/lelefa_paygate_service.py` | payment status, webhook events processed | create at the gateway, apply answer, refresh, webhook | success only when money moved; posted once; a reversal is final; every success is posted in the end |
| Adjustments, `services/governance_control_service.py` | payment_adjustments, approvals | request, approve, reject, confirm, complete | maker differs from checker; one active adjustment; it ends when its payment is undone |
| Last cash repayment reversal, `services/loan_last_payment_reversal.py` | payment, treasury entry | reverse the latest | once; only the latest |
| Accounting, `services/accounting_service.py` | journals per scope, periods | post, reverse, close a period | a payment's journal follows its status; nothing enters a closed period |
| Treasury, `services/treasury_service.py` | branch day ledgers, entries, funding | post, void, submit, reopen | a day's totals equal its entries; a submitted day does not change |
| Early settlement, `services/early_settlement_service.py` | quotes | quote, pay, finalize, reverse | a quote is settled at the amounts it quoted, or not at all |
| Mandates, `services/loan_payment_operations_service.py` | online mandates | charge due debits | one debit per due date |
| Webhook outbox, `services/webhook_outbox_service.py`, `webhook_outbox_scheduler.py`, `services/worker-go/main.go` | outbox events, attempts | enqueue, claim, deliver, record, replay | every event settles; no duplicate without a cause |
| CDAS (payroll deductions), `services/cdas_*.py` | provider operations, headroom allocations, shared session, daily budget | submit, acknowledge, reconcile, reserve, log in | at most one unresolved write per fingerprint; headroom never allocated twice; budget never exceeded |
| Rollover and maturity renewal, `services/*rollover*.py`, `maturity_renewal_service.py` | transfers, child loans, compensations | post, decide, reverse | receivable moved once |
| Signing codes and login, `contract_email_otp_service.py`, `mfa_service.py` | code sessions, failure counters | request, verify, lock | a code is used once, attempts are limited |

How they interact. A gateway event or answer finalizes a payment: in one
transaction the loan and schedule are credited, the journal and the treasury
entry are posted and an outbox event is enqueued. A reversal (by the provider,
by a checked adjustment, or by the last-payment reversal) undoes them, also in
one transaction. Only the outbox scheduler sends events, later. Some of the steps
that concern a loan's balance mark the loan for the CDAS autopilot, whose workers
call the payroll provider over a session that all processes share in Redis. But for that client, requests
share nothing in memory; they meet in database rows, some locked, most not.

What is hard here: requests that overlap with their rows read before a lock or
before an HTTP call and used after it; gateway events that are repeated,
delayed or reordered; a crash between a commit and an HTTP answer, or between
an HTTP answer and a commit; advisory locks and leases that end before the work
they guard; days that are closed while something is still to be posted. `PROJECT.json` lists the hazards with their lines
and the properties that watch each of them.

## 2. Modules

| Module | Models | Grain |
|---|---|---|
| `LoanPayments` | the ledger, gateway service, adjustments and last-payment reversal, for one loan | one action per transaction; a request that calls the gateway is split at its commits and at the answer |
| `LoanSessions` | disbursement, cash repayment and reversal of one loan by concurrent sessions | load, check, flush and commit; the locked part of a request is one step |
| `EarlySettlement` | settlement quotes beside repayments, mandate debits, reversals and the treasury day | one action per commit of the settling request; everything else one transaction |
| `TreasuryDay` | the days of one branch | one action per operation, and one slow transaction that others overtake |
| `CdasOperations` | the ledger of writes to the payroll provider | one action per commit, answer and read |
| `CdasAutopilot` | the workers that use that ledger; EXTENDS `CdasOperations` and implements it | one action per commit; the ledger's actions are conjoined |
| `CdasSession` | the shared provider session, its login lock and the daily allowance | from one await to the next |
| `WebhookOutbox` | outbox, schedulers, Python and Go delivery | claim, each HTTP request, Go's answer, commit |
| `EventDelivery` | what the outbox promises per event | abstract; `WebhookOutbox` implements it |
| `MC*` | instances for TLC: schedules, keys, amounts, symmetry | |
| `FiniteSums_proofs` | sums over finite sets, as `Functions` defines them | lemmas for the modules below |
| `*_proofs` | theorems about the module of that name; `CdasAutopilot_proofs` also those about `CdasOperations` | |

How they fit together. `LoanPayments` and `LoanSessions` describe the same
handlers at two grains: the first has all of a payment's life but treats a
transaction as atomic, the second opens three transactions and shows what
atomicity hides. `EarlySettlement` is the same loan with quotes; there a
notification carries the gateway's current state, because old notifications are
the subject of `LoanPayments`. A loan posts to the branch's day: `EarlySettlement`
knows only whether the day accepts payments (`dayOpen`), `TreasuryDay` has the
day and takes payments as rows. A loan's balance changes under `CdasAutopilot`
(its action `Payment`: with a mark, without one, or a mark alone), whose provider
calls go through `CdasSession`: to the autopilot the session is a call that is answered, refused
or lost. An outbox event is enqueued in the transaction that changes a payment,
so `WebhookOutbox` meets the others in `Enqueue` alone.

Histories and excuses. `EarlySettlement` and `CdasAutopilot` keep a history
variable `upset`, the set of named turns a behaviour has taken (each is defined
beside the variable), and `TreasuryDay` and `CdasSession` keep `late`, `raced`
and `overtaken`. No action reads them. A property that the code keeps only in
behaviours without some of these turns says so in its antecedent, so the
excuses of a property are the exact places where the code gives it up, and
every other interleaving, crash or reordering is covered.

### LoanPayments

State and code: `loan` is the row of `client_company_loan`, `paid` the
`paid_amount` of its installments, `payment` the rows of `payment_transactions`,
`allocation` those of `payment_allocations` (0: no row), `journal` and
`treasury` say whether the payment's journal and treasury entry exist and are
reversed or voided, `adjustment` is `payment_adjustments`, `recorded` the events
in `lelefapaygate_webhook_events`. `call` and `refresh` are requests waiting for
the gateway, with the payment status they loaded before (`view`): SQLAlchemy
keeps that loaded status for the rest of the request. `gateway` and `sent`
belong to the gateway, which is outside the repository and modelled from how it
is called: it may accept, answer at once, refuse, or accept with the answer
lost; it moves its resource on and sends an event for every state.

`ApplyGatewayResource` is `apply_gateway_resource`, branch by branch, with the
loaded status as an argument because a webhook has it fresh and a refresh has it
stale. Two constants choose the environment: `StaleEvents` lets an event arrive
after its resource moved on, `Overlap` lets a payment change while a request
about it waits. Everything else is unconstrained.

Abstractions. "active" stands for ACTIVE and DEFAULTED, "failed" for FAILED and
CANCELLED, "processing" for PENDING and PROCESSING. An installment's status is
its paid amount against its due amount. An idempotency key is the payment's
name: a repeated key returns the existing row, which changes nothing. A repeated
webhook event changes nothing either, so it is a stutter. "refund" is an
adjustment handled like "reversal". A refusal by a closed period or day rolls
the whole transaction back, so it is the action that is not taken. The time of
day is left out: of one day's payments any may be the latest, and an open
`completed_at` sorts above every date as PostgreSQL sorts NULL. The mismatch of
an event's amount or currency, which rejects the event, is left out. The loan
has no top-up, restructure or rollover; quotes and direct debits are in
`EarlySettlement`.

### LoanSessions

A session's `view` is its identity map after `loan_or_404` (`routers/loans.py`):
later queries filter and order by the database's current rows but return the
objects already loaded, with the attributes they had. A commit writes the
columns whose value differs from the loaded one (`Written`). A `with_for_update`
query locks the row but, without `populate_existing`, refreshes nothing. An
uncommitted payment insert holds a share lock on its loan row through the
foreign key, and the unique `idempotency_key` makes a second insert wait and
then fail. The locked part of a disbursement or reversal is one step because
every other session can meanwhile only load and check, which commutes with it.

### EarlySettlement

A quote (a row of the early settlements' table) rebates the interest of
installments in `Future`; `Revised` holds what the total may become, one value
per possible rebate, because interest arithmetic is abstracted: the rebate depends on
the settlement date the borrower asks for, so two quotes may be over different totals.
Quotes and payments are numbered in the order they are made, which costs nothing and
spares TLC the permutations. The request that
pays a quote has a `door`: cash over the counter, a branch's payment through the
gateway, or a borrower's hosted checkout. It loads the quote (`LoadQuote`),
commits it as processing (`StartSettlement`), commits the payment
(`RecordIntent`), calls the gateway, commits the answer and, for a checkout,
commits the link from payment to quote (`LinkCheckout`) and, if the payment
succeeded meanwhile, settles at once (`FinishCheckout`; the checkout's own first
answer is an open session, which nobody can have paid yet); `request` is where it
stands, and it may crash at any of these places. `RepayInCash` and `Collect` are
ordinary repayments in cash and through the gateway, `Debit` a mandate debit.
`Settle` and the reversal to the snapshot (`Reverse`) are whole transactions; an
answer whose posting fails is committed in part (`AnswerTorn`, "torn commit").

Abstractions: the future installments stay in the future for a behaviour; historical settlements that book in the past are left out.

### TreasuryDay

`day`, `carried`, `snap` and `row` are the branch's ledgers, PREVIOUS_CLOSING
sources, latest submissions and entries or sources; `journal` is which rows have
a posted journal. The sums of a day are computed from the rows as
`recalculate_daily_ledger` does, and a correction in the past rewrites the chain
of later days (`Chain`). No code locks these rows, so beside the atomic
operations one transaction at a time may be slow (`slow`): it loads and checks,
others commit, and it writes only the columns it changed from what it had
loaded (`Changed`). `raced` names the days such a transaction wrote after it had
been overtaken, `late` the days that were carried forward before an earlier day
closed. A physical count is missing or one short of what is expected. Of a day that
is still open the code's totals may lag behind: several operations sum the rows
before the session has flushed the one they change (autoflush is off), and the next
recalculation, at the latest the submission's, makes good for it. The model shows the
totals as the next recalculation leaves them; no property looks at an open day's.

### CdasOperations and CdasAutopilot

`op` is `cdas_provider_operations`, `wire` what became of the request outside,
`held` the provider's own terms, and `view` the row's state that a reader loaded
before it asked the provider: three readers (the caller, the endpoint by
operation and the endpoint by loan) may hold different views of one row. The
partial unique index is `FingerprintFree`; a commit that violates it is
`SecondUnresolved`. The autopilot adds workers with advisory locks on their own
connections, allocation rows, the day's snapshot of the headroom, loan marks and
mandates. A worker's plan is what it loaded before it called the provider
(`sawMark`), and `End` writes that plan back. Who marks a loan: `initiate_payment`
in cash, which leaves the balance as it is (`InitiatePayment`), and the reversal of the last cash
repayment, which raises it (`ReverseLastPayment`); repayments at the desk and
through the gateway, and other reversals, change the balance only (`Repayment`), and the history
variable `unmarked` holds the loans that were left so. A lock may be lost while its worker waits
(`LoseLocks`), since a connection given back to the pool may be closed. The
decision's arithmetic is exact over small amounts; two terms
are compared as balance over amount, rounded up (`cdas_autopilot.py:189`; the term that is
sent, rounded down, is not modelled). A value of the day that a worker has cached is
used without the day's lock; it was committed before, so the lock would have had no
effect on it. A call that raises anything but a `CdasError` is a `Crash`. Registrations and stops use the same
ledger with other arguments and are left out, and so is a crash between the two
commits that end a step.

### CdasSession

A call is a coroutine; `call[k].stage` names the await it stands at. `holder` is
`_token_lock` of its process, `local` the client's session, `shared` and `lock`
the session and the login lock in Redis. Sessions are numbered by their login,
and a session's cookies carry that number, so a pair whose halves come from two
logins shows. Calls are made once each. Left out: a deployment without Redis,
the forced login of the connection check, a stored session that does not decode,
the status query of the budget, and Redis's own eight-hour expiry (the age limit
of the client is modelled).

### WebhookOutbox

A pass of a scheduler is one transaction: `Claim` locks the oldest due events
that no other pass holds, `Deliver` or `HandToGo`/`GoDelivers`/`GoAnswers` send
them, `Commit` records attempts. `GoUnknown` is the 35 second timeout of
`go_webhook_delivery_batch`, after which Go goes on (`stray`). `Crash` is a dead
process or failed commit. `excuse` is a history variable that counts, per event,
the occasions on which an acceptance went unrecorded or a replay was asked for.
Signing, canonical bodies, URL validation and endpoint statistics are left out;
an inactive endpoint or missing secret is an attempt that fails unsent.

## 3. Runs

| Run | Configuration | Checks | Shows |
|---|---|---|---|
| orderly | `LoanPaymentsOrderly` | `LedgerReconciles`, `BooksFollowPayments`, `AdjustmentsTrackPayments` | without stale events and overlap, loan, schedule, books and adjustments agree with the payments in every order of operations |
| delivery | `LoanPaymentsDelivery` | `SuccessMeansMoneyMoved`, `AllocatedOnce`, `GatewaySuccessIsPosted` | with stale events and overlap: success only for money that moved, allocated once; a gateway success is posted or reversed in the end, through crashes and lost answers |
| reversal | `LoanPaymentsReversal` | `ReversalIsFinal` violated | a stale "processing" event reopens a reversal |
| sessions_overlap | `LoanSessionsOverlap` | `TypeOK`, `ColumnsAgree`, `NeverOverallocated`, `ReversedOnce`, `OnePaymentPerKey`, `AloneLoanMatches` | what survives any interleaving of sessions, and what the code means as long as none overlap |
| stale_reversal | `LoanSessionsStaleReversal` | `ReversedIsNotCredited` violated | a repayment overwrites a reversal it did not see |
| outbox | `WebhookOutbox` | `DuplicatesAreExcused`, `SettledForAReason`, `KeepsPromise`, `EventsSettle` | duplicates have a cause; the outbox implements `EventDelivery`; every queued event settles |
| settlement | `EarlySettlement` | `OneSettlement`, `SettledIsPaid`, `CreditIsReceived`, `ReceivedIsCredited`, `ClosedAtTheQuote`, `RebateIsSettled`, `SuccessSettles`, `SettlementMoneyIsPosted` | a loan is settled once, by money received, at the quoted sum, and undone as a whole; collected settlement money is posted in the end |
| resettled | `EarlySettlementResettled` | `ChangedLoanIsRefused` violated | a loan that one quote closed is settled again by an earlier one, at another total |
| autopilot | `CdasAutopilot` | `RejectedIsNotApplied`, `ConfirmedWasApplied`, `HeadroomIsShared`, `MandateShowsDeduction`, `MarkIsServed`, `DoubtCanBeSettled` | what two workers, operators and a provider that loses answers leave true |
| silent | `CdasAutopilotSilent` | `NoSilentSchedule` violated | a repayment at the desk marks nothing, and the old deduction runs on |
| treasury | `TreasuryDay` | `TypeOK`, `LockedIsAsSubmitted`, `NothingLostOverNight`, `JournalsFollowRows`, `CountIsEvidence`, `PastDaysClose` | locked days are as submitted, money passes over night once, counts stay, past days close |
| session | `CdasSession` | `SentAsPromised`, `LoginsExclusive`, `WithinAllowance`, `WholeSession` | no write is replayed, logins exclude each other, the allowance holds, the shared pair is one login's |

The four violations are disagreements between what the code says (a comment, a
docstring, the reason it gives for a refusal) and what it does; `PROJECT.json` quotes the line of each and says how
it comes about. The type invariants of `LoanPayments`, `WebhookOutbox`,
`EarlySettlement`, `CdasAutopilot` and `CdasSession` are proved (section 4), so
no run spends time on them.

Bounds, and why they are enough.

- `LoanPayments`: two payments on a schedule of two installments (1 and 2 units)
  are the least with which a payment spills over, pays exactly, overpays or is
  reversed out of order, and with which two requests compete; one adjustment
  with two users separates maker from checker. `orderly` tenders 2 (spills over
  from the first installment). `delivery` needs one payment, as its three properties
  speak of one payment and events of different payments do not affect each other,
  and a due date a day later (`LastDay = 1`); two of the three are proved for any
  number of payments.
- `LoanSessions`: two disbursements, three repayments, two of them under one key,
  and two reversals: enough for a retry beside another repayment and for two
  reversals of one payment. Tenders 1 and 3 make a part payment and one that
  reaches the second installment. With three repayments under keys of their own
  and tenders 1 and 2 (too many states for a routine run) `overpaid` is reached: r1
  pays an installment of 2, a session that loaded the rows before pays 1 over a
  reversal of r1, and r3, whose tender fits its installment, takes `amount_paid`
  to 5 of 4. Two such instances, of 2.0 and 4.5 million states, were checked once;
  the theorems cover the rest.
- `WebhookOutbox`: two events and two schedulers, two attempts (a retry and a dead
  letter), batches of two and one crash or replay.
- `EarlySettlement`: two quotes and two payments (a quote given up beside its
  replacement, a settlement beside a repayment), two installments of 2 of which
  the second is rebated by 1 or 2, by the settlement date (totals 3 and 2), repayments
  of 2 (they pay one installment). The second settlement of one loan takes three
  payments: `resettled` has them, stops at the violation and checks nothing else.
  The invariants were checked with three payments once (12.3 million states, too many
  for a routine run).
- `CdasAutopilot`: two loans that share a headroom of 1 (only one can be raised),
  two workers, two writes, two days, and two events among payments, midnights,
  crashes, lost locks and operators' requests. `silent` has one write.
- `TreasuryDay`: two days, one row of each kind with amounts whose sums are all
  different; one row is entered, or a fund and a row of another kind, since the
  day's sums are linear in its rows; two acts among submissions, reopenings,
  corrections and slow transactions.
- `CdasSession`: two calls, a read and a write, in one process and a read in another:
  the least with contention inside and between processes; two header formats; an
  allowance of 5 that the three calls can exhaust; one expiry, crash or midnight.

Behaviours end when their payments, calls or events are used up, so deadlock is
not checked. Symmetry (payments, users, requests of one kind, loans, workers) is
used in runs that check safety only.

Fairness. `FairSpec` of `LoanPayments` assumes only that the gateway repeats an
event until it is processed: nothing obliges a user, a refresh or a crashed
request. `FairSpec` of `WebhookOutbox` assumes that a scheduler's pass goes on
and its loop starts another (`_run` catches every exception and waits a bounded
interval), that each HTTP call ends (all have timeouts), and that time passes;
nothing about endpoints. `FairSpec` of `EarlySettlement` assumes strongly that the
gateway's success notification for a payment, repeated while it is not accepted,
is processed, and weakly that a closed treasury day is followed by an open one;
strongly, because a day that is closed from time to time refuses the
notification then. `FairSpec` of `TreasuryDay` assumes weakly that the scheduler,
which wakes up every minute, submits what is due. Nothing is assumed fair in
`CdasSession`, `CdasOperations`, `CdasAutopilot` and `LoanSessions`.

Mutants. Each property of a passing run has a plausible bug of the code it
detects, written beside the definition it would replace
(for example `ReverseLoanPayment_LoanOnly`, `Claim_LockedToo`).

What the models showed besides. A chargeback of a cash repayment that was approved
stays under investigation for good when the desk reverses that repayment as the
latest one: the reversal looks at no adjustment, and the confirmation is refused from
then on, since the payment is no longer successful (`Overtaken`). A mark that is set
while a worker holds the plan it loaded before is lost when the worker writes that plan back
(`services/cdas_autopilot_worker.py:629`); `upset` notes it as "overwritten". Two repayments, each short of a payoff when it
was requested, close a loan early without a quote: the guard
(`services/loan_service.py:946`) is judged only then. An answer that arrives
after its client has changed sessions leaves the new token with the old cookies
in Redis, until the next refused request: without `late`, `WholeSession` does not
hold. A session may also go back to an older one by a late save, and a second
coroutine may log in although a fresh session is there.
A write that a payment's worker decided before a top-up may take effect
after it and take the raise back, while the mandate keeps the raise. The next day
another loan is given the headroom that seems free, and the next payment's write
restores the amount of the mandate, so that the two exceed the headroom. TLC finds
this with four writes and three events, more than the run `autopilot` has; the
attempt to prove `HeadroomIsShared` led there. `upset` notes it as "headroom".

## 4. Theorems

All are checked by TLAPS for every value of the constants; the assumptions are
the named ones in the modules (amounts are natural numbers, limits positive,
kinds of rows disjoint, payments, quotes, rows, calls and deductions finite sets). One
hypothesis is added by four theorems about `LoanPayments`, `Orderly`, and explained there.

- `FiniteSums_proofs`: what the community modules define a sum by, a fold, is shown
  to take out one summand at a time, in any order; from this follow
  the lemmas the others cite: a sum of naturals is a natural, it changes by what
  one summand changes by, joins over disjoint sets, and is monotonic. An
  induction over subsets is needed; it is done once, with the set of the
  subsets that are good and a smallest counterexample, as the library's induction
  theorems take an operator.
- `LoanPayments_proofs`: `TypeCorrect` proves `TypeOK`. The hazard in it is a
  subtraction below zero; `Monus` and the range of an allocation carry it.
  `SuccessAfterGateway` proves `SuccessMeansMoneyMoved` with stale events and
  overlap. It is not inductive: a payment becomes succeeded by an event, an
  answer or a refresh that started earlier. `MoneyInv` adds `Evidence` (each of
  these that says "succeeded" is about money that moved) and `CreatedOnce` (a
  payment without a row is unknown to the gateway, and an unanswered call has no
  resource yet), since creating a resource again would void the evidence.
  `NoInstallmentOverpaid` bounds every installment by what is due: `MovesPaid`
  says that a step leaves `paid` alone, adds an oldest-first share, or takes an
  allocation back. `RowsWrittenOnce` proves `AllocatedOnce`.
  `LedgerAddsUp`, `JournalsFollowPayments` and `AdjustmentsFollowPayments` prove the
  invariants of the run `orderly`, `ReversalsStand` that a reversal is final. They
  suppose an `Orderly` environment (`~StaleEvents /\ ~Overlap`), and need both: with
  either constant TRUE, TLC finds `LedgerReconciles` violated. What this hypothesis
  gives is `OrderlyInv`: the status that a waiting request has loaded is still the
  row's, and a payment reversed at the gateway is answered with "succeeded" or
  "reversed" only. Then every step does one of four things to one payment
  (`StepOrderly`): nothing, `Wanders` (a state that moves no money), `Succeeds`,
  `Reverses`; `BooksInv` says that what was never posted has no allocation either,
  so a success pays. `AdjInv` says that an adjustment in processing is of a gateway
  payment, and one under investigation a chargeback of a payment that stands or was
  voided, so undoing a cash payment leaves nothing behind but a chargeback `Overtaken`.
- `LoanSessions_proofs`: `UndoneAtMostOnce` proves `ReversedOnce` through
  `UndoneWhenVoided` (a repayment is undone exactly when its treasury entry is
  voided: the entry is read afresh, the payment's status is not).
  `KeyRecordsOnce` proves `OnePaymentPerKey` through `KeysInv` (flushed,
  uncommitted payments have different keys, none recorded).
  `SessionsTyped` and `InstallmentsNotOverpaid` prove `TypeOK` and
  `NeverOverallocated` through `SoundInv`: what a session has loaded is itself a
  schedule without an overpaid installment, and a commit writes whole columns
  computed from it. `ColumnsAddUp` proves `ColumnsAgree` through `AddsInv`: the two
  columns a session has loaded added up, so it changes both or none; once more
  than is repayable was credited that is lost (`overpaid`).
  `AloneLoanAddsUp` proves `AloneLoanMatches` through `AloneInv`: the one request in
  progress has loaded the rows as they are (`OneAtATime`), and with `Books` they
  are what the standing repayments make of them. Its core is `OldestFirst`: shares
  given oldest first sum up to the tender or to all that is owed, whichever is
  less.
- `EarlySettlement_proofs`: `SettlementTypes` proves `TypeOK`. `SettledStaysPaid`
  proves `SettledIsPaid`; it rests on `RequestInv`: in which stages of its request a
  payment does not exist yet, is not cash or names no quote yet, and that a
  gateway payment succeeded only after the gateway said so.
  `PaidQuotesSettle` proves `SuccessSettles` through `SettlesInv`: what the rows of a
  payment, its request and its quote say of each other (`Rows`), that a quote is
  asked for by one request at most (`Unique`), and that a settlement is linked
  before its money is posted (`Linked`).
  `RebateNeedsSettlement` proves `RebateIsSettled` through `RebateInv`: an active loan, or
  one without a settled quote, has its contract total and no waived installment,
  and so had it whenever a quote was made.
  `SettledAtMostOnce` proves `OneSettlement` through `SettledOnce`: the loan of a settled
  quote is closed at that quote's sum, and no other quote is settled beside it. The
  code compares nothing but `amount_paid` with a quote's snapshot, so this holds only
  as long as no quote's sum is the snapshot of another (`SameSums`); the run
  `resettled` shows what happens otherwise, and no bound on the totals on
  offer is assumed. `SettledLoanStaysClosed` proves `ClosedAtTheQuote` with it.
  `CreditNeedsMoney` proves `CreditIsReceived` through `CreditInv`: the loan's credit is
  covered by the ordinary repayments that stand, or by these and one settlement
  (`Covers`), and what stood when a settled quote was made still stands.
  `MoneyIsCredited` proves `ReceivedIsCredited` through `HeldInv`, about what is held
  for the loan: payments that succeeded, and those allocated while the gateway
  has their money still.
- `TreasuryDay_proofs`: `JournalsAgree` proves `JournalsFollowRows` through `JInv`: rows
  are typed, a row that was never entered has no journal (`Fresh`), and the slow
  transaction is about a row of its kind which is still on the day it loaded
  (`SlowOK`). `TreasuryTypes` proves `TypeOK`, whose hard part is that a day's amounts
  stay integers through the chain of carried balances. `LockedDaysStand` proves
  `LockedIsAsSubmitted` through `LInv`: a day behind which none was closed out of order carries
  what its predecessor closed with (`Linked`), and an unfinished transaction still
  finds what it loaded or its day is on the list of the overtaken (`SlowStands`).
  `NightsLoseNothing` proves `NothingLostOverNight` from that by induction over the days, and
  `CountsStay` the action property `CountIsEvidence`.
- `CdasAutopilot_proofs`, of the ledger alone and any caller: `RejectedNeverApplies` and
  `ConfirmedHappened`, through `LedgerInv`: types, rows begin once
  (`RowsBegin`), and the provider holds what somebody asked (`HeldWasAsked`).
- `CdasAutopilot_proofs`: `AutopilotTypes` proves `TypeOK`, and
  `AutopilotImplementsLedger` proves the refinement `ImplementsLedger`: each step of
  a worker or operator is a step of the ledger or leaves it unchanged. It is proved
  and not model-checked. Since every step is one of the ledger's, the ledger's
  invariant carries over: `AutopilotRejections`, `AutopilotConfirmations`.
- `CdasAutopilot_proofs`, the loans: each promise has an inductive invariant of its
  own, on top of `Whole`: the ledger's invariant, the types, and `Links` (a worker's row asks
  for what it decided, rows are apart, what was acknowledged was applied).
  `MandateIsDeduction` proves `MandateShowsDeduction` through `InStep`: one worker at a
  time is at work on a loan, what is under way has a worker that waits for it, and
  the mandate shows the deduction until its write takes effect. `MarkUntilServed` proves
  `MarkIsServed` through `Served` (an unmarked loan whose balance no step changed without a
  mark has its schedule, and a write to it that is under way asks for that schedule), `DoubtIsSettleable` proves
  `DoubtCanBeSettled` through `Doubts` (a doubt has a row that a reconciliation
  can settle, or a worker about to clear it). `HeadroomIsNotExceeded` proves `HeadroomIsShared`
  through `Sharing`: since the last reading of the headroom, of a day `e`, every
  deduction is at most what it was then and what its loan has
  allocated of `e`, a request under way asks for no more, and the allocations of `e`
  add up to no more than was read. The second summand counts only when its
  top-up can no longer give it back (`Cap`): a failed write releases its headroom.
  Nothing else may raise a deduction, since no mandate, and no payment's task, is
  above what is deducted (`Mandates`, `Payments`). Sums over loans use
  `FiniteSums_proofs`.
- `CdasSession_proofs`: `SessionTypes` proves `TypeOK`. `NeverReplayed` proves
  `SentAsPromised` through `SentInv` (how often a call has been sent in each stage,
  round and format). `LoginsExclude` proves `LoginsExclusive` through `LockInv` (a
  call inside and not overtaken holds the lock). `AllowanceKept` proves
  `WithinAllowance` through `AllowanceInv`: requests received plus requests in
  flight are at most those counted plus those carried over midnight; flights are
  a finite set whose cardinality each step changes by at most one. `SharedWhole`
  proves `WholeSession` through `HoldInv` (who holds a client's lock) and
  `WholeInv` (every pair a call, a client or Redis has is whole unless the client is
  `late`).
- `WebhookOutbox_proofs`: `OutboxInvariant` proves `OutboxInv` inductive: an
  event is held by one pass at most and only while queued (`LocksHold`);
  acceptances are at most excuses plus one, and that one only while somebody
  knows of it (`AcceptancesCounted`); attempts stay below the limit
  (`AttemptsCounted`). `NoUnexcusedDuplicate` and `SettlementIsJustified` follow,
  and `ImplementsEventDelivery` proves the refinement: `Commit` maps to `Settle`,
  `Enqueue` and `Replay` to `Publish`, acceptances to `Reach`, the rest stutter.

Model-checked only:

- liveness (`GatewaySuccessIsPosted`, `EventsSettle`, `SettlementMoneyIsPosted`,
  `PastDaysClose`), which TLAPS does not do here. Every invariant and action
  property that a passing run checks has a theorem.

## 5. What could come next

Models: the mandate calendar, the sending branch of a funding transfer,
registrations and stops in `CdasOperations`, and a second loan in `LoanPayments`
for top-ups.

## 6. Not modelled

`PROJECT.json` lists every component with its status and reason. In short:

- Top-ups and the transfer of a remainder need a second loan and schedule in
  every state of `LoanPayments`, past what TLC explores; posting a final-installment
  rollover is besides switched off at run time. Restructures, maturity renewal
  and arrears rollover rewrite the schedule that the models hold fixed.
- Chart of accounts, entry numbers, accounting periods and reports: only whether a
  row's journal stands is modelled; no decision of the modelled code reads more.
- The treasury's reviews, proofs, roles, dual control and variances, and a second
  branch: a transfer is its receiving end only.
- Signing codes, multi-factor login and the credit committee change one row under
  its lock or by one user, and their tests drive every transition.
- The Batlokoa reservation store has no caller. The payment engine runs beside the
  posting code and changes nothing.
- Documents, analytics and reports (they read), user interfaces, computation
  workers (stateless, with parity checks), the circuit breaker of the polyglot
  client (advisory counters per process), device input, configuration screens,
  and decimal interest arithmetic (unit-tested functions without shared state).
