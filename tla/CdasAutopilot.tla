---------------------------- MODULE CdasAutopilot ----------------------------
(***************************************************************************)
(* CDAS Autopilot (services/cdas_autopilot_worker.py, cdas_autopilot.py):  *)
(* workers that keep the payroll deductions of one employee's loans in     *)
(* step with the loans.  A worker shortens or settles the deduction of a   *)
(* loan that was marked for it; some of the ways a loan's balance changes  *)
(* mark it and some do not.  Between the 14th and the 21st a worker reads  *)
(* once a day what more the employee can afford, and raises the deductions *)
(* of loans that asked for it within that headroom.                        *)
(*                                                                         *)
(* Every write goes through the operation ledger (module CdasOperations).  *)
(* Between two commits a worker holds what it loaded; payments, operators  *)
(* and the workers of other processes run in between.                      *)
(***************************************************************************)
EXTENDS CdasOperations, FiniteSets, Functions

CONSTANTS
    Workers,        \* the autopilot tasks, one per process
    NoWork,         \* a worker that is not at a loan
    InitialBalance, \* of every loan
    Maximum,        \* dynamic_top_up_maximum
    Headroom,       \* what the employee could afford above the first deductions
    MaxEvents       \* bound on payments, midnights, crashes, lost locks and
                    \* operators' requests

ASSUME AmountsAssumption ==
    /\ InitialBalance \in Nat \ {0} /\ Maximum \in Nat /\ Headroom \in Nat
    /\ MaxEvents \in Nat
ASSUME TermsAreAmounts ==
    /\ Terms = [amount : 0 .. Maximum, principal : 0 .. InitialBalance]
    /\ InitialTerms = [amount |-> 1, principal |-> InitialBalance]
    /\ Settled = [amount |-> 0, principal |-> 0]
ASSUME OperatorsAssumption == {"operation", "loan"} \subseteq Readers
ASSUME LoansAssumption == IsFiniteSet(Deductions) /\ NoWork \notin Ops

VARIABLES
    balance,   \* loan.balance
    marked,    \* "autopilot_pending" is in loan.cdas_collection_plan
    mandate,   \* monthly_deduction, and whether the mandate is settled
    doubtful,  \* official mandate state: requires_reconciliation
    allocated, \* affordability_allocation rows: loan, day |-> headroom or nothing
    snapshot,  \* live_affordability billed for the day (-1: not read)
    worker,    \* what each worker is doing
    unmarked,  \* history: loans whose balance changed after the last mark or
               \* the last start of a marked loan's work
    events,    \* how many of the MaxEvents have happened
    upset      \* history: what a property has to excuse

autopilotVars == <<balance, marked, mandate, doubtful, allocated, snapshot, worker,
                   unmarked, events, upset>>
vars == <<op, wire, held, view, day, balance, marked, mandate, doubtful, allocated,
          snapshot, worker, unmarked, events, upset>>

Loans == Deductions

Idle == [stage |-> "idle", task |-> "none", loan |-> NoWork, terms |-> Settled,
         op |-> NoWork, today |-> 0, sawMark |-> FALSE, locked |-> FALSE]

(* What a behaviour may have met that a property has to excuse:            *)
(*   headroom: headroom was released although its write may take effect, a *)
(*     second top-up of the day replaced the loan's allocation, headroom   *)
(*     was read, or used, while a top-up by another day's headroom was     *)
(*     under way or could still take effect, or a write that was decided   *)
(*     before a top-up took effect after it and took the raise back;       *)
(*   deduction: a write took effect that no worker confirmed to the        *)
(*     mandate, or two writes to one deduction were under way together;    *)
(*   overwritten: a plan written back dropped a mark made meanwhile;       *)
(*   apart: an operation was confirmed by one reader, and its loan put in  *)
(*     doubt by another.                                                   *)
Upsets == {"headroom", "deduction", "overwritten", "apart"}

TypeOK ==
    /\ LedgerTypeOK
    /\ balance \in [Loans -> 0 .. InitialBalance]
    /\ marked \in [Loans -> BOOLEAN]
    /\ mandate \in [Loans -> [amount : 0 .. Maximum, settled : BOOLEAN]]
    /\ doubtful \in [Loans -> BOOLEAN]
    /\ allocated \in [Loans -> [0 .. LastDay -> 0 .. Maximum]]
    /\ snapshot \in [0 .. LastDay -> -1 .. Headroom]
    /\ worker \in [Workers ->
          [stage : {"idle", "asking", "offered", "decided", "calling", "reading",
                    "verified", "unverified"},
           task : {"none", "payment", "topup"}, loan : Loans \cup {NoWork}, terms : Terms,
           op : Ops \cup {NoWork}, today : 0 .. LastDay, sawMark : BOOLEAN,
           locked : BOOLEAN]]
    /\ unmarked \subseteq Loans
    /\ events \in 0 .. MaxEvents
    /\ upset \subseteq Upsets

Init ==
    /\ LedgerInit
    /\ balance = [l \in Loans |-> InitialBalance]
    /\ marked = [l \in Loans |-> FALSE]
    /\ mandate = [l \in Loans |-> [amount |-> InitialTerms.amount, settled |-> FALSE]]
    /\ doubtful = [l \in Loans |-> FALSE]
    /\ allocated = [l \in Loans |-> [d \in 0 .. LastDay |-> 0]]
    /\ snapshot = [d \in 0 .. LastDay |-> -1]
    /\ worker = [w \in Workers |-> Idle]
    /\ unmarked = {}
    /\ events = 0
    /\ upset = {}

-----------------------------------------------------------------------------
(* What the autopilot decides: decide_cdas_autopilot.                      *)

CeilingOf(b, d) == (b + d - 1) \div d
Smallest(a, b) == IF a < b THEN a ELSE b

(* payment_triggered: settle, or keep the amount for a shorter term.       *)
AfterPayment(l) ==
    IF balance[l] = 0 THEN Settled
    ELSE [amount |-> mandate[l].amount, principal |-> balance[l]]

Proposed(l, headroom) ==
    Smallest(Smallest(mandate[l].amount + headroom, Maximum), balance[l])

(* A top-up must raise the deduction and shorten the remaining term.       *)
TopsUp(l, headroom) ==
    /\ balance[l] > 0 /\ headroom > 0
    /\ Proposed(l, headroom) > mandate[l].amount
    /\ CeilingOf(balance[l], Proposed(l, headroom)) < CeilingOf(balance[l], mandate[l].amount)

(* _eligible_link.                                                         *)
Eligible(l) == ~mandate[l].settled /\ ~doubtful[l]

(* _allocated_headroom.                                                    *)
Consumed(d) == SumFunctionOnSet([l \in Loans |-> allocated[l][d]], Loans)
Remaining(d) == snapshot[d] - Consumed(d)

(* What the provider would answer: the headroom left by the deductions.    *)
Raised == SumFunctionOnSet([l \in Loans |-> held[l].amount - InitialTerms.amount], Loans)
Affordable ==
    LET left == Headroom - Raised
    IN  IF left < 0 THEN 0 ELSE Smallest(Headroom, left)

-----------------------------------------------------------------------------
(* The advisory locks.  A worker takes them before it decides and gives    *)
(* them back at the end; they belong to its database connection.           *)

At(w, stages) == worker[w].stage \in stages
AtWork == {"decided", "calling", "reading", "verified", "unverified"}
WorksOn(w, l) == At(w, AtWork) /\ worker[w].loan = l

Holds(w, task) == worker[w].locked /\ worker[w].task = task

LoanLockFree(l) == \A w \in Workers : Holds(w, "payment") => worker[w].loan # l
TopUpLocksFree(l, d) ==
    \A w \in Workers : Holds(w, "topup") => worker[w].loan # l /\ worker[w].today # d
DayLockFree(d) == \A w \in Workers : At(w, {"asking"}) => worker[w].today # d

Becomes(w, stage) == worker' = [worker EXCEPT ![w].stage = stage]
Rests(w) == worker' = [worker EXCEPT ![w] = [Idle EXCEPT !.today = worker[w].today]]
Starts(w, stage, task, l, t, date) ==
    worker' = [worker EXCEPT ![w] =
        [stage |-> stage, task |-> task, loan |-> l, terms |-> t, op |-> NoWork,
         today |-> date, sawMark |-> task = "topup" /\ marked[l],
         locked |-> stage = "decided"]]

Happened(what, happens) == IF happens THEN {what} ELSE {}
Noting(set) == upset' = upset \cup set

Event == events < MaxEvents /\ events' = events + 1

(* Another worker is about to write, or has written, to this deduction.    *)
Accompanied(w, l) == Happened("deduction", \E v \in Workers \ {w} : WorksOn(v, l))

-----------------------------------------------------------------------------
(* What a worker starts.                                                   *)

(* process_pending_payment_reoptimizations, at the beginning of a cycle: a *)
(* marked loan is locked, loaded and decided about.                        *)
StartPayment(w, l) ==
    /\ At(w, {"idle"})
    /\ marked[l] /\ LoanLockFree(l) /\ Eligible(l)
    /\ Starts(w, "decided", "payment", l, AfterPayment(l), day)
    /\ unmarked' = unmarked \ {l}
    /\ Noting(Accompanied(w, l))
    /\ UNCHANGED <<ledgerVars, balance, marked, mandate, doubtful, allocated, snapshot, events>>

(* A cycle that has come to its scan keeps the date it began with.         *)
NewCycle(w) ==
    /\ At(w, {"idle"}) /\ worker[w].today < day
    /\ worker' = [worker EXCEPT ![w].today = day]
    /\ UNCHANGED <<ledgerVars, balance, marked, mandate, doubtful, allocated, snapshot, unmarked,
                   events, upset>>

(* scan_affordability_opportunities loads the loan and its plan and, the   *)
(* first time in a day, asks the provider under the employee's day lock.   *)
(* (A day's value that is already known is used as it is: what the lock    *)
(* delays by then has no effect on the other worker.)                      *)
StartScan(w, l) ==
    /\ At(w, {"idle"})
    /\ Eligible(l) /\ DayLockFree(worker[w].today)
    /\ Starts(w, "asking", "topup", l, Settled, worker[w].today)
    /\ UNCHANGED <<ledgerVars, balance, marked, mandate, doubtful, allocated, snapshot, unmarked,
                   events, upset>>

(* The answer is billed once a day.  A loan that could use the headroom    *)
(* gets the opportunity written into the plan that was loaded before.      *)
FinishScan(w) ==
    LET l == worker[w].loan  d == worker[w].today
    IN  /\ At(w, {"asking"})
        /\ \E live \in 0 .. Headroom :
          /\ live = IF snapshot[d] = -1 THEN Affordable ELSE snapshot[d]
          /\ snapshot' = [snapshot EXCEPT ![d] = live]
          /\ \/ /\ TopsUp(l, live)
                /\ marked' = [marked EXCEPT ![l] = worker[w].sawMark]
                /\ Becomes(w, "offered")
             \/ /\ ~TopsUp(l, live)
                /\ Rests(w)
                /\ UNCHANGED marked
          /\ Noting(Happened("overwritten", marked[l] /\ ~marked'[l])
                    \cup Happened("headroom", snapshot[d] = -1
                           /\ \/ \E v \in Workers \ {w} : At(v, AtWork) /\ worker[v].task = "topup"
                              \/ \E o \in Ops : wire[o] = "sent"))
          /\ UNCHANGED <<ledgerVars, balance, unmarked, mandate, doubtful, allocated, events>>

(* A loan is passed over: the provider could not be read, nothing is left, *)
(* or a lock is held - by another worker, or still by the connection of an *)
(* earlier task, for a lock is given back on whatever connection the       *)
(* session has by then.                                                    *)
Skip(w) ==
    /\ At(w, {"asking", "offered"})
    /\ Rests(w)
    /\ UNCHANGED <<ledgerVars, balance, marked, mandate, doubtful, allocated, snapshot, unmarked,
                   events, upset>>

(* Decided about with the headroom h, and what it takes is reserved.       *)
Reserve(w, l, d, h) ==
    /\ TopsUp(l, h)
    /\ Starts(w, "decided", "topup", l,
              [amount |-> Proposed(l, h), principal |-> balance[l]], d)
    /\ allocated' = [allocated EXCEPT ![l][d] = Proposed(l, h) - mandate[l].amount]

(* Mutant: the whole headroom of the day is offered again.                 *)
StartTopUp_WholeHeadroom(w) ==
    LET l == worker[w].loan  d == worker[w].today
    IN  /\ At(w, {"offered"})
        /\ TopUpLocksFree(l, d) /\ Eligible(l)
        /\ \E left \in 1 .. Headroom : left = snapshot[d] /\ Reserve(w, l, d, left)
        /\ Noting(Accompanied(w, l) \cup Happened("headroom", allocated[l][d] > 0 \/ d < day))
        /\ UNCHANGED <<ledgerVars, balance, marked, mandate, doubtful, snapshot, unmarked, events>>

(* Under the allocation and top-up locks the loan is loaded again, and     *)
(* decided about with what the other loans left of the day's headroom.     *)
StartTopUp(w) ==
    LET l == worker[w].loan  d == worker[w].today
    IN  /\ At(w, {"offered"})
        /\ TopUpLocksFree(l, d) /\ Eligible(l)
        /\ \E left \in 1 .. Headroom : left = Remaining(d) /\ Reserve(w, l, d, left)
        /\ Noting(Accompanied(w, l) \cup Happened("headroom", allocated[l][d] > 0 \/ d < day))
        /\ UNCHANGED <<ledgerVars, balance, marked, mandate, doubtful, snapshot, unmarked, events>>

-----------------------------------------------------------------------------
(* How a task ends.                                                        *)

MayTakeEffect(o) == o \in Ops /\ wire[o] \in {"sent", "applied"}

(* Mutant: the payment's work is taken off the loan whatever came of it.   *)
End_UnmarksAlways(w, confirmed) ==
    LET l == worker[w].loan  topup == worker[w].task = "topup"
        lost == ~confirmed /\ MayTakeEffect(worker[w].op)
        unread == lost /\ ~At(w, {"unverified"})
    IN  /\ marked' = [marked EXCEPT ![l] = IF topup THEN @ ELSE FALSE]
        /\ allocated' = [allocated EXCEPT ![l][worker[w].today] =
                            IF topup /\ ~confirmed THEN 0 ELSE @]
        /\ Noting(Happened("deduction", unread) \cup Happened("headroom", lost /\ topup))
        /\ Rests(w)

(* The end of _tracked_modify or _tracked_settle: an unconfirmed top-up    *)
(* releases its headroom, a confirmed task writes back the plan it loaded, *)
(* without the mark when the task was to serve it.                         *)
End(w, confirmed) ==
    LET l == worker[w].loan  topup == worker[w].task = "topup"
        lost == ~confirmed /\ MayTakeEffect(worker[w].op)
        unread == lost /\ ~At(w, {"unverified"})
    IN  /\ marked' = [marked EXCEPT ![l] =
              IF confirmed THEN topup /\ worker[w].sawMark ELSE @]
        /\ allocated' = [allocated EXCEPT ![l][worker[w].today] =
                            IF topup /\ ~confirmed THEN 0 ELSE @]
        /\ Noting(Happened("deduction", unread)
                  \cup Happened("headroom", lost /\ topup)
                  \cup Happened("apart", At(w, {"unverified"})
                                   /\ op[worker[w].op].state = "confirmed")
                  \cup Happened("overwritten", confirmed /\ marked[l] /\ ~worker[w].sawMark
                                   /\ l \notin unmarked
                                   /\ balance[l] # worker[w].terms.principal))
        /\ Rests(w)

(* The row is written, unless the same write is still unresolved; or the   *)
(* process stops before it is submitted.                                   *)
BeginWrite(w) ==
    /\ At(w, {"decided"})
    /\ \E o \in Ops :
         \/ /\ Begin(o, worker[w].loan, worker[w].terms, "submitting")
            /\ worker' = [worker EXCEPT ![w].stage = "calling", ![w].op = o]
            /\ UNCHANGED events
         \/ /\ Begin(o, worker[w].loan, worker[w].terms, "prepared")
            /\ Rests(w)
            /\ Event
    /\ UNCHANGED <<balance, marked, mandate, doubtful, allocated, snapshot, unmarked, upset>>

Duplicate(w) ==
    /\ At(w, {"decided"})
    /\ ~FingerprintFree({}, worker[w].loan, worker[w].terms, day)
    /\ End(w, FALSE)
    /\ UNCHANGED <<ledgerVars, balance, mandate, doubtful, snapshot, unmarked, events>>

(* A refusal, and an answer that is lost, are the same to the autopilot    *)
(* (a call that raises anything but a CdasError is a Crash).               *)
WriteFails(w) ==
    /\ At(w, {"calling"})
    /\ Reject(worker[w].op) \/ LoseAnswer(worker[w].op)
    /\ End(w, FALSE)
    /\ UNCHANGED <<balance, mandate, doubtful, snapshot, unmarked, events>>

WriteAcknowledged(w) ==
    /\ At(w, {"calling"}) /\ Acknowledge(worker[w].op)
    /\ Becomes(w, "reading")
    /\ UNCHANGED <<balance, marked, mandate, doubtful, allocated, snapshot, unmarked, events, upset>>

Verify(w) ==
    /\ At(w, {"reading"})
    /\ \/ ReadBack(worker[w].op, Caller) /\ Becomes(w, "verified")
       \/ /\ ReadDiffers(worker[w].op, Caller)
          /\ ~SecondUnresolved(worker[w].op, Caller, "requires_reconciliation")
          /\ Becomes(w, "unverified")
    /\ UNCHANGED <<balance, marked, mandate, doubtful, allocated, snapshot, unmarked, events, upset>>

(* Mutant: a write that was acknowledged is taken for done.                *)
Record_Acknowledged(w) ==
    LET l == worker[w].loan  t == worker[w].terms  verified == At(w, {"verified"})
    IN  /\ At(w, {"verified", "unverified"})
        /\ doubtful' = [doubtful EXCEPT ![l] = FALSE]
        /\ mandate' = [mandate EXCEPT ![l] =
              IF ~verified THEN @
              ELSE IF t = Settled THEN [@ EXCEPT !.settled = TRUE]
              ELSE [amount |-> t.amount, settled |-> FALSE]]
        /\ End(w, verified)
        /\ UNCHANGED <<ledgerVars, balance, snapshot, unmarked, events>>

(* The mandate takes over what was confirmed; what was not is in doubt.    *)
Record(w) ==
    LET l == worker[w].loan  t == worker[w].terms  verified == At(w, {"verified"})
    IN  /\ At(w, {"verified", "unverified"})
        /\ doubtful' = [doubtful EXCEPT ![l] = ~verified]
        /\ mandate' = [mandate EXCEPT ![l] =
              IF ~verified THEN @
              ELSE IF t = Settled THEN [@ EXCEPT !.settled = TRUE]
              ELSE [amount |-> t.amount, settled |-> FALSE]]
        /\ End(w, verified)
        /\ UNCHANGED <<ledgerVars, balance, snapshot, unmarked, events>>

(* The task raises, or its process stops: what was committed stays.        *)
Crash(w) ==
    /\ Event
    /\ At(w, AtWork)
    /\ Noting(Happened("deduction", MayTakeEffect(worker[w].op))
              \cup Happened("apart", At(w, {"verified"}) /\ doubtful[worker[w].loan]))
    /\ Rests(w)
    /\ IF At(w, {"reading"}) THEN StopReading(worker[w].op, Caller) ELSE UNCHANGED ledgerVars
    /\ UNCHANGED <<balance, marked, mandate, doubtful, allocated, snapshot, unmarked>>

(* The pool closes a connection that was given back over its size, and the *)
(* locks of the worker that used it are gone while it waits.               *)
LoseLocks(w) ==
    /\ Event
    /\ At(w, {"calling"}) /\ worker[w].locked
    /\ worker' = [worker EXCEPT ![w].locked = FALSE]
    /\ UNCHANGED <<ledgerVars, balance, marked, mandate, doubtful, allocated, snapshot, unmarked,
                   upset>>

-----------------------------------------------------------------------------
(* The loan's other actors.                                                *)

(* A repayment at the desk (record_cash_repayment) or through the gateway  *)
(* (finalize_gateway_payment), or a reversal by the gateway or by an       *)
(* adjustment (reverse_loan_payment): the balance changes, no mark is set. *)
Repayment(l) ==
    /\ \E b \in (0 .. InitialBalance) \ {balance[l]} : balance' = [balance EXCEPT ![l] = b]
    /\ unmarked' = unmarked \cup {l}
    /\ UNCHANGED marked

Marks(l) ==
    /\ marked' = [marked EXCEPT ![l] = TRUE]
    /\ unmarked' = unmarked \ {l}

(* initiate_payment in cash: the loan is marked, its balance is not        *)
(* changed.                                                                *)
InitiatePayment(l) == Marks(l) /\ UNCHANGED balance

(* The reversal of the last cash repayment gives the balance back, and     *)
(* marks the loan.                                                         *)
ReverseLastPayment(l) ==
    /\ \E b \in balance[l] + 1 .. InitialBalance : balance' = [balance EXCEPT ![l] = b]
    /\ Marks(l)

Payment(l) ==
    /\ Event
    /\ Repayment(l) \/ InitiatePayment(l) \/ ReverseLastPayment(l)
    /\ UNCHANGED <<ledgerVars, mandate, doubtful, allocated, snapshot, worker, upset>>

(* The two endpoints: an operation by its id, or the latest unresolved     *)
(* operation of a loan.                                                    *)
LatestUnresolved(o) ==
    \A p \in Ops : p > o /\ op[p].deduction = op[o].deduction => op[p].state \notin Unresolved

OperatorLooks(o) ==
    /\ \/ Look(o, "operation")
       \/ Look(o, "loan") /\ LatestUnresolved(o)
    /\ Event
    /\ UNCHANGED <<balance, marked, mandate, doubtful, allocated, snapshot, unmarked, worker, upset>>

(* Only the loan's endpoint touches the loan: not the amount of its        *)
(* mandate, and nothing when the provider could not be read.               *)
OperatorReads(o) ==
    LET l == op[o].deduction  t == op[o].terms
    IN  /\ \/ /\ ReadBack(o, "operation")
              /\ Noting({"apart"})
              /\ UNCHANGED <<doubtful, mandate>>
           \/ /\ ReadDiffers(o, "operation")
              /\ UNCHANGED <<doubtful, mandate, upset>>
           \/ /\ ReadBack(o, "loan")
              /\ doubtful' = [doubtful EXCEPT ![l] = FALSE]
              /\ mandate' = [mandate EXCEPT ![l].settled = (t = Settled)]
              /\ Noting(Happened("deduction", t # Settled /\ t.amount # mandate[l].amount))
           \/ /\ ReadDiffers(o, "loan")
              /\ \/ /\ ~SecondUnresolved(o, "loan", "requires_reconciliation")
                    /\ doubtful' = [doubtful EXCEPT ![l] = TRUE]
                    /\ Noting(Happened("apart", op'[o].state = "confirmed"))
                 \/ UNCHANGED <<doubtful, upset>>
              /\ UNCHANGED mandate
        /\ UNCHANGED <<balance, marked, allocated, snapshot, unmarked, worker, events>>

Provider(o) ==
    /\ ProviderApplies(o) \/ ProviderRefuses(o)
    /\ Noting(Happened("headroom", \E l \in Loans : held'[l] # Settled
                                       /\ held'[l].amount < held[l].amount))
    /\ UNCHANGED <<balance, marked, mandate, doubtful, allocated, snapshot, unmarked, worker, events>>

Midnight ==
    /\ NextDay /\ Event
    /\ UNCHANGED <<balance, marked, mandate, doubtful, allocated, snapshot, unmarked, worker, upset>>

WorkerStep(w) ==
    \/ \E l \in Loans : StartPayment(w, l) \/ StartScan(w, l)
    \/ NewCycle(w) \/ FinishScan(w) \/ Skip(w) \/ StartTopUp(w)
    \/ BeginWrite(w) \/ Duplicate(w) \/ WriteFails(w)
    \/ WriteAcknowledged(w) \/ Verify(w) \/ Record(w) \/ Crash(w) \/ LoseLocks(w)

Next ==
    \/ \E w \in Workers : WorkerStep(w)
    \/ \E l \in Loans : Payment(l)
    \/ \E o \in Ops : OperatorLooks(o) \/ OperatorReads(o) \/ Provider(o)
    \/ Midnight

Spec == Init /\ [][Next]_vars

-----------------------------------------------------------------------------
(* Properties.                                                             *)

(* The workers and the operators use the ledger as it is meant to be used. *)
ImplementsLedger == LedgerSpec

(* The employee is never charged more than the provider said could be      *)
(* afforded, although several loans and workers share one day's headroom.  *)
HeadroomIsShared ==
    "headroom" \notin upset
    => Raised <= Headroom

(* At rest the mandate shows what the provider deducts, or is in doubt.    *)
MandateShowsDeduction ==
    "deduction" \notin upset
    => \A l \in Loans :
         ~doubtful[l] /\ (\A w \in Workers : ~WorksOn(w, l))
         => IF mandate[l].settled THEN held[l] = Settled
                                  ELSE held[l].amount = mandate[l].amount

(* A mark is taken off the loan only when the provider has the schedule    *)
(* that the loan's balance asks for, wherever the mark came from, unless   *)
(* the balance changed later without one.                                  *)
MarkIsServed ==
    upset \cap {"deduction", "overwritten"} = {}
    => \A l \in Loans \ unmarked : ~marked[l] => held[l].principal = balance[l]

(* A loan in doubt has an operation that a reconciliation can settle: no   *)
(* loan is kept out of the autopilot for good.                             *)
DoubtCanBeSettled ==
    "apart" \notin upset
    => \A l \in Loans :
         doubtful[l] /\ (\A w \in Workers : ~WorksOn(w, l))
         => \E o \in Ops : op[o].deduction = l /\ op[o].state \in Reconcilable

(* A confirmed cash loan repayment must never leave an old CDAS schedule   *)
(* running silently (payment_service.py:171).                              *)
NoSilentSchedule ==
    "deduction" \notin upset
    => \A l \in Loans : ~marked[l] => held[l].principal = balance[l]
=============================================================================
