----------------------------- MODULE TreasuryDay -----------------------------
(***************************************************************************)
(* The treasury days of a branch (services/treasury_service.py,            *)
(* backdated_opening_adjustment_service.py and the endpoints of            *)
(* routers/expense_management.py): a day carries the previous close        *)
(* forward by payment channel, takes payments, expenses and funding, is    *)
(* submitted by a person or by the scheduler, and is then locked until it  *)
(* is reopened: by a manager, by a payment, or to correct history.         *)
(*                                                                         *)
(* No row is locked, so a transaction may be overtaken.  Every operation   *)
(* is one step, and one transaction at a time may besides be slow: it      *)
(* checks what it loaded, others commit, and it writes the attributes it   *)
(* changed from what it had loaded.  Its sums are read as it writes.       *)
(*                                                                         *)
(* Branches meet only in a funding transfer; here is its receiving end.    *)
(* Left out: the time of day (the cut-off may be at any time of a day),    *)
(* reviews, variance and counts (derived), proof, notes, roles and dual    *)
(* control, PDF reports, the journals of payments (module LoanPayments).   *)
(***************************************************************************)
EXTENDS Integers, FiniteSets, FiniteSetsExt

CONSTANTS
    LastDay,       \* the behaviour's business dates are 1..LastDay
    Payments,      \* payments that need a treasury entry (money in)
    Expenses,      \* manual expenses (money out)
    NeedApproval,  \* those at or over expense_approval_threshold
    Funds,         \* opening sources entered by a person
    Transfers,     \* HEADQUARTERS_FUNDING sources of branch_funding_transfers
    Amount,        \* row |-> amount
    Gateway,       \* rows of the gateway channel; the others are cash
    NoCount,       \* declared_closing_balance is null
    Mixes,         \* bound: the sets of rows that may be entered
    MaxActs        \* bound: submissions, reopenings and corrections by
                   \* people, and slow transactions

Days == 1..LastDay
Sources == Funds \cup Transfers
Rows == Payments \cup Expenses \cup Sources

ASSUME DaysAssumption == LastDay \in Nat \ {0}
ASSUME RowsAssumption ==
    /\ IsFiniteSet(Rows) /\ Amount \in [Rows -> Nat \ {0}] /\ Gateway \subseteq Rows
    /\ NeedApproval \subseteq Expenses
    /\ Payments \cap (Expenses \cup Sources) = {} /\ Expenses \cap Sources = {}
    /\ Funds \cap Transfers = {}
ASSUME NoCountAssumption == NoCount \notin Rows

VARIABLES
    today,     \* the local business date
    day,       \* branch_daily_ledgers
    carried,   \* PREVIOUS_CLOSING opening source of a day, by channel (0: no row)
    snap,      \* the latest branch_daily_submissions row of a day
    row,       \* treasury_entries, and branch_opening_sources but PREVIOUS_CLOSING
    journal,   \* rows with a posted, unreversed journal entry
    slow,      \* a transaction that has checked but not yet written
    late,      \* history: days an earlier day was closed after they were carried
    raced,     \* history: days written by a transaction that had been overtaken
    acts       \* history: what MaxActs counts

history == <<late, raced, acts>>
vars == <<today, day, carried, snap, row, journal, slow, late, raced, acts>>

Writable == {"open", "reopened"}
Locked == {"submitted", "auto_submitted"}
Nothing == [cash |-> 0, gateway |-> 0]
NoDay == [status |-> "none", opening |-> 0, expected |-> 0, declared |-> NoCount,
          auto |-> FALSE]
NoSubmission == [kind |-> "none", closing |-> 0]
NoRow == [state |-> "none", day |-> 1, voided |-> FALSE]
NoWork == [kind |-> "none", row |-> NoCount, day |-> 1, count |-> NoCount,
           ledger |-> NoDay, seen |-> NoRow]

(* The type invariant.                                                     *)
Ledgers == [status : {"none"} \cup Writable \cup Locked, opening : Int, expected : Int,
            declared : Int \cup {NoCount}, auto : BOOLEAN]
RowStates == [state : {"none", "pending", "counted", "rejected"}, day : Days, voided : BOOLEAN]
TypeOK ==
    /\ today \in Days
    /\ day \in [Days -> Ledgers]
    /\ carried \in [Days -> [cash : Int, gateway : Int]]
    /\ snap \in [Days -> [kind : {"none", "auto", "hand"}, closing : Int]]
    /\ row \in [Rows -> RowStates]
    /\ journal \subseteq Expenses \cup Funds
    /\ slow \in [kind : {"none", "post", "approve", "submit", "auto"},
                 row : Rows \cup {NoCount}, day : Days, count : Int \cup {NoCount},
                 ledger : Ledgers, seen : RowStates]
    /\ late \subseteq Days /\ raced \subseteq Days /\ acts \in Nat

Init ==
    /\ today = 1
    /\ day = [d \in Days |-> NoDay]
    /\ carried = [d \in Days |-> Nothing]
    /\ snap = [d \in Days |-> NoSubmission]
    /\ row = [r \in Rows |-> NoRow]
    /\ journal = {} /\ slow = NoWork
    /\ late = {} /\ raced = {} /\ acts = 0

-----------------------------------------------------------------------------
(* What the rows of a day add up to.                                       *)
Sums == [S \in SUBSET Rows |-> SumFunctionOnSet(Amount, S)]
Total(c) == c.cash + c.gateway

(* Posted or approved entries and confirmed sources, not voided.           *)
Counted(rows, d) ==
    {r \in Rows : rows[r].day = d /\ rows[r].state = "counted" /\ ~rows[r].voided}
Net(S) == Sums[S \ Expenses] - Sums[S \cap Expenses]

OpeningOf(rows, c, d) == Total(c) + Sums[Counted(rows, d) \cap Sources]
ExpectedOf(rows, c, d) == Total(c) + Net(Counted(rows, d))
GatewayOf(rows, c, d) == c.gateway + Net(Counted(rows, d) \cap Gateway)

(* recalculate_daily_ledger, of a ledger as loaded, once rows are flushed. *)
Recalculated(ledger, c, d) ==
    [ledger EXCEPT !.opening = OpeningOf(row', c, d), !.expected = ExpectedOf(row', c, d)]

Closing(ledger) == IF ledger.declared # NoCount THEN ledger.declared ELSE ledger.expected

(* Mutant: all of the close is carried to cash, the gateway's part twice.  *)
BroughtFrom_Twice(ledger, c, p) ==
    [cash |-> Closing(ledger), gateway |-> GatewayOf(row', c, p)]

(* previous_branch_channel_closing: the gateway as the rows say, the rest  *)
(* of the closing, with what no channel explains, on cash.                 *)
BroughtFrom(ledger, c, p) ==
    LET position == GatewayOf(row', c, p)
    IN  [cash |-> Closing(ledger) - position, gateway |-> position]

Existing == {d \in Days : day[d].status # "none"}
Before(d) == {p \in Existing : p < d}
After(d) == {k \in Existing : k > d}
Brought(d) ==
    IF Before(d) = {} THEN Nothing
    ELSE LET p == Max(Before(d)) IN BroughtFrom(day[p], carried[p], p)

(* Mutant: any day is open, a locked one too.                              *)
Open_Always(d) == d \in Days

(* get_or_create_daily_ledger: the ledger it returns and the source it     *)
(* leaves; a locked day keeps its opening.                                 *)
Open(d) == day[d].status \in {"none"} \cup Writable
Loaded(d) == [day[d] EXCEPT !.status = IF @ = "none" THEN "open" ELSE @]
Source(d) == IF Open(d) THEN Brought(d) ELSE carried[d]
Refresh(d) ==
    /\ carried' = [carried EXCEPT ![d] = Source(d)]
    /\ late' = IF Open(d) THEN late \ {d} ELSE late

Acting == acts < MaxActs /\ acts' = acts + 1

SetDay(d, ledger) == day' = [day EXCEPT ![d] = ledger]
(* The attributes a transaction changed from what it had loaded.           *)
Changed(seen, new, now) == [f \in DOMAIN new |-> IF new[f] = seen[f] THEN now[f] ELSE new[f]]

-----------------------------------------------------------------------------
(* Entries and opening sources.                                            *)
Entering(r, d, state) ==
    /\ {q \in Rows : row[q].state # "none"} \cup {r} \in Mixes
    /\ row' = [row EXCEPT ![r] = [state |-> state, day |-> d, voided |-> FALSE]]

(* reopen_daily_ledger: the declared balance stays.                        *)
Reopened(ledger) == [ledger EXCEPT !.status = IF @ \in Locked THEN "reopened" ELSE @]

(* record_payment_treasury_entry: the owner may post to any past day; a    *)
(* live payment reopens today's day if the scheduler submitted it last.    *)
Accepts(d, owner) ==
    \/ Open(d)
    \/ owner /\ d < today
    \/ d = today /\ snap[d].kind = "auto"

TakePayment(p, d, owner) ==
    /\ row[p].state = "none" /\ d <= today
    /\ Accepts(d, owner)
    /\ Entering(p, d, "counted")
    /\ Refresh(d)
    /\ SetDay(d, Recalculated(Reopened(Loaded(d)), Source(d), d))
    /\ UNCHANGED <<today, snap, journal, slow, raced, acts>>

(* create_manual_entry, create_opening_source and issue_branch_funding.    *)
Enter(r, d, state) ==
    /\ row[r].state = "none" /\ d <= today
    /\ Open(d)
    /\ Entering(r, d, state)
    /\ Refresh(d)
    /\ SetDay(d, Recalculated(Loaded(d), Source(d), d))
    /\ UNCHANGED <<today, snap, slow, raced, acts>>

Spend(x, d) ==
    LET state == IF x \in NeedApproval THEN "pending" ELSE "counted"
    IN  /\ Enter(x, d, state)
        /\ journal' = IF state = "counted" THEN journal \cup {x} ELSE journal
AddFund(f, d) == Enter(f, d, "counted") /\ journal' = journal \cup {f}
IssueFunding(t, d) == Enter(t, d, "pending") /\ journal' = journal

(* The same idempotency key again: the day is refreshed, not recalculated. *)
SpendAgain(x) ==
    /\ row[x].state # "none" /\ day[row[x].day].status \in Writable
    /\ row' = row
    /\ Refresh(row[x].day)
    /\ UNCHANGED <<today, day, snap, journal, slow, raced, acts>>

(* What approve, reject, void and receive do to the ledger of a day.       *)
Revalue(d) ==
    /\ day[d].status \in Writable
    /\ SetDay(d, Recalculated(day[d], carried[d], d))
    /\ UNCHANGED <<today, carried, snap, slow, history>>

Approve(x) ==
    /\ row[x].state = "pending"
    /\ row' = [row EXCEPT ![x].state = "counted"]
    /\ journal' = IF row[x].voided THEN journal ELSE journal \cup {x}
    /\ Revalue(row[x].day)

Reject(x) ==
    /\ row[x].state = "pending"
    /\ row' = [row EXCEPT ![x].state = "rejected"]
    /\ journal' = journal
    /\ Revalue(row[x].day)

ReceiveFunding(t) ==
    /\ row[t].state = "pending"
    /\ row' = [row EXCEPT ![t].state = "counted"]
    /\ journal' = journal
    /\ Revalue(row[t].day)

(* Mutant: the reversal of a voided row is posted as one more entry.       *)
Void_Posts(r) ==
    /\ row[r].state # "none" /\ ~row[r].voided
    /\ row' = [row EXCEPT ![r].voided = TRUE]
    /\ journal' = journal \cup {r}
    /\ Revalue(row[r].day)

(* Mutant: voiding a row leaves its journal entry.                         *)
Void_KeepsJournal(r) ==
    /\ row[r].state # "none" /\ ~row[r].voided
    /\ row' = [row EXCEPT ![r].voided = TRUE]
    /\ journal' = journal
    /\ Revalue(row[r].day)

(* void_treasury_entry, of any entry, and void_opening_source, of one that *)
(* a person entered.                                                       *)
Void(r) ==
    /\ row[r].state # "none" /\ ~row[r].voided
    /\ row' = [row EXCEPT ![r].voided = TRUE]
    /\ journal' = journal \ {r}
    /\ Revalue(row[r].day)

-----------------------------------------------------------------------------
(* Submitting, reopening and correcting days.                              *)

(* submit_daily_ledger, of a recalculated ledger.                          *)
Submitted(ledger, count, automatic) ==
    [ledger EXCEPT !.status = IF automatic THEN "auto_submitted" ELSE "submitted",
                   !.declared = count, !.auto = @ \/ automatic]
Snapshot(kind, ledger) == [kind |-> kind, closing |-> ledger.expected]

(* What a person may count: nothing, or one short of what is expected.     *)
Counts(d) == {NoCount} \cup {n \in {day[d].expected - 1} : n >= 0}

SubmitDay(d, count) ==
    /\ day[d].status \in Writable
    /\ Acting
    /\ row' = row
    /\ LET done == Submitted(Recalculated(day[d], carried[d], d), count, FALSE)
       IN  SetDay(d, done) /\ snap' = [snap EXCEPT ![d] = Snapshot("hand", done)]
    /\ late' = late \cup After(d)
    /\ UNCHANGED <<today, carried, journal, slow, raced>>

ReopenDay(d) ==
    /\ day[d].status \in Locked
    /\ Acting
    /\ SetDay(d, Reopened(day[d]))
    /\ UNCHANGED <<today, carried, snap, row, journal, slow, late, raced>>

(* GET /days/current and the dashboard.                                    *)
View(d) ==
    /\ d <= today /\ Open(d)
    /\ row' = row
    /\ Refresh(d)
    /\ SetDay(d, Recalculated(Loaded(d), Source(d), d))
    /\ UNCHANGED <<today, snap, journal, slow, raced, acts>>

(* Mutant: a revised day is submitted again without its count.             *)
Revised_DropsCount(before, now, count) ==
    IF before.status \in Locked THEN Submitted(now, NoCount, FALSE) ELSE now

(* create_backdated_opening_adjustment and _refresh_downstream_ledgers: a  *)
(* locked day is reopened, revised and submitted again, and so is every    *)
(* later day, in order, each from the one before it.                       *)
Revised(before, now, count) ==
    IF before.status \in Locked THEN Submitted(now, count, FALSE) ELSE now

Chain(d, count) ==
    LET existing == Existing \cup {d}
        given == IF count # NoCount THEN count ELSE day[d].declared
        line[k \in Days] ==
            IF k < d \/ k \notin existing THEN [ledger |-> day[k], source |-> carried[k]]
            ELSE IF k = d
            THEN [source |-> Source(d),
                  ledger |-> Revised(day[d], Recalculated(Loaded(d), Source(d), d), given)]
            ELSE LET p == Max({j \in existing : j < k})
                     c == BroughtFrom(line[p].ledger, line[p].source, p)
                 IN  [source |-> c,
                      ledger |-> Revised(day[k], Recalculated(day[k], c, k), day[k].declared)]
    IN  line

Correct(f, d, count) ==
    LET line == Chain(d, count)
    IN  /\ row[f].state = "none" /\ d < today
        /\ Acting
        /\ Entering(f, d, "counted")
        /\ journal' = journal \cup {f}
        /\ day' = [k \in Days |-> line[k].ledger]
        /\ carried' = [k \in Days |-> line[k].source]
        /\ snap' = [k \in Days |->
              IF k >= d /\ day[k].status \in Locked THEN Snapshot("hand", line[k].ledger)
              ELSE snap[k]]
        /\ late' = late \ ({k \in Days : k > d} \cup IF Open(d) THEN {d} ELSE {})
        /\ UNCHANGED <<today, slow, raced>>

-----------------------------------------------------------------------------
(* The scheduler (services/treasury_scheduler.py).                         *)

(* auto_open_due_ledgers commits only when it has opened a ledger.         *)
OpenToday ==
    /\ day[today].status = "none"
    /\ row' = row
    /\ Refresh(today)
    /\ SetDay(today, Recalculated(Loaded(today), Source(today), today))
    /\ UNCHANGED <<today, snap, journal, slow, raced, acts>>

(* Mutant: only today's day falls due.                                     *)
Due_TodayOnly(d) ==
    day[d].status \in Writable /\ d = today /\ ~day[d].auto

(* auto_submit_due_ledgers, alone or after an auto_open_due_ledgers that   *)
(* opened nothing: then today's day is brought up to date with it.         *)
Due(d) ==
    /\ day[d].status \in Writable
    /\ d < today \/ (d = today /\ ~day[d].auto)

SubmitDue(refresh) ==
    LET fresh(d) == refresh /\ d = today
        source(d) == IF fresh(d) THEN Source(d) ELSE carried[d]
        ledger(d) == IF Due(d) \/ fresh(d) THEN Recalculated(day[d], source(d), d) ELSE day[d]
    IN  /\ \E d \in Days : Due(d)
        /\ refresh => day[today].status # "none"
        /\ row' = row
        /\ carried' = [d \in Days |-> source(d)]
        /\ day' = [d \in Days |->
              IF Due(d) THEN Submitted(ledger(d), NoCount, TRUE) ELSE ledger(d)]
        /\ snap' = [d \in Days |-> IF Due(d) THEN Snapshot("auto", day'[d]) ELSE snap[d]]
        /\ late' = (late \ {d \in Days : fresh(d) /\ Open(d)})
                       \cup UNION {After(d) : d \in {k \in Days : Due(k)}}
        /\ UNCHANGED <<today, journal, slow, raced, acts>>

Midnight == /\ today < LastDay /\ today' = today + 1
            /\ UNCHANGED <<day, carried, snap, row, journal, slow, history>>

-----------------------------------------------------------------------------
(* A slow transaction: it has loaded the ledger (and the expense it is to  *)
(* approve), found them as it needs, and had nothing to bring forward.     *)
Load(kind, r, d, count) ==
    /\ slow.kind = "none"
    /\ Acting
    /\ row' = row
    /\ day[d].status # "none" /\ carried[d] = Source(d)
    /\ slow' = [kind |-> kind, row |-> r, day |-> d, count |-> count,
                ledger |-> day[d], seen |-> IF r = NoCount THEN NoRow ELSE row[r]]
    /\ UNCHANGED <<today, day, carried, snap, journal, late, raced>>

LoadPayment(p, d) ==
    row[p].state = "none" /\ d <= today /\ Accepts(d, FALSE) /\ Load("post", p, d, NoCount)
LoadApproval(x) ==
    /\ row[x].state = "pending" /\ day[row[x].day].status \in Writable
    /\ Load("approve", x, row[x].day, NoCount)
LoadSubmission(d, count) ==
    day[d].status \in Writable /\ Load("submit", NoCount, d, count)
LoadDue(d) == Due(d) /\ Load("auto", NoCount, d, NoCount)

(* It writes: what it changed in the ledger it had loaded.                 *)
Overtaken ==
    \/ day[slow.day] # slow.ledger
    \/ slow.row # NoCount /\ row[slow.row] # slow.seen
Write(new) ==
    /\ SetDay(slow.day, Changed(slow.ledger, new, day[slow.day]))
    /\ raced' = IF Overtaken THEN raced \cup {slow.day} ELSE raced
    /\ slow' = NoWork
    /\ UNCHANGED <<today, carried, acts>>

WritePayment ==
    /\ slow.kind = "post" /\ row[slow.row].state = "none"
    /\ Entering(slow.row, slow.day, "counted")
    /\ Write(Recalculated(Reopened(slow.ledger), carried[slow.day], slow.day))
    /\ UNCHANGED <<snap, journal, late>>

WriteApproval ==
    /\ slow.kind = "approve"
    /\ row' = [row EXCEPT ![slow.row].state = "counted"]
    /\ journal' = IF slow.seen.voided THEN journal ELSE journal \cup {slow.row}
    /\ Write(Recalculated(slow.ledger, carried[slow.day], slow.day))
    /\ UNCHANGED <<snap, late>>

WriteSubmission ==
    LET automatic == slow.kind = "auto"
        done == Submitted(Recalculated(slow.ledger, carried[slow.day], slow.day),
                          slow.count, automatic)
    IN  /\ slow.kind \in {"submit", "auto"}
        /\ row' = row
        /\ Write(done)
        /\ snap' = [snap EXCEPT ![slow.day] =
              Snapshot(IF automatic THEN "auto" ELSE "hand", done)]
        /\ late' = late \cup After(slow.day)
        /\ journal' = journal

Abandon == /\ slow.kind # "none" /\ slow' = NoWork
           /\ UNCHANGED <<today, day, carried, snap, row, journal, history>>

Next ==
    \/ \E d \in Days :
        \/ \E p \in Payments : \/ \E owner \in BOOLEAN : TakePayment(p, d, owner)
                               \/ LoadPayment(p, d)
        \/ \E x \in Expenses : Spend(x, d)
        \/ \E f \in Funds : \/ AddFund(f, d)
                            \/ \E count \in Counts(d) : Correct(f, d, count)
        \/ \E t \in Transfers : IssueFunding(t, d)
        \/ \E count \in Counts(d) : SubmitDay(d, count) \/ LoadSubmission(d, count)
        \/ ReopenDay(d)
        \/ View(d)
        \/ LoadDue(d)
    \/ \E x \in Expenses : SpendAgain(x) \/ Approve(x) \/ Reject(x) \/ LoadApproval(x)
    \/ \E t \in Transfers : ReceiveFunding(t)
    \/ \E r \in Rows \ Transfers : Void(r)
    \/ OpenToday
    \/ \E refresh \in BOOLEAN : SubmitDue(refresh)
    \/ Midnight
    \/ WritePayment
    \/ WriteApproval
    \/ WriteSubmission
    \/ Abandon

Spec == Init /\ [][Next]_vars
(* The scheduler wakes up every minute (treasury_scheduler.py:14).         *)
FairSpec == Spec /\ WF_vars(SubmitDue(FALSE))

-----------------------------------------------------------------------------
(* A locked day is the snapshot it was submitted as, and both are what its *)
(* rows add up to, however often it was reopened, corrected or refreshed:  *)
(* "A submitted day is a frozen operational snapshot"                      *)
(* (treasury_service.py:305).  Excused: a transaction that was overtaken.  *)
LockedIsAsSubmitted ==
    \A d \in Days :
        day[d].status \in Locked /\ d \notin raced =>
            /\ day[d].opening = OpeningOf(row, carried[d], d)
            /\ day[d].expected = snap[d].closing
            /\ snap[d].closing = ExpectedOf(row, carried[d], d)

(* Nothing is counted twice or lost over night: on a row of locked days,   *)
(* the last closing is everything that ever came in, less what went out,   *)
(* corrected by what was counted; and the gateway channel takes no count.  *)
(* Excused: an earlier day closed after the next had been carried.         *)
NothingLostOverNight ==
    \A d \in Days :
        LET line == Before(d) \cup {d}
            flow == [k \in line |-> Net(Counted(row, k)) + Closing(day[k]) - day[k].expected]
        IN  (\A k \in line : day[k].status \in Locked /\ k \notin raced \cup late) =>
            /\ GatewayOf(row, carried[d], d)
                  = Net(Gateway \cap UNION {Counted(row, k) : k \in line})
            /\ Closing(day[d]) = SumFunctionOnSet(flow, line)

(* The journals hold exactly the expenses and funds that count, whatever   *)
(* was approved, voided or corrected in between.                           *)
JournalsFollowRows ==
    \A r \in Expenses \cup Funds :
        row[r].day \notin raced =>
            (r \in journal <=> row[r].state = "counted" /\ ~row[r].voided)

(* "A physical closing count is evidence": no step takes it off a day that *)
(* is locked, whatever is corrected before it.                             *)
CountIsEvidence ==
    [][\A d \in Days :
          day[d].status \in Locked /\ day[d].declared # NoCount /\ d \notin raced'
              => day'[d].declared # NoCount]_vars

(* A past day that is open, or is opened again, is submitted: the          *)
(* scheduler "finalise[s] older reopened days" (treasury_service.py:1307). *)
PastDaysClose ==
    \A d \in Days \ {LastDay} :
        d < today /\ day[d].status \in Writable ~> day[d].status \in Locked
=============================================================================
