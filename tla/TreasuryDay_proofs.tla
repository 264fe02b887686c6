--------------------------- MODULE TreasuryDay_proofs ---------------------------
(***************************************************************************)
(* The treasury days of a branch, for every number of days, every set of   *)
(* rows, every amount and every interleaving with one slow transaction:    *)
(* the types, the frozen snapshot of a locked day, the closing count that no *)
(* correction drops, the balance that is carried over night, and the       *)
(* journals that follow the rows.                                          *)
(*                                                                         *)
(* The journals come first.  They are made inductive by what a slow approval *)
(* remembers: its expense was pending, is still on the same day, and whoever *)
(* changed it meanwhile put the day on the list of the overtaken.          *)
(*                                                                         *)
(* The days need the invariant Linked: a day that no earlier day was closed *)
(* behind, and whose predecessor is locked, carries exactly what its       *)
(* predecessor closed with.  Then nothing is lost over night, by induction *)
(* over the days of a line.  Most operations are a step of one day (DayStep); *)
(* a correction and the scheduler change several, and are taken apart.     *)
(***************************************************************************)
EXTENDS TreasuryDay, FiniteSums_proofs, TLAPS

Journalled == Expenses \cup Funds

RowsTyped == row \in [Rows -> RowStates]

(* A row that was never entered has no journal.                            *)
Fresh == \A r \in Rows : row[r].state = "none" => r \notin journal

(* What a slow transaction may rely on when it writes.                     *)
SlowOK ==
    /\ slow.kind = "approve" =>
          /\ slow.row \in Expenses
          /\ slow.row # NoCount
          /\ row[slow.row].state # "none"
          /\ row[slow.row].day = slow.day
          /\ slow.seen.state = "pending"
    /\ slow.kind = "post" => slow.row \in Payments /\ slow.day \in Days

JInv == RowsTyped /\ Fresh /\ SlowOK /\ JournalsFollowRows

(* A transaction that stays as it is, or is over.                          *)
SlowRests == slow' = slow \/ slow'.kind = "none"

(***************************************************************************)
(* A step that touches neither the rows nor their journals.                *)
(***************************************************************************)
LEMMA RowsStay ==
    ASSUME JInv, row' = row, journal' = journal, raced \subseteq raced', SlowRests
    PROVE  JInv'
<1>1. RowsTyped' /\ Fresh'
  BY DEF JInv, RowsTyped, Fresh
<1>2. SlowOK'
  <2>1. CASE slow' = slow
    BY <2>1 DEF JInv, SlowOK
  <2>2. CASE slow'.kind = "none"
    BY <2>2 DEF SlowOK
  <2> QED BY <2>1, <2>2 DEF SlowRests
<1>3. JournalsFollowRows'
  BY DEF JInv, JournalsFollowRows
<1> QED BY <1>1, <1>2, <1>3 DEF JInv

(***************************************************************************)
(* A step that enters a row or changes one that keeps its day.             *)
(***************************************************************************)
RowBecomes(r, new) ==
    /\ new \in RowStates /\ new.state # "none"
    /\ row' = [row EXCEPT ![r] = new]
    /\ row[r].state = "none" \/ new.day = row[r].day

JournalBecomes(r, new) ==
    /\ \A q \in Rows \ {r} : q \in journal' <=> q \in journal
    /\ r \in Journalled /\ new.day \notin raced' =>
          (r \in journal' <=> new.state = "counted" /\ ~new.voided)

LEMMA RowChanges ==
    ASSUME JInv, NEW r \in Rows, NEW new,
           RowBecomes(r, new), JournalBecomes(r, new),
           raced \subseteq raced', SlowRests
    PROVE  JInv'
<1>0. row'[r] = new /\ \A q \in Rows \ {r} : row'[q] = row[q]
  BY DEF RowBecomes, JInv, RowsTyped
<1>1. RowsTyped'
  BY DEF RowBecomes, JInv, RowsTyped
<1>2. Fresh'
  BY <1>0 DEF RowBecomes, JournalBecomes, JInv, Fresh
<1>3. SlowOK'
  <2>1. CASE slow'.kind = "none"
    BY <2>1 DEF SlowOK
  <2>2. CASE slow' = slow
    <3>1. Expenses \subseteq Rows
      BY DEF Rows
    <3>2. ASSUME slow.kind = "approve"
          PROVE  row'[slow.row].state # "none" /\ row'[slow.row].day = slow.day
      <4>1. slow.row \in Rows /\ row[slow.row].state # "none" /\ row[slow.row].day = slow.day
        BY <3>1, <3>2 DEF JInv, SlowOK
      <4>2. CASE slow.row = r
        BY <1>0, <4>1, <4>2 DEF RowBecomes
      <4>3. CASE slow.row # r
        BY <1>0, <4>1, <4>3
      <4> QED BY <4>2, <4>3
    <3> QED BY <2>2, <3>2 DEF JInv, SlowOK
  <2> QED BY <2>1, <2>2 DEF SlowRests
<1>4. JournalsFollowRows'
  <2> SUFFICES ASSUME NEW q \in Journalled, row'[q].day \notin raced'
               PROVE  q \in journal' <=> row'[q].state = "counted" /\ ~row'[q].voided
    BY DEF JournalsFollowRows, Journalled
  <2>1. q \in Rows
    BY DEF Journalled, Rows, Sources
  <2>2. CASE q = r
    BY <1>0, <2>2 DEF JournalBecomes
  <2>3. CASE q # r
    <3>1. row'[q] = row[q] /\ row[q].day \notin raced
      BY <1>0, <2>1, <2>3
    <3>2. q \in journal <=> row[q].state = "counted" /\ ~row[q].voided
      BY <3>1 DEF JInv, JournalsFollowRows, Journalled
    <3> QED BY <2>1, <2>3, <3>1, <3>2 DEF JournalBecomes
  <2> QED BY <2>2, <2>3
<1> QED BY <1>1, <1>2, <1>3, <1>4 DEF JInv

(***************************************************************************)
(* The two ways to change a field of a row.                                *)
(***************************************************************************)
LEMMA StateChanges ==
    ASSUME JInv, NEW r \in Rows, NEW s \in {"pending", "counted", "rejected"},
           row' = [row EXCEPT ![r].state = s], row[r].state # "none",
           JournalBecomes(r, [row[r] EXCEPT !.state = s]),
           raced \subseteq raced', SlowRests
    PROVE  JInv'
<1> DEFINE new == [row[r] EXCEPT !.state = s]
<1>1. row[r] \in RowStates
  BY DEF JInv, RowsTyped
<1>2. new \in RowStates /\ new.state = s /\ new.day = row[r].day
  BY <1>1 DEF RowStates
<1>3. RowBecomes(r, new)
  BY <1>2 DEF RowBecomes
<1> HIDE DEF new
<1>4. JournalBecomes(r, new)
  BY DEF new
<1> QED BY <1>3, <1>4, RowChanges

LEMMA RowVoided ==
    ASSUME JInv, NEW r \in Rows,
           row' = [row EXCEPT ![r].voided = TRUE], row[r].state # "none",
           journal' = journal \ {r}, raced' = raced, SlowRests
    PROVE  JInv'
<1> DEFINE new == [row[r] EXCEPT !.voided = TRUE]
<1>1. row[r] \in RowStates
  BY DEF JInv, RowsTyped
<1>2. new \in RowStates /\ new.voided /\ new.day = row[r].day /\ new.state = row[r].state
  BY <1>1 DEF RowStates
<1>3. RowBecomes(r, new)
  BY <1>2 DEF RowBecomes
<1>4. JournalBecomes(r, new)
  BY <1>2 DEF JournalBecomes
<1> HIDE DEF new
<1> QED BY <1>3, <1>4, RowChanges

-----------------------------------------------------------------------------
(***************************************************************************)
(* The operations, one lemma each for those that enter or change rows.     *)
(***************************************************************************)
LEMMA EntersRow ==
    ASSUME JInv, NEW r \in Rows, NEW d \in Days, NEW s \in {"pending", "counted"},
           row[r].state = "none", Entering(r, d, s),
           JournalBecomes(r, [state |-> s, day |-> d, voided |-> FALSE]),
           raced \subseteq raced', SlowRests
    PROVE  JInv'
<1> DEFINE new == [state |-> s, day |-> d, voided |-> FALSE]
<1>1. new \in RowStates /\ new.state # "none"
  BY DEF RowStates
<1>2. RowBecomes(r, new)
  BY <1>1 DEF RowBecomes, Entering
<1> HIDE DEF new
<1>3. JournalBecomes(r, new)
  BY DEF new
<1> QED BY <1>2, <1>3, RowChanges

LEMMA TakesPayment ==
    ASSUME JInv, NEW p \in Payments, NEW d \in Days, NEW owner, TakePayment(p, d, owner)
    PROVE  JInv'
<1>1. p \in Rows /\ p \notin Journalled
  BY RowsAssumption DEF Rows, Sources, Journalled
<1>2. Entering(p, d, "counted") /\ row[p].state = "none"
  BY DEF TakePayment
<1>3. journal' = journal /\ raced' = raced /\ slow' = slow
  BY DEF TakePayment
<1>4. JournalBecomes(p, [state |-> "counted", day |-> d, voided |-> FALSE])
  BY <1>1, <1>3 DEF JournalBecomes
<1> QED BY <1>1, <1>2, <1>3, <1>4, EntersRow DEF SlowRests

LEMMA Spends ==
    ASSUME JInv, NEW x \in Expenses, NEW d \in Days, Spend(x, d)
    PROVE  JInv'
<1> DEFINE s == IF x \in NeedApproval THEN "pending" ELSE "counted"
<1>1. x \in Rows /\ s \in {"pending", "counted"}
  BY DEF Rows
<1>2. Enter(x, d, s) /\ journal' = IF s = "counted" THEN journal \cup {x} ELSE journal
  BY DEF Spend
<1> HIDE DEF s
<1>3. row[x].state = "none" /\ Entering(x, d, s) /\ raced' = raced /\ slow' = slow
  BY <1>2 DEF Enter
<1>4. x \notin journal
  BY <1>1, <1>3 DEF JInv, Fresh
<1>5. JournalBecomes(x, [state |-> s, day |-> d, voided |-> FALSE])
  BY <1>1, <1>2, <1>4 DEF JournalBecomes
<1> QED BY <1>1, <1>3, <1>5, EntersRow DEF SlowRests

LEMMA AddsFund ==
    ASSUME JInv, NEW f \in Funds, NEW d \in Days,
           row[f].state = "none", Entering(f, d, "counted"), journal' = journal \cup {f},
           raced' = raced, slow' = slow
    PROVE  JInv'
<1>1. f \in Rows
  BY DEF Rows, Sources
<1>2. JournalBecomes(f, [state |-> "counted", day |-> d, voided |-> FALSE])
  BY DEF JournalBecomes
<1> QED BY <1>1, <1>2, EntersRow DEF SlowRests

LEMMA IssuesFunding ==
    ASSUME JInv, NEW t \in Transfers, NEW d \in Days, IssueFunding(t, d)
    PROVE  JInv'
<1>1. t \in Rows /\ t \notin Journalled
  BY RowsAssumption DEF Rows, Sources, Journalled
<1>2. /\ Entering(t, d, "pending") /\ row[t].state = "none"
      /\ journal' = journal /\ raced' = raced /\ slow' = slow
  BY DEF IssueFunding, Enter
<1>3. JournalBecomes(t, [state |-> "pending", day |-> d, voided |-> FALSE])
  BY <1>1, <1>2 DEF JournalBecomes
<1> QED BY <1>1, <1>2, <1>3, EntersRow DEF SlowRests

(* A pending row has no journal, as far as its day is not excused.         *)
LEMMA PendingHasNone ==
    ASSUME JInv, NEW x \in Journalled, row[x].state = "pending", row[x].day \notin raced
    PROVE  x \notin journal
BY DEF JInv, JournalsFollowRows, Journalled

LEMMA Approves ==
    ASSUME JInv, NEW x \in Expenses, Approve(x)
    PROVE  JInv'
<1> DEFINE new == [row[x] EXCEPT !.state = "counted"]
<1>1. x \in Rows /\ x \in Journalled /\ row[x] \in RowStates
  BY DEF Rows, Journalled, JInv, RowsTyped
<1>2. /\ row[x].state = "pending"
      /\ row' = [row EXCEPT ![x].state = "counted"]
      /\ journal' = IF row[x].voided THEN journal ELSE journal \cup {x}
      /\ raced' = raced /\ slow' = slow
  BY DEF Approve, Revalue, history
<1>3. new.state = "counted" /\ new.voided = row[x].voided /\ new.day = row[x].day
  BY <1>1 DEF RowStates
<1>4. new.day \notin raced' => (x \in journal' <=> ~new.voided)
  BY <1>1, <1>2, <1>3, PendingHasNone
<1>5. JournalBecomes(x, new)
  BY <1>2, <1>3, <1>4 DEF JournalBecomes
<1> HIDE DEF new
<1>6. JournalBecomes(x, [row[x] EXCEPT !.state = "counted"])
  BY <1>5 DEF new
<1> QED BY <1>1, <1>2, <1>6, StateChanges DEF SlowRests

LEMMA Rejects ==
    ASSUME JInv, NEW x \in Expenses, Reject(x)
    PROVE  JInv'
<1> DEFINE new == [row[x] EXCEPT !.state = "rejected"]
<1>1. x \in Rows /\ x \in Journalled /\ row[x] \in RowStates
  BY DEF Rows, Journalled, JInv, RowsTyped
<1>2. /\ row[x].state = "pending"
      /\ row' = [row EXCEPT ![x].state = "rejected"]
      /\ journal' = journal /\ raced' = raced /\ slow' = slow
  BY DEF Reject, Revalue, history
<1>3. new.state = "rejected" /\ new.day = row[x].day
  BY <1>1 DEF RowStates
<1>4. new.day \notin raced' => x \notin journal'
  BY <1>1, <1>2, <1>3, PendingHasNone
<1>5. JournalBecomes(x, new)
  BY <1>2, <1>3, <1>4 DEF JournalBecomes
<1> HIDE DEF new
<1>6. JournalBecomes(x, [row[x] EXCEPT !.state = "rejected"])
  BY <1>5 DEF new
<1> QED BY <1>1, <1>2, <1>6, StateChanges DEF SlowRests

LEMMA ReceivesFunding ==
    ASSUME JInv, NEW t \in Transfers, ReceiveFunding(t)
    PROVE  JInv'
<1>1. t \in Rows /\ t \notin Journalled
  BY RowsAssumption DEF Rows, Sources, Journalled
<1>2. /\ row[t].state = "pending" /\ row' = [row EXCEPT ![t].state = "counted"]
      /\ journal' = journal /\ raced' = raced /\ slow' = slow
  BY DEF ReceiveFunding, Revalue, history
<1>3. JournalBecomes(t, [row[t] EXCEPT !.state = "counted"])
  BY <1>1, <1>2 DEF JournalBecomes
<1> QED BY <1>1, <1>2, <1>3, StateChanges DEF SlowRests

LEMMA Voids ==
    ASSUME JInv, NEW r \in Rows, Void(r)
    PROVE  JInv'
BY RowVoided DEF Void, Revalue, history, SlowRests

-----------------------------------------------------------------------------
(***************************************************************************)
(* The slow transaction.                                                   *)
(***************************************************************************)
LEMMA Loads ==
    ASSUME JInv, NEW kind, NEW r, NEW d \in Days, NEW count, Load(kind, r, d, count),
           kind = "approve" => r \in Expenses /\ row[r].state = "pending" /\ d = row[r].day,
           kind = "post" => r \in Payments
    PROVE  JInv'
<1>1. /\ row' = row /\ journal' = journal /\ raced' = raced
      /\ slow'.kind = kind /\ slow'.row = r /\ slow'.day = d
      /\ slow'.seen = IF r = NoCount THEN NoRow ELSE row[r]
  BY DEF Load
<1>2. RowsTyped' /\ Fresh' /\ JournalsFollowRows'
  BY <1>1 DEF JInv, RowsTyped, Fresh, JournalsFollowRows
<1>3. SlowOK'
  <2>1. CASE kind = "approve"
    <3>1. r \in Rows /\ r # NoCount
      BY <2>1, NoCountAssumption DEF Rows
    <3>2. slow'.seen = row[r]
      BY <1>1, <3>1
    <3> QED BY <1>1, <2>1, <3>1, <3>2 DEF SlowOK
  <2>2. CASE kind # "approve"
    BY <1>1, <2>2 DEF SlowOK
  <2> QED BY <2>1, <2>2
<1> QED BY <1>2, <1>3 DEF JInv

LEMMA WritesPayment ==
    ASSUME JInv, WritePayment
    PROVE  JInv'
<1> DEFINE p == slow.row
           d == slow.day
<1>1. p \in Payments /\ d \in Days
  BY DEF WritePayment, JInv, SlowOK
<1>2. p \in Rows /\ p \notin Journalled
  BY <1>1, RowsAssumption DEF Rows, Sources, Journalled
<1>3. /\ row[p].state = "none" /\ Entering(p, d, "counted") /\ journal' = journal
      /\ raced \subseteq raced' /\ slow' = NoWork
  BY DEF WritePayment, Write
<1> HIDE DEF p, d
<1>4. JournalBecomes(p, [state |-> "counted", day |-> d, voided |-> FALSE])
  BY <1>2, <1>3 DEF JournalBecomes
<1> QED BY <1>1, <1>2, <1>3, <1>4, EntersRow DEF SlowRests, NoWork

(* Either nobody changed the expense, or its day is overtaken.             *)
LEMMA WritesApproval ==
    ASSUME JInv, WriteApproval
    PROVE  JInv'
<1> DEFINE x == slow.row
           new == [row[x] EXCEPT !.state = "counted"]
<1>1. /\ x \in Expenses /\ x # NoCount /\ row[x].state # "none" /\ row[x].day = slow.day
      /\ slow.seen.state = "pending"
  BY DEF WriteApproval, JInv, SlowOK
<1>2. x \in Rows /\ x \in Journalled /\ row[x] \in RowStates
  BY <1>1 DEF Rows, Journalled, JInv, RowsTyped
<1>3. /\ row' = [row EXCEPT ![x].state = "counted"]
      /\ journal' = IF slow.seen.voided THEN journal ELSE journal \cup {x}
      /\ raced' = IF Overtaken THEN raced \cup {slow.day} ELSE raced
      /\ slow' = NoWork
  BY DEF WriteApproval, Write
<1>4. new.state = "counted" /\ new.voided = row[x].voided /\ new.day = row[x].day
  BY <1>2 DEF RowStates
<1>5. ASSUME new.day \notin raced'
      PROVE  x \in journal' <=> ~new.voided
  <2>1. row[x].day \notin raced' /\ raced \subseteq raced'
    BY <1>3, <1>4, <1>5
  <2>2. row[x] = slow.seen
    BY <1>1, <1>3, <2>1 DEF Overtaken
  <2>3. x \notin journal
    BY <1>1, <1>2, <2>1, <2>2, PendingHasNone
  <2> QED BY <1>2, <1>3, <1>4, <2>2, <2>3
<1>6. JournalBecomes(x, new)
  BY <1>3, <1>4, <1>5 DEF JournalBecomes
<1> HIDE DEF new
<1>7. JournalBecomes(x, [row[x] EXCEPT !.state = "counted"])
  BY <1>6 DEF new
<1>8. raced \subseteq raced' /\ SlowRests
  BY <1>3 DEF SlowRests, NoWork
<1> HIDE DEF x
<1> QED BY <1>1, <1>2, <1>3, <1>7, <1>8, StateChanges

-----------------------------------------------------------------------------
(***************************************************************************)
(* The invariant.                                                          *)
(***************************************************************************)
LEMMA JInvInit == Init => JInv
<1> SUFFICES ASSUME Init PROVE JInv
  OBVIOUS
<1>1. NoRow \in RowStates
  BY DaysAssumption DEF NoRow, RowStates, Days
<1>2. RowsTyped
  BY <1>1 DEF Init, RowsTyped
<1>3. journal = {} /\ slow = NoWork /\ \A r \in Rows : row[r].state = "none"
  BY DEF Init, NoRow
<1>4. Fresh
  BY <1>3 DEF Fresh
<1>5. SlowOK
  BY <1>3 DEF SlowOK, NoWork
<1>6. Expenses \cup Funds \subseteq Rows
  BY DEF Rows, Sources
<1>7. JournalsFollowRows
  BY <1>3, <1>6 DEF JournalsFollowRows
<1> QED BY <1>2, <1>4, <1>5, <1>7 DEF JInv

LEMMA JInvStep == JInv /\ [Next]_vars => JInv'
<1> SUFFICES ASSUME JInv, [Next]_vars PROVE JInv'
  OBVIOUS
<1>1. ASSUME NEW d \in Days, NEW p \in Payments, NEW owner \in BOOLEAN, TakePayment(p, d, owner)
      PROVE  JInv'
  BY <1>1, TakesPayment
<1>2. ASSUME NEW d \in Days, NEW p \in Payments, LoadPayment(p, d)
      PROVE  JInv'
  <2>1. Load("post", p, d, NoCount)
    BY <1>2 DEF LoadPayment
  <2> QED BY <1>2, <2>1, Loads
<1>3. ASSUME NEW d \in Days, NEW x \in Expenses, Spend(x, d)
      PROVE  JInv'
  BY <1>3, Spends
<1>4. ASSUME NEW d \in Days, NEW f \in Funds, AddFund(f, d)
      PROVE  JInv'
  BY <1>4, AddsFund DEF AddFund, Enter
<1>5. ASSUME NEW d \in Days, NEW f \in Funds, NEW count, Correct(f, d, count)
      PROVE  JInv'
  BY <1>5, AddsFund DEF Correct
<1>6. ASSUME NEW d \in Days, NEW t \in Transfers, IssueFunding(t, d)
      PROVE  JInv'
  BY <1>6, IssuesFunding
<1>7. ASSUME NEW d \in Days, NEW count, SubmitDay(d, count)
      PROVE  JInv'
  BY <1>7, RowsStay DEF SubmitDay, SlowRests
<1>8. ASSUME NEW d \in Days, NEW count, LoadSubmission(d, count)
      PROVE  JInv'
  <2>1. Load("submit", NoCount, d, count)
    BY <1>8 DEF LoadSubmission
  <2> QED BY <2>1, Loads
<1>9. ASSUME NEW d \in Days, ReopenDay(d) \/ View(d)
      PROVE  JInv'
  BY <1>9, RowsStay DEF ReopenDay, View, SlowRests
<1>10. ASSUME NEW d \in Days, LoadDue(d)
       PROVE  JInv'
  <2>1. Load("auto", NoCount, d, NoCount)
    BY <1>10 DEF LoadDue
  <2> QED BY <2>1, Loads
<1>11. ASSUME NEW x \in Expenses, SpendAgain(x)
       PROVE  JInv'
  BY <1>11, RowsStay DEF SpendAgain, SlowRests
<1>12. ASSUME NEW x \in Expenses, Approve(x) \/ Reject(x)
       PROVE  JInv'
  BY <1>12, Approves, Rejects
<1>13. ASSUME NEW x \in Expenses, LoadApproval(x)
       PROVE  JInv'
  <2>1. x \in Rows /\ row[x].day \in Days
    BY DEF Rows, JInv, RowsTyped, RowStates
  <2>2. row[x].state = "pending" /\ Load("approve", x, row[x].day, NoCount)
    BY <1>13 DEF LoadApproval
  <2> QED BY <2>1, <2>2, Loads
<1>14. ASSUME NEW t \in Transfers, ReceiveFunding(t)
       PROVE  JInv'
  BY <1>14, ReceivesFunding
<1>15. ASSUME NEW r \in Rows \ Transfers, Void(r)
       PROVE  JInv'
  BY <1>15, Voids
<1>16. ASSUME OpenToday \/ Midnight \/ Abandon
       PROVE  JInv'
  BY <1>16, RowsStay DEF OpenToday, Midnight, Abandon, history, SlowRests, NoWork
<1>17. ASSUME NEW refresh \in BOOLEAN, SubmitDue(refresh)
       PROVE  JInv'
  BY <1>17, RowsStay DEF SubmitDue, SlowRests
<1>18. ASSUME WritePayment \/ WriteApproval
       PROVE  JInv'
  BY <1>18, WritesPayment, WritesApproval
<1>19. ASSUME WriteSubmission
       PROVE  JInv'
  <2>1. row' = row /\ journal' = journal /\ raced \subseteq raced' /\ slow' = NoWork
    BY <1>19 DEF WriteSubmission, Write
  <2> QED BY <2>1, RowsStay DEF SlowRests, NoWork
<1>20. CASE UNCHANGED vars
  BY <1>20, RowsStay DEF vars, SlowRests
<1> QED
  BY <1>1, <1>2, <1>3, <1>4, <1>5, <1>6, <1>7, <1>8, <1>9, <1>10, <1>11, <1>12, <1>13,
     <1>14, <1>15, <1>16, <1>17, <1>18, <1>19, <1>20
  DEF Next

(***************************************************************************)
(* The journals hold exactly the expenses and funds that count.            *)
(***************************************************************************)
THEOREM JournalsAgree == Spec => []JournalsFollowRows
<1>1. JInv => JournalsFollowRows
  BY DEF JInv
<1> QED BY <1>1, JInvInit, JInvStep, PTL DEF Spec
-----------------------------------------------------------------------------

-----------------------------------------------------------------------------
(***************************************************************************)
(* The ledgers of the days: what the operators of the module make of them. *)
(***************************************************************************)
Channels == [cash : Int, gateway : Int]

(* Sums of rows are integers.                                              *)
LEMMA NetInt ==
    ASSUME NEW S \in SUBSET Rows
    PROVE  Sums[S] \in Int /\ Net(S) \in Int
<1>1. ASSUME NEW T \in SUBSET Rows PROVE Sums[T] \in Int
  <2>1. IsFiniteSet(T) /\ \A x \in T : Amount[x] \in Int
    BY RowsAssumption, FS_Subset
  <2>2. Sums[T] = SumFunctionOnSet(Amount, T)
    BY DEF Sums
  <2> QED BY <2>1, <2>2, SumInt
<1>2. S \ Expenses \in SUBSET Rows /\ S \cap Expenses \in SUBSET Rows
  OBVIOUS
<1> DEFINE a == Sums[S \ Expenses]
           b == Sums[S \cap Expenses]
<1>3. a \in Int /\ b \in Int
  BY <1>1, <1>2
<1>4. Net(S) = a - b
  BY DEF Net
<1> HIDE DEF a, b
<1> QED BY <1>1, <1>3, <1>4

LEMMA DerivedInt ==
    ASSUME NEW rows, NEW c \in Channels, NEW d
    PROVE  /\ OpeningOf(rows, c, d) \in Int
           /\ ExpectedOf(rows, c, d) \in Int
           /\ GatewayOf(rows, c, d) \in Int
<1> DEFINE S == Counted(rows, d)
<1>1. S \in SUBSET Rows /\ S \cap Sources \in SUBSET Rows /\ S \cap Gateway \in SUBSET Rows
  BY DEF Counted
<1> HIDE DEF S
<1>2. Sums[S \cap Sources] \in Int /\ Net(S) \in Int /\ Net(S \cap Gateway) \in Int
  BY <1>1, NetInt
<1>3. c.cash \in Int /\ c.gateway \in Int
  BY DEF Channels
<1> DEFINE x == Sums[S \cap Sources]
           y == Net(S)
           z == Net(S \cap Gateway)
<1>4. /\ OpeningOf(rows, c, d) = (c.cash + c.gateway) + x
      /\ ExpectedOf(rows, c, d) = (c.cash + c.gateway) + y
      /\ GatewayOf(rows, c, d) = c.gateway + z
  BY DEF OpeningOf, ExpectedOf, GatewayOf, Total, S
<1> HIDE DEF x, y, z
<1>5. x \in Int /\ y \in Int /\ z \in Int
  BY <1>2 DEF x, y, z
<1> QED BY <1>3, <1>4, <1>5

(* A recalculated ledger.                                                  *)
LEMMA RecalculatedIs ==
    ASSUME NEW ledger \in Ledgers, NEW c \in Channels, NEW d
    PROVE  /\ Recalculated(ledger, c, d) \in Ledgers
           /\ Recalculated(ledger, c, d).status = ledger.status
           /\ Recalculated(ledger, c, d).declared = ledger.declared
           /\ Recalculated(ledger, c, d).auto = ledger.auto
           /\ Recalculated(ledger, c, d).opening = OpeningOf(row', c, d)
           /\ Recalculated(ledger, c, d).expected = ExpectedOf(row', c, d)
<1> DEFINE x == OpeningOf(row', c, d)
           y == ExpectedOf(row', c, d)
<1>1. x \in Int /\ y \in Int
  BY DerivedInt
<1>2. Recalculated(ledger, c, d) = [ledger EXCEPT !.opening = x, !.expected = y]
  BY DEF Recalculated
<1> HIDE DEF x, y
<1>3. /\ [ledger EXCEPT !.opening = x, !.expected = y] \in Ledgers
      /\ [ledger EXCEPT !.opening = x, !.expected = y].status = ledger.status
      /\ [ledger EXCEPT !.opening = x, !.expected = y].declared = ledger.declared
      /\ [ledger EXCEPT !.opening = x, !.expected = y].auto = ledger.auto
      /\ [ledger EXCEPT !.opening = x, !.expected = y].opening = x
      /\ [ledger EXCEPT !.opening = x, !.expected = y].expected = y
  BY <1>1 DEF Ledgers
<1> QED BY <1>2, <1>3 DEF x, y

LEMMA ReopenedIs ==
    ASSUME NEW ledger \in Ledgers, ledger.status # "none"
    PROVE  /\ Reopened(ledger) \in Ledgers
           /\ Reopened(ledger).status \in Writable
           /\ Reopened(ledger).declared = ledger.declared
BY DEF Reopened, Ledgers, Writable, Locked

LEMMA LoadedIs ==
    ASSUME NEW d \in Days, day[d] \in Ledgers
    PROVE  /\ Loaded(d) \in Ledgers
           /\ Loaded(d).status = IF day[d].status = "none" THEN "open" ELSE day[d].status
           /\ Loaded(d).declared = day[d].declared
BY DEF Loaded, Ledgers, Writable

LEMMA SubmittedIs ==
    ASSUME NEW ledger \in Ledgers, NEW count \in Int \cup {NoCount}, NEW automatic \in BOOLEAN
    PROVE  /\ Submitted(ledger, count, automatic) \in Ledgers
           /\ Submitted(ledger, count, automatic).status \in Locked
           /\ Submitted(ledger, count, automatic).opening = ledger.opening
           /\ Submitted(ledger, count, automatic).expected = ledger.expected
           /\ Submitted(ledger, count, automatic).declared = count
BY DEF Submitted, Ledgers, Locked

LEMMA ChangedIs ==
    ASSUME NEW seen \in Ledgers, NEW new \in Ledgers, NEW now \in Ledgers
    PROVE  /\ Changed(seen, new, now) \in Ledgers
           /\ now = seen => Changed(seen, new, now) = new
           /\ Changed(seen, new, now).status \in {new.status, now.status}
<1>1. DOMAIN new = {"status", "opening", "expected", "declared", "auto"}
  BY DEF Ledgers
<1>2. Changed(seen, new, now) =
        [status |-> IF new.status = seen.status THEN now.status ELSE new.status,
         opening |-> IF new.opening = seen.opening THEN now.opening ELSE new.opening,
         expected |-> IF new.expected = seen.expected THEN now.expected ELSE new.expected,
         declared |-> IF new.declared = seen.declared THEN now.declared ELSE new.declared,
         auto |-> IF new.auto = seen.auto THEN now.auto ELSE new.auto]
  BY <1>1 DEF Changed
<1>3. Changed(seen, new, now) \in Ledgers
  BY <1>2 DEF Ledgers
<1>4. now = seen => Changed(seen, new, now) = new
  BY <1>2 DEF Ledgers
<1> QED BY <1>2, <1>3, <1>4

(* The latest of some days.                                                *)
LEMMA LatestDay ==
    ASSUME NEW S \in SUBSET Days, S # {}
    PROVE  Max(S) \in S /\ \A k \in S : k <= Max(S)
<1> DEFINE Left == {LastDay - k : k \in S}
<1>1. LastDay \in Nat
  BY DaysAssumption
<1>2. Left \subseteq Nat /\ Left # {}
  <2>1. \A k \in S : k \in Int /\ k <= LastDay
    BY <1>1 DEF Days
  <2>2. \A k \in S : LastDay - k \in Nat
    BY <1>1, <2>1
  <2> QED BY <2>2
<1> HIDE DEF Left
<1>3. PICK n \in Left : \A m \in Left : n <= m
  BY <1>2, LeastNumber
<1>4. PICK j \in S : n = LastDay - j
  BY <1>3 DEF Left
<1>5. \A k \in S : k <= j
  <2> TAKE k \in S
  <2>1. LastDay - j <= LastDay - k
    BY <1>3, <1>4 DEF Left
  <2> QED BY <1>1, <2>1 DEF Days
<1>6. \A y \in S : j >= y
  BY <1>5 DEF Days
<1>7. Max(S) \in S /\ \A y \in S : Max(S) >= y
  BY <1>6 DEF Max
<1> QED BY <1>7 DEF Days

LEMMA BroughtFromIs ==
    ASSUME NEW ledger \in Ledgers, NEW c \in Channels, NEW p
    PROVE  BroughtFrom(ledger, c, p) \in Channels
<1> DEFINE g == GatewayOf(row', c, p)
           e == Closing(ledger)
<1>1. g \in Int
  BY DerivedInt
<1>2. e \in Int
  BY DEF Closing, Ledgers
<1>3. BroughtFrom(ledger, c, p) = [cash |-> e - g, gateway |-> g]
  BY DEF BroughtFrom
<1> HIDE DEF g, e
<1> QED BY <1>1, <1>2, <1>3 DEF Channels

DaysTyped ==
    day \in [Days -> Ledgers] /\ carried \in [Days -> Channels]

LEMMA SourceIs ==
    ASSUME DaysTyped, NEW d \in Days
    PROVE  Brought(d) \in Channels /\ Source(d) \in Channels
<1>1. Nothing \in Channels
  BY DEF Nothing, Channels
<1>2. Before(d) \in SUBSET Days
  BY DEF Before, Existing
<1>3. ASSUME Before(d) # {} PROVE Brought(d) \in Channels
  <2> DEFINE p == Max(Before(d))
  <2>1. p \in Days
    BY <1>2, <1>3, LatestDay
  <2>2. Brought(d) = BroughtFrom(day[p], carried[p], p)
    BY <1>3 DEF Brought
  <2> HIDE DEF p
  <2> QED BY <2>1, <2>2, BroughtFromIs DEF DaysTyped
<1>4. Brought(d) \in Channels
  BY <1>1, <1>3 DEF Brought
<1> QED BY <1>4 DEF Source, DaysTyped

-----------------------------------------------------------------------------
(* The chain of a correction is defined by recursion over the days; it     *)
(* satisfies its equation, as each day is computed from an earlier one.    *)
LinkOf(f, d, count, k) ==
    LET existing == Existing \cup {d}
        given == IF count # NoCount THEN count ELSE day[d].declared
    IN  IF k < d \/ k \notin existing THEN [ledger |-> day[k], source |-> carried[k]]
        ELSE IF k = d
        THEN [source |-> Source(d),
              ledger |-> Revised(day[d], Recalculated(Loaded(d), Source(d), d), given)]
        ELSE LET p == Max({j \in existing : j < k})
                 c == BroughtFrom(f[p].ledger, f[p].source, p)
             IN  [source |-> c,
                  ledger |-> Revised(day[k], Recalculated(day[k], c, k), day[k].declared)]

LEMMA LinkLooksBack ==
    ASSUME NEW d \in Days, NEW count, NEW k \in Days, NEW f, NEW g,
           \A j \in Days : j < k => f[j] = g[j]
    PROVE  LinkOf(f, d, count, k) = LinkOf(g, d, count, k)
<1>1. CASE k < d \/ k \notin Existing \cup {d} \/ k = d
  BY <1>1 DEF LinkOf
<1>2. CASE ~(k < d) /\ k \in Existing \cup {d} /\ k # d
  <2> DEFINE S == {j \in Existing \cup {d} : j < k}
             p == Max(S)
  <2>1. S \in SUBSET Days
    BY DEF Existing
  <2>2. d \in S
    BY <1>2 DEF Days
  <2> HIDE DEF S
  <2>3. p \in S
    BY <2>1, <2>2, LatestDay
  <2>4. f[p] = g[p]
    BY <2>3 DEF S, Existing
  <2>5. LinkOf(f, d, count, k) = LinkOf(g, d, count, k)
    BY <1>2, <2>4 DEF LinkOf, S
  <2> QED BY <2>5
<1> QED BY <1>1, <1>2

IsChain(f, n, d, count) == f = [k \in 1 .. n |-> LinkOf(f, d, count, k)]

LEMMA ChainExists ==
    ASSUME NEW d \in Days, NEW count
    PROVE  \E f : IsChain(f, LastDay, d, count)
<1> DEFINE Bad == {n \in 0 .. LastDay : ~ \E f : IsChain(f, n, d, count)}
<1>1. LastDay \in Nat
  BY DaysAssumption
<1>2. SUFFICES ASSUME Bad # {} PROVE FALSE
  BY <1>1
<1>3. PICK n \in Bad : \A m \in Bad : n <= m
  <2>1. Bad \subseteq Nat
    BY <1>1
  <2> HIDE DEF Bad
  <2> QED BY <1>2, <2>1, LeastNumber
<1>4. n # 0
  <2>1. IsChain([k \in 1 .. 0 |-> 0], 0, d, count)
    <3>1. 1 .. 0 = {}
      OBVIOUS
    <3> QED BY <3>1 DEF IsChain
  <2> QED BY <2>1
<1>5. PICK g : IsChain(g, n - 1, d, count)
  <2>1. n \in 0 .. LastDay /\ n - 1 \in 0 .. LastDay /\ ~(n <= n - 1)
    BY <1>1, <1>4
  <2>2. n - 1 \notin Bad
    BY <1>3, <2>1
  <2> QED BY <2>1, <2>2
<1> DEFINE h == [k \in 1 .. n |-> IF k < n THEN g[k] ELSE LinkOf(g, d, count, k)]
<1>6. ASSUME NEW k \in 1 .. n PROVE h[k] = LinkOf(h, d, count, k)
  <2>1. k \in Days /\ n \in Int
    BY <1>1 DEF Days
  <2>2. \A j \in Days : j < k => g[j] = h[j]
    BY <2>1 DEF Days
  <2>3. LinkOf(g, d, count, k) = LinkOf(h, d, count, k)
    <3> HIDE DEF h
    <3> QED BY <2>1, <2>2, LinkLooksBack
  <2>4. k < n => g[k] = LinkOf(g, d, count, k)
    <3> SUFFICES ASSUME k < n PROVE g[k] = LinkOf(g, d, count, k)
      OBVIOUS
    <3>1. k \in 1 .. (n - 1)
      BY <2>1
    <3> QED BY <1>5, <3>1 DEF IsChain
  <2>5. h[k] = LinkOf(g, d, count, k)
    BY <2>4
  <2> QED BY <2>3, <2>5
<1>7. h = [k \in 1 .. n |-> LinkOf(h, d, count, k)]
  <2>1. h = [k \in 1 .. n |-> h[k]]
    OBVIOUS
  <2> HIDE DEF h
  <2> QED BY <1>6, <2>1
<1> HIDE DEF h
<1>8. IsChain(h, n, d, count)
  BY <1>7 DEF IsChain
<1> QED BY <1>8

LEMMA ChainIs ==
    ASSUME NEW d \in Days, NEW count, NEW k \in Days
    PROVE  Chain(d, count)[k] = LinkOf(Chain(d, count), d, count, k)
<1>1. PICK f : IsChain(f, LastDay, d, count)
  BY ChainExists
<1> DEFINE c == CHOOSE g : g = [j \in Days |-> LinkOf(g, d, count, j)]
<1>2. c = [j \in Days |-> LinkOf(c, d, count, j)]
  BY <1>1 DEF IsChain, Days
<1>3. Chain(d, count) = c
  BY DEF Chain, LinkOf
<1> HIDE DEF c
<1>4. c[k] = LinkOf(c, d, count, k)
  BY <1>2
<1> QED BY <1>3, <1>4

LEMMA RevisedIs ==
    ASSUME NEW before \in Ledgers, NEW now \in Ledgers, NEW count \in Int \cup {NoCount}
    PROVE  /\ Revised(before, now, count) \in Ledgers
           /\ Revised(before, now, count).opening = now.opening
           /\ Revised(before, now, count).expected = now.expected
           /\ Revised(before, now, count).status \in
                 IF before.status \in Locked THEN Locked ELSE {now.status}
           /\ Revised(before, now, count).declared =
                 IF before.status \in Locked THEN count ELSE now.declared
BY SubmittedIs DEF Revised

(* What the chain makes of a day.                                          *)
Given(d, count) == IF count # NoCount THEN count ELSE day[d].declared

LEMMA ChainTyped ==
    ASSUME DaysTyped, NEW d \in Days, NEW count \in Int \cup {NoCount}, NEW k \in Days
    PROVE  /\ Chain(d, count)[k].ledger \in Ledgers
           /\ Chain(d, count)[k].source \in Channels
<1> DEFINE c == Chain(d, count)
           Good(j) == c[j].ledger \in Ledgers /\ c[j].source \in Channels
           Bad == {j \in Days : ~Good(j)}
<1>1. SUFFICES ASSUME Bad # {} PROVE FALSE
  OBVIOUS
<1>2. PICK j \in Bad : \A m \in Bad : j <= m
  <2>1. Bad \subseteq Nat
    BY DEF Days
  <2> HIDE DEF Bad
  <2> QED BY <1>1, <2>1, LeastNumber
<1>3. j \in Days /\ c[j] = LinkOf(c, d, count, j) /\ day[j] \in Ledgers /\ carried[j] \in Channels
  BY ChainIs DEF DaysTyped
<1>4. \A m \in Days : m < j => Good(m)
  BY <1>2 DEF Days
<1> HIDE DEF c
<1>5. CASE j < d \/ j \notin Existing \cup {d}
  <2>1. c[j] = [ledger |-> day[j], source |-> carried[j]]
    BY <1>3, <1>5 DEF LinkOf
  <2> QED BY <1>3, <2>1
<1>6. CASE ~(j < d) /\ j = d
  <2> DEFINE r == Recalculated(Loaded(d), Source(d), d)
             l == Revised(day[d], r, Given(d, count))
  <2>1. c[j] = [source |-> Source(d), ledger |-> l]
    BY <1>3, <1>6 DEF LinkOf, Given
  <2>2. Source(d) \in Channels /\ Loaded(d) \in Ledgers
    BY SourceIs, LoadedIs DEF DaysTyped
  <2>3. r \in Ledgers
    BY <2>2, RecalculatedIs
  <2> HIDE DEF r
  <2>4. Given(d, count) \in Int \cup {NoCount}
    BY DEF Given, DaysTyped, Ledgers
  <2>5. l \in Ledgers
    BY <1>3, <1>6, <2>3, <2>4, RevisedIs
  <2> HIDE DEF l
  <2>6. c[j].source = Source(d) /\ c[j].ledger = l
    BY <2>1
  <2> QED BY <2>2, <2>5, <2>6
<1>7. CASE ~(j < d) /\ j \in Existing \cup {d} /\ j # d
  <2> DEFINE S == {m \in Existing \cup {d} : m < j}
             p == Max(S)
             s == BroughtFrom(c[p].ledger, c[p].source, p)
             r == Recalculated(day[j], s, j)
             l == Revised(day[j], r, day[j].declared)
  <2>1. c[j] = [source |-> s, ledger |-> l]
    BY <1>3, <1>7 DEF LinkOf
  <2>2. S \in SUBSET Days /\ d \in S
    BY <1>7 DEF Days, Existing
  <2>3. p \in S
    <3> HIDE DEF S
    <3> QED BY <2>2, LatestDay
  <2>4. p \in Days /\ p < j
    BY <2>2, <2>3
  <2> HIDE DEF p
  <2>5. s \in Channels
    BY <1>4, <2>4, BroughtFromIs
  <2> HIDE DEF s
  <2>6. r \in Ledgers
    BY <1>3, <2>5, RecalculatedIs
  <2> HIDE DEF r
  <2>7. l \in Ledgers
    <3>1. day[j].declared \in Int \cup {NoCount}
      BY <1>3 DEF Ledgers
    <3> QED BY <1>3, <2>6, <3>1, RevisedIs
  <2> HIDE DEF l
  <2>8. c[j].source = s /\ c[j].ledger = l
    BY <2>1
  <2> QED BY <2>5, <2>7, <2>8
<1> QED BY <1>5, <1>6, <1>7

-----------------------------------------------------------------------------
(* The type invariant.                                                     *)
Snapshots == [kind : {"none", "auto", "hand"}, closing : Int]
Works == [kind : {"none", "post", "approve", "submit", "auto"},
          row : Rows \cup {NoCount}, day : Days, count : Int \cup {NoCount},
          ledger : Ledgers, seen : RowStates]

Noted == late \subseteq Days /\ raced \subseteq Days /\ acts \in Nat

Parts ==
    /\ today \in Days
    /\ DaysTyped
    /\ snap \in [Days -> Snapshots]
    /\ row \in [Rows -> RowStates]
    /\ journal \subseteq Expenses \cup Funds
    /\ slow \in Works
    /\ Noted

LEMMA PartsAreTypes == TypeOK <=> Parts
BY DEF TypeOK, Parts, DaysTyped, Channels, Snapshots, Works, Noted

LEMMA DayTyped ==
    ASSUME Parts, NEW d \in Days, NEW l \in Ledgers, SetDay(d, l)
    PROVE  day' \in [Days -> Ledgers]
BY DEF SetDay, Parts, DaysTyped

LEMMA CarriedTyped ==
    ASSUME Parts, NEW d \in Days, NEW c \in Channels, carried' = [carried EXCEPT ![d] = c]
    PROVE  carried' \in [Days -> Channels]
BY DEF Parts, DaysTyped

LEMMA RefreshTyped ==
    ASSUME Parts, NEW d \in Days, Refresh(d)
    PROVE  carried' \in [Days -> Channels] /\ late' \subseteq Days
<1>1. carried' \in [Days -> Channels]
  <2>1. Source(d) \in Channels
    BY SourceIs DEF Parts
  <2> QED BY <2>1, CarriedTyped DEF Refresh
<1> QED BY <1>1 DEF Refresh, Parts, Noted

LEMMA RowTyped ==
    ASSUME Parts, NEW r, NEW d \in Days, NEW state \in {"pending", "counted"},
           Entering(r, d, state)
    PROVE  row' \in [Rows -> RowStates]
<1>1. [state |-> state, day |-> d, voided |-> FALSE] \in RowStates
  BY DEF RowStates
<1> QED BY <1>1 DEF Entering, Parts

(* A row that changes its state or is voided.                              *)
LEMMA RowRevalued ==
    ASSUME Parts, NEW r,
           \/ \E s \in {"counted", "rejected"} : row' = [row EXCEPT ![r].state = s]
           \/ row' = [row EXCEPT ![r].voided = TRUE]
    PROVE  row' \in [Rows -> RowStates]
<1>1. CASE r \in Rows
  <2>1. row[r] \in RowStates
    BY <1>1 DEF Parts
  <2>2. ASSUME NEW s \in {"counted", "rejected"}
        PROVE  [row[r] EXCEPT !.state = s] \in RowStates
    BY <2>1 DEF RowStates
  <2>3. [row[r] EXCEPT !.voided = TRUE] \in RowStates
    BY <2>1 DEF RowStates
  <2> QED BY <2>2, <2>3 DEF Parts
<1>2. CASE r \notin Rows
  BY <1>2 DEF Parts
<1> QED BY <1>1, <1>2

(* The day's ledger brought up to date, with the source it carries.        *)
LEMMA UpToDateTyped ==
    ASSUME Parts, NEW d \in Days
    PROVE  /\ Recalculated(Loaded(d), Source(d), d) \in Ledgers
           /\ Recalculated(Reopened(Loaded(d)), Source(d), d) \in Ledgers
           /\ Recalculated(day[d], carried[d], d) \in Ledgers
<1>1. day[d] \in Ledgers /\ carried[d] \in Channels /\ Source(d) \in Channels
  BY SourceIs DEF Parts, DaysTyped
<1>2. Loaded(d) \in Ledgers /\ Loaded(d).status # "none"
  BY <1>1, LoadedIs
<1>3. Reopened(Loaded(d)) \in Ledgers
  BY <1>2, ReopenedIs
<1> QED BY <1>1, <1>2, <1>3, RecalculatedIs

LEMMA TypesTakePayment ==
    ASSUME Parts, NEW p \in Payments, NEW d \in Days, NEW owner, TakePayment(p, d, owner)
    PROVE  Parts'
<1>1. row' \in [Rows -> RowStates]
  BY RowTyped DEF TakePayment
<1>2. carried' \in [Days -> Channels] /\ late' \subseteq Days
  BY RefreshTyped DEF TakePayment
<1>3. day' \in [Days -> Ledgers]
  BY UpToDateTyped, DayTyped DEF TakePayment
<1> QED BY <1>1, <1>2, <1>3 DEF TakePayment, Parts, DaysTyped, Noted

LEMMA TypesEnter ==
    ASSUME Parts, NEW r \in Rows, NEW d \in Days, NEW state \in {"pending", "counted"},
           Enter(r, d, state), journal' \subseteq Expenses \cup Funds
    PROVE  Parts'
<1>1. row' \in [Rows -> RowStates]
  BY RowTyped DEF Enter
<1>2. carried' \in [Days -> Channels] /\ late' \subseteq Days
  BY RefreshTyped DEF Enter
<1>3. day' \in [Days -> Ledgers]
  BY UpToDateTyped, DayTyped DEF Enter
<1> QED BY <1>1, <1>2, <1>3 DEF Enter, Parts, DaysTyped, Noted

LEMMA TypesView ==
    ASSUME Parts, NEW d \in Days, row' = row, Refresh(d),
           day' = day \/ SetDay(d, Recalculated(Loaded(d), Source(d), d)),
           UNCHANGED <<today, snap, journal, slow, raced, acts>>
    PROVE  Parts'
<1>1. carried' \in [Days -> Channels] /\ late' \subseteq Days
  BY RefreshTyped
<1>2. day' \in [Days -> Ledgers]
  BY UpToDateTyped, DayTyped DEF Parts, DaysTyped
<1> QED BY <1>1, <1>2 DEF Parts, DaysTyped, Noted

LEMMA TypesRevalue ==
    ASSUME Parts, NEW d \in Days, Revalue(d), row' \in [Rows -> RowStates],
           journal' \subseteq Expenses \cup Funds
    PROVE  Parts'
<1>1. day' \in [Days -> Ledgers]
  BY UpToDateTyped, DayTyped DEF Revalue
<1> QED BY <1>1 DEF Revalue, history, Parts, DaysTyped, Noted

LEMMA SnapshotTyped ==
    ASSUME NEW l \in Ledgers, NEW kind \in {"auto", "hand"}
    PROVE  Snapshot(kind, l) \in Snapshots /\ Snapshot(kind, l).closing = l.expected
BY DEF Snapshot, Snapshots, Ledgers

LEMMA TypesSubmitDay ==
    ASSUME Parts, NEW d \in Days, NEW count \in Int \cup {NoCount}, SubmitDay(d, count)
    PROVE  Parts'
<1> DEFINE l == Submitted(Recalculated(day[d], carried[d], d), count, FALSE)
<1>1. l \in Ledgers
  BY UpToDateTyped, SubmittedIs
<1>2. SetDay(d, l) /\ snap' = [snap EXCEPT ![d] = Snapshot("hand", l)]
  BY DEF SubmitDay
<1> HIDE DEF l
<1>3. day' \in [Days -> Ledgers]
  BY <1>1, <1>2, DayTyped
<1>4. snap' \in [Days -> Snapshots]
  BY <1>1, <1>2, SnapshotTyped DEF Parts
<1>5. late' \subseteq Days /\ acts' \in Nat
  BY DEF SubmitDay, Acting, After, Existing, Parts, Noted
<1> QED BY <1>3, <1>4, <1>5 DEF SubmitDay, Parts, DaysTyped, Noted

LEMMA TypesReopenDay ==
    ASSUME Parts, NEW d \in Days, ReopenDay(d)
    PROVE  Parts'
<1>1. day[d] \in Ledgers /\ day[d].status # "none"
  BY DEF ReopenDay, Locked, Parts, DaysTyped
<1>2. Reopened(day[d]) \in Ledgers
  BY <1>1, ReopenedIs
<1>3. day' \in [Days -> Ledgers]
  BY <1>2, DayTyped DEF ReopenDay
<1> QED BY <1>3 DEF ReopenDay, Acting, Parts, DaysTyped, Noted

LEMMA TypesCorrect ==
    ASSUME Parts, NEW f \in Funds, NEW d \in Days, NEW count \in Int \cup {NoCount},
           Correct(f, d, count)
    PROVE  Parts'
<1> DEFINE line == Chain(d, count)
<1>1. \A k \in Days : line[k].ledger \in Ledgers /\ line[k].source \in Channels
  BY ChainTyped DEF Parts
<1>2. /\ day' = [k \in Days |-> line[k].ledger]
      /\ carried' = [k \in Days |-> line[k].source]
      /\ snap' = [k \in Days |-> IF k >= d /\ day[k].status \in Locked
                                 THEN Snapshot("hand", line[k].ledger) ELSE snap[k]]
  BY DEF Correct
<1> HIDE DEF line
<1>3. day' \in [Days -> Ledgers] /\ carried' \in [Days -> Channels]
  BY <1>1, <1>2
<1>4. snap' \in [Days -> Snapshots]
  BY <1>1, <1>2, SnapshotTyped DEF Parts
<1>5. row' \in [Rows -> RowStates]
  BY RowTyped DEF Correct
<1>6. journal' \subseteq Expenses \cup Funds
  BY DEF Correct, Parts
<1>7. late' \subseteq Days /\ acts' \in Nat
  BY DEF Correct, Acting, Parts, Noted
<1> QED BY <1>3, <1>4, <1>5, <1>6, <1>7 DEF Correct, Parts, DaysTyped, Noted

(* What the scheduler does to each day.                                    *)
Freshened(refresh, k) == refresh /\ k = today
DueSource(refresh, k) == IF Freshened(refresh, k) THEN Source(k) ELSE carried[k]
DueLedger(refresh, k) ==
    IF Due(k) \/ Freshened(refresh, k)
    THEN Recalculated(day[k], DueSource(refresh, k), k) ELSE day[k]

LEMMA SubmitDueIs ==
    ASSUME Parts, NEW refresh \in BOOLEAN, SubmitDue(refresh), NEW k \in Days
    PROVE  /\ DueSource(refresh, k) \in Channels
           /\ DueLedger(refresh, k) \in Ledgers
           /\ carried'[k] = DueSource(refresh, k)
           /\ day'[k] = IF Due(k) THEN Submitted(DueLedger(refresh, k), NoCount, TRUE)
                        ELSE DueLedger(refresh, k)
           /\ day'[k] \in Ledgers
           /\ snap'[k] = IF Due(k) THEN Snapshot("auto", day'[k]) ELSE snap[k]
           /\ snap'[k] \in Snapshots
<1>1. day[k] \in Ledgers /\ DueSource(refresh, k) \in Channels
  BY SourceIs DEF Parts, DaysTyped, DueSource
<1>2. DueLedger(refresh, k) \in Ledgers
  BY <1>1, RecalculatedIs DEF DueLedger
<1>3. carried'[k] = DueSource(refresh, k)
  BY DEF SubmitDue, DueSource, Freshened
<1>4. day'[k] = IF Due(k) THEN Submitted(DueLedger(refresh, k), NoCount, TRUE)
                ELSE DueLedger(refresh, k)
  BY DEF SubmitDue, DueLedger, DueSource, Freshened
<1>5. day'[k] \in Ledgers
  <2>1. Submitted(DueLedger(refresh, k), NoCount, TRUE) \in Ledgers
    BY <1>2, SubmittedIs
  <2> QED BY <1>2, <1>4, <2>1
<1>6. snap'[k] = IF Due(k) THEN Snapshot("auto", day'[k]) ELSE snap[k]
  BY DEF SubmitDue
<1>7. snap'[k] \in Snapshots
  BY <1>5, <1>6, SnapshotTyped DEF Parts
<1> QED BY <1>1, <1>2, <1>3, <1>4, <1>5, <1>6, <1>7

LEMMA TypesSubmitDue ==
    ASSUME Parts, NEW refresh \in BOOLEAN, SubmitDue(refresh)
    PROVE  Parts'
<1>1. /\ day' = [k \in Days |-> day'[k]]
      /\ carried' = [k \in Days |-> carried'[k]]
      /\ snap' = [k \in Days |-> snap'[k]]
  BY DEF SubmitDue
<1>2. DaysTyped' /\ snap' \in [Days -> Snapshots]
  BY <1>1, SubmitDueIs DEF DaysTyped
<1>3. late' \subseteq Days
  <2>1. \A k : After(k) \subseteq Days
    BY DEF After, Existing
  <2> QED BY <2>1 DEF SubmitDue, Parts, Noted
<1> QED BY <1>2, <1>3 DEF SubmitDue, Parts, Noted

LEMMA TypesLoad ==
    ASSUME Parts, NEW kind \in {"post", "approve", "submit", "auto"}, NEW r \in Rows \cup {NoCount},
           NEW d \in Days, NEW count \in Int \cup {NoCount}, Load(kind, r, d, count)
    PROVE  Parts'
<1> DEFINE seen == IF r = NoCount THEN NoRow ELSE row[r]
<1>1. NoRow \in RowStates
  BY DaysAssumption DEF NoRow, RowStates, Days
<1>2. seen \in RowStates
  BY <1>1 DEF Parts
<1>3. day[d] \in Ledgers
  BY DEF Parts, DaysTyped
<1>4. slow' = [kind |-> kind, row |-> r, day |-> d, count |-> count, ledger |-> day[d],
               seen |-> seen]
  BY DEF Load
<1> HIDE DEF seen
<1>5. slow' \in Works
  BY <1>2, <1>3, <1>4 DEF Works
<1> QED BY <1>5 DEF Load, Acting, Parts, DaysTyped, Noted

LEMMA NoWorkTyped == NoWork \in Works
<1>1. NoRow \in RowStates
  BY DaysAssumption DEF NoRow, RowStates, Days
<1>2. NoDay \in Ledgers /\ 1 \in Days
  BY DaysAssumption DEF NoDay, Ledgers, Days
<1> QED BY <1>1, <1>2 DEF NoWork, Works

(* A slow transaction writes to the day it loaded.                         *)
LEMMA TypesWrite ==
    ASSUME Parts, NEW new \in Ledgers, Write(new), row' \in [Rows -> RowStates],
           journal' \subseteq Expenses \cup Funds, snap' \in [Days -> Snapshots],
           late' \subseteq Days
    PROVE  Parts'
<1>1. slow.day \in Days /\ slow.ledger \in Ledgers /\ day[slow.day] \in Ledgers
  BY DEF Parts, DaysTyped, Works
<1>2. Changed(slow.ledger, new, day[slow.day]) \in Ledgers
  BY <1>1, ChangedIs
<1>3. day' \in [Days -> Ledgers]
  BY <1>1, <1>2, DayTyped DEF Write
<1>4. raced' \subseteq Days
  BY <1>1 DEF Write, Parts, Noted
<1> QED BY <1>3, <1>4, NoWorkTyped DEF Write, Parts, DaysTyped, Noted

LEMMA TypesWrites ==
    ASSUME Parts, slow.kind # "none" => slow.ledger.status # "none",
           slow.kind = "approve" => slow.row \in Expenses,
           WritePayment \/ WriteApproval \/ WriteSubmission
    PROVE  Parts'
<1> DEFINE d == slow.day
           c == carried[d]
<1>1. d \in Days /\ slow.ledger \in Ledgers /\ c \in Channels /\ slow.count \in Int \cup {NoCount}
  BY DEF Parts, DaysTyped, Works
<1>2. CASE WritePayment
  <2>1. Reopened(slow.ledger) \in Ledgers
    BY <1>1, <1>2, ReopenedIs DEF WritePayment
  <2>2. Recalculated(Reopened(slow.ledger), c, d) \in Ledgers
    BY <1>1, <2>1, RecalculatedIs
  <2>3. row' \in [Rows -> RowStates]
    BY <1>1, <1>2, RowTyped DEF WritePayment
  <2> QED BY <1>2, <2>2, <2>3, TypesWrite DEF WritePayment, Parts, Noted
<1>3. CASE WriteApproval
  <2>1. Recalculated(slow.ledger, c, d) \in Ledgers
    BY <1>1, RecalculatedIs
  <2>2. row' \in [Rows -> RowStates]
    BY <1>3, RowRevalued DEF WriteApproval
  <2>3. journal' \subseteq Expenses \cup Funds
    BY <1>3 DEF WriteApproval, Parts
  <2> QED BY <1>3, <2>1, <2>2, <2>3, TypesWrite DEF WriteApproval, Parts, Noted
<1>4. CASE WriteSubmission
  <2> DEFINE auto == slow.kind = "auto"
             l == Submitted(Recalculated(slow.ledger, c, d), slow.count, auto)
  <2>1. l \in Ledgers
    BY <1>1, RecalculatedIs, SubmittedIs
  <2>2. /\ Write(l) /\ row' = row /\ journal' = journal
        /\ snap' = [snap EXCEPT ![d] = Snapshot(IF auto THEN "auto" ELSE "hand", l)]
        /\ late' = late \cup After(d)
    BY <1>4 DEF WriteSubmission
  <2> HIDE DEF l, auto
  <2>3. snap' \in [Days -> Snapshots]
    BY <2>1, <2>2, SnapshotTyped DEF Parts
  <2>4. late' \subseteq Days
    BY <2>2 DEF After, Existing, Parts, Noted
  <2> QED BY <2>1, <2>2, <2>3, <2>4, TypesWrite DEF Parts
<1> QED BY <1>2, <1>3, <1>4, TypesSubmitDue

-----------------------------------------------------------------------------
(* Locked days.                                                            *)
AsSubmitted(d) ==
    /\ day[d].opening = OpeningOf(row, carried[d], d)
    /\ day[d].expected = snap[d].closing
    /\ snap[d].closing = ExpectedOf(row, carried[d], d)

(* What a day carries when nothing before it was closed late.              *)
CarriedFrom(ledger, rows, c, p) ==
    LET position == GatewayOf(rows, c, p)
    IN  [cash |-> Closing(ledger) - position, gateway |-> position]
Carried(d) ==
    IF Before(d) = {} THEN Nothing
    ELSE LET p == Max(Before(d)) IN CarriedFrom(day[p], row, carried[p], p)

Linked ==
    \A d \in Existing :
        /\ d \notin late
        /\ \A p \in Before(d) :
              p = Max(Before(d)) => day[p].status \in Locked /\ p \notin raced
        => carried[d] = Carried(d)

NoFuture == \A d \in Existing : d <= today

SlowStands ==
    slow.kind # "none" =>
        /\ day[slow.day].status # "none" /\ slow.ledger.status # "none"
        /\ slow.kind # "post" => slow.ledger.status \in Writable

LInv == Parts /\ LockedIsAsSubmitted /\ Linked /\ NoFuture /\ SlowStands

(* A day a step leaves alone.                                              *)
Kept(k) ==
    /\ day'[k] = day[k] /\ carried'[k] = carried[k] /\ snap'[k] = snap[k]
    /\ Counted(row', k) = Counted(row, k)

(* A step of one day.                                                      *)
DayStep(e) ==
    /\ e <= today /\ today' = today
    /\ \A k \in Days \ {e} : Kept(k)
    /\ day'[e].status # "none"
    /\ raced \subseteq raced' /\ late \ {e} \subseteq late'
    /\ \/ carried'[e] = Brought(e)
       \/ carried'[e] = carried[e] /\ day[e].status # "none" /\ (e \in late => e \in late')
    /\ \/ day'[e].status \in Writable
       \/ e \in raced'
       \/ AsSubmitted(e)' /\ After(e) \subseteq late' /\ day[e].status \in Writable
    /\ day[e].status \in Locked /\ e \notin raced' => day'[e].declared = day[e].declared

LEMMA AsSubmittedStays ==
    ASSUME NEW k \in Days, Kept(k), AsSubmitted(k)
    PROVE  AsSubmitted(k)'
BY DEF Kept, AsSubmitted, OpeningOf, ExpectedOf

LEMMA LockedStands ==
    ASSUME LockedIsAsSubmitted, raced \subseteq raced',
           \A k \in Days : \/ Kept(k) \/ day'[k].status \notin Locked
                           \/ k \in raced' \/ AsSubmitted(k)'
    PROVE  LockedIsAsSubmitted'
<1> SUFFICES ASSUME NEW k \in Days, day'[k].status \in Locked, k \notin raced'
             PROVE  AsSubmitted(k)'
  BY DEF LockedIsAsSubmitted, AsSubmitted
<1>1. CASE Kept(k)
  <2>1. AsSubmitted(k)
    BY <1>1 DEF Kept, LockedIsAsSubmitted, AsSubmitted
  <2> QED BY <1>1, <2>1, AsSubmittedStays
<1> QED BY <1>1

LEMMA BroughtIs == ASSUME NEW ledger, NEW c, NEW p
    PROVE BroughtFrom(ledger, c, p) = CarriedFrom(ledger, row', c, p)
BY DEF BroughtFrom, CarriedFrom

LEMMA CarriedFromKept ==
    ASSUME NEW p \in Days, Kept(p)
    PROVE  /\ CarriedFrom(day'[p], row', carried'[p], p) = CarriedFrom(day[p], row, carried[p], p)
           /\ CarriedFrom(day'[p], row', carried'[p], p) = BroughtFrom(day[p], carried[p], p)
BY DEF Kept, CarriedFrom, BroughtFrom, GatewayOf

LEMMA DayStepLocked ==
    ASSUME LInv, NEW e \in Days, DayStep(e)
    PROVE  LockedIsAsSubmitted'
<1>1. Writable \cap Locked = {}
  BY DEF Writable, Locked
<1> QED BY <1>1, LockedStands DEF LInv, DayStep

(* The latest day before d is one that was so before the step.             *)
LEMMA BeforeKept ==
    ASSUME NEW d \in Days, NEW p \in Before(d)', p = Max(Before(d)'), Kept(p),
           Before(d) \subseteq Before(d)'
    PROVE  p \in Before(d) /\ p = Max(Before(d)) /\ Before(d) # {}
<1>1. Before(d)' \in SUBSET Days /\ Before(d) \in SUBSET Days
  BY DEF Before, Existing
<1>2. p \in Before(d)
  BY DEF Kept, Before, Existing
<1>3. \A k \in Before(d)' : k <= p
  BY <1>1, LatestDay
<1>4. Max(Before(d)) \in Before(d) /\ \A k \in Before(d) : k <= Max(Before(d))
  BY <1>1, <1>2, LatestDay
<1>5. Max(Before(d)) <= p /\ p <= Max(Before(d))
  BY <1>2, <1>3, <1>4
<1> QED BY <1>1, <1>2, <1>4, <1>5 DEF Days

(* A day that keeps what it carries keeps its link.                        *)
LEMMA LinkKept ==
    ASSUME LInv, NEW d \in Existing, d \notin late, carried'[d] = carried[d],
           Before(d) \subseteq Before(d)', raced \subseteq raced',
           \A p \in Before(d)' :
              p = Max(Before(d)') => day'[p].status \in Locked /\ p \notin raced' /\ Kept(p)
    PROVE  carried'[d] = Carried(d)'
<1>0. d \in Days /\ Before(d)' \in SUBSET Days
  BY DEF Before, Existing
<1>1. CASE Before(d)' = {}
  BY <1>1, <1>0 DEF LInv, Linked, Carried
<1>2. CASE Before(d)' # {}
  <2> DEFINE p == Max(Before(d)')
  <2>1. p \in Before(d)' /\ p \in Days
    BY <1>0, <1>2, LatestDay
  <2>2. day'[p].status \in Locked /\ p \notin raced' /\ Kept(p)
    BY <2>1
  <2>3. p \in Before(d) /\ p = Max(Before(d)) /\ Before(d) # {}
    BY <1>0, <2>1, <2>2, BeforeKept
  <2>4. carried[d] = Carried(d)
    BY <2>2, <2>3 DEF LInv, Linked, Kept
  <2>5. Carried(d) = CarriedFrom(day[p], row, carried[p], p)
    BY <2>3 DEF Carried
  <2>6. Carried(d)' = CarriedFrom(day'[p], row', carried'[p], p)
    BY <1>2 DEF Carried
  <2> HIDE DEF p
  <2> QED BY <2>1, <2>2, <2>4, <2>5, <2>6, CarriedFromKept
<1> QED BY <1>1, <1>2

(* A day that is brought forward is linked.                                *)
LEMMA LinkMade ==
    ASSUME NEW d \in Days, carried'[d] = Brought(d), Before(d)' = Before(d),
           \A p \in Before(d) : p = Max(Before(d)) => Kept(p)
    PROVE  carried'[d] = Carried(d)'
<1>0. Before(d) \in SUBSET Days
  BY DEF Before, Existing
<1>1. CASE Before(d) = {}
  BY <1>1 DEF Brought, Carried
<1>2. CASE Before(d) # {}
  <2> DEFINE p == Max(Before(d))
  <2>1. p \in Before(d) /\ p \in Days /\ Kept(p)
    BY <1>0, <1>2, LatestDay
  <2>2. Brought(d) = BroughtFrom(day[p], carried[p], p)
    BY <1>2 DEF Brought
  <2>3. Carried(d)' = CarriedFrom(day'[p], row', carried'[p], p)
    BY <1>2 DEF Carried
  <2> HIDE DEF p
  <2> QED BY <2>1, <2>2, <2>3, CarriedFromKept
<1> QED BY <1>1, <1>2

LEMMA DayStepLinked ==
    ASSUME LInv, NEW e \in Days, DayStep(e)
    PROVE  Linked' /\ NoFuture'
<1>0. /\ \A k \in Days \ {e} : Kept(k)
      /\ day'[e].status # "none" /\ raced \subseteq raced' /\ late \ {e} \subseteq late'
  BY DEF DayStep
<1>1. Existing' = Existing \cup {e}
  BY <1>0 DEF Existing, Kept
<1>2. NoFuture'
  BY <1>1 DEF NoFuture, DayStep, LInv
<1> SUFFICES ASSUME NEW d \in Existing', d \notin late',
                    \A p \in Before(d)' : p = Max(Before(d)')
                        => day'[p].status \in Locked /\ p \notin raced'
             PROVE  carried'[d] = Carried(d)'
  BY <1>2 DEF Linked
<1>3. d \in Days /\ Existing \subseteq Existing' /\ Before(d)' \in SUBSET Days
  BY <1>1 DEF Existing, Before
<1>4. Before(d) \subseteq Before(d)'
  BY <1>3 DEF Before
<1>5. CASE d = e
  <2>1. Before(d)' = Before(d)
    BY <1>1, <1>5 DEF Before, Days
  <2>2. \A p \in Before(d) : Kept(p)
    BY <1>0, <1>5 DEF Before, Existing, Days
  <2>3. CASE carried'[e] = Brought(e)
    BY <1>5, <2>1, <2>2, <2>3, LinkMade
  <2>4. CASE carried'[e] = carried[e] /\ day[e].status # "none" /\ (e \in late => e \in late')
    <3>1. d \in Existing /\ d \notin late
      BY <1>5, <2>4 DEF Existing
    <3> QED BY <1>0, <1>4, <1>5, <2>1, <2>2, <2>4, <3>1, LinkKept
  <2> QED BY <2>3, <2>4 DEF DayStep
<1>6. CASE d # e
  <2>1. d \in Existing /\ d \notin late /\ carried'[d] = carried[d]
    BY <1>0, <1>1, <1>3, <1>6 DEF Kept
  <2>2. ASSUME e \in Before(d)', e = Max(Before(d)') PROVE FALSE
    <3>1. day'[e].status \in Locked /\ e \notin raced'
      BY <2>2
    <3>2. After(e) \subseteq late' /\ day[e].status \in Writable
      BY <3>1 DEF DayStep, Locked, Writable
    <3>3. d \in After(e)
      BY <2>1, <2>2 DEF After, Before, Existing, Days
    <3> QED BY <3>2, <3>3
  <2>3. \A p \in Before(d)' : p = Max(Before(d)') =>
            day'[p].status \in Locked /\ p \notin raced' /\ Kept(p)
    BY <1>0, <1>3, <2>2
  <2> QED BY <1>0, <1>4, <2>1, <2>3, LinkKept
<1> QED BY <1>5, <1>6

(* A step that touches no day.                                             *)
Quiet ==
    /\ \A k \in Days : Kept(k)
    /\ late \subseteq late' /\ raced \subseteq raced' /\ today <= today'

LEMMA QuietKeeps ==
    ASSUME LInv, Quiet, today' \in Days
    PROVE  LockedIsAsSubmitted' /\ Linked' /\ NoFuture'
<1>1. LockedIsAsSubmitted'
  BY LockedStands DEF Quiet, LInv
<1>2. Existing' = Existing
  BY DEF Quiet, Kept, Existing
<1>3. NoFuture'
  BY <1>2 DEF NoFuture, Quiet, LInv, Parts, Days, Existing
<1>4. ASSUME NEW d \in Existing', d \notin late',
             \A p \in Before(d)' : p = Max(Before(d)')
                 => day'[p].status \in Locked /\ p \notin raced'
      PROVE  carried'[d] = Carried(d)'
  <2>1. d \in Existing /\ d \notin late /\ carried'[d] = carried[d] /\ Before(d)' = Before(d)
    BY <1>2, <1>4 DEF Quiet, Kept, Existing, Before
  <2>2. Before(d) \subseteq Days
    BY DEF Before, Existing
  <2> QED BY <1>4, <2>1, <2>2, LinkKept DEF Quiet
<1>5. Linked'
  BY <1>4 DEF Linked
<1> QED BY <1>1, <1>3, <1>5

-----------------------------------------------------------------------------
(* Rows of other days are left alone.                                      *)
LEMMA EntersDay ==
    ASSUME Parts, NEW r \in Rows, NEW e \in Days, NEW state, row[r].state = "none",
           Entering(r, e, state), NEW k \in Days \ {e}
    PROVE  Counted(row', k) = Counted(row, k)
<1>1. row'[r] = [state |-> state, day |-> e, voided |-> FALSE]
  BY DEF Entering, Parts
<1>2. \A q \in Rows \ {r} : row'[q] = row[q]
  BY DEF Entering, Parts
<1>3. r \notin Counted(row', k) /\ r \notin Counted(row, k)
  BY <1>1 DEF Counted
<1>4. \A q \in Rows \ {r} : q \in Counted(row', k) <=> q \in Counted(row, k)
  BY <1>2 DEF Counted
<1> QED BY <1>3, <1>4 DEF Counted

LEMMA RevaluesDay ==
    ASSUME Parts, NEW r \in Rows, NEW k \in Days, k # row[r].day,
           \/ \E s \in {"counted", "rejected"} : row' = [row EXCEPT ![r].state = s]
           \/ row' = [row EXCEPT ![r].voided = TRUE]
    PROVE  Counted(row', k) = Counted(row, k)
<1>1. row[r] \in RowStates
  BY DEF Parts
<1>2. row'[r].day = row[r].day
  BY <1>1 DEF Parts, RowStates
<1>3. \A q \in Rows \ {r} : row'[q] = row[q]
  BY DEF Parts
<1>4. r \notin Counted(row', k) /\ r \notin Counted(row, k)
  BY <1>2 DEF Counted
<1>5. \A q \in Rows \ {r} : q \in Counted(row', k) <=> q \in Counted(row, k)
  BY <1>3 DEF Counted
<1> QED BY <1>4, <1>5 DEF Counted

(* Each operation is a step of its day.                                    *)
LEMMA SetsDay ==
    ASSUME Parts, NEW e \in Days, NEW l, SetDay(e, l)
    PROVE  day'[e] = l /\ \A k \in Days \ {e} : day'[k] = day[k]
BY DEF SetDay, Parts, DaysTyped

LEMMA RefreshesDay ==
    ASSUME Parts, NEW e \in Days, Refresh(e)
    PROVE  /\ carried'[e] = Source(e)
           /\ \A k \in Days \ {e} : carried'[k] = carried[k]
           /\ late \ {e} \subseteq late'
           /\ Open(e) => carried'[e] = Brought(e)
           /\ ~Open(e) => carried'[e] = carried[e] /\ late' = late
                          /\ day[e].status \in Locked
<1>1. day[e] \in Ledgers
  BY DEF Parts, DaysTyped
<1>2. ~Open(e) => day[e].status \in Locked
  BY <1>1 DEF Open, Ledgers
<1> QED BY <1>2 DEF Refresh, Source, Parts, DaysTyped

LEMMA UpToDate ==
    ASSUME Parts, NEW e \in Days, NEW l \in Ledgers, NEW c \in Channels
    PROVE  /\ Recalculated(l, c, e).status = l.status
           /\ Recalculated(l, c, e).declared = l.declared
BY RecalculatedIs

LEMMA EnterIsDayStep ==
    ASSUME Parts, NEW e \in Days,
           \/ row' = row
           \/ \E r \in Rows : row[r].state = "none" /\ \E state : Entering(r, e, state),
           e <= today, Refresh(e), raced' = raced, today' = today, snap' = snap,
           \/ Open(e) /\ SetDay(e, Recalculated(Loaded(e), Source(e), e))
           \/ SetDay(e, Recalculated(Reopened(Loaded(e)), Source(e), e))
           \/ day' = day /\ day[e].status \in Writable
    PROVE  DayStep(e)
<1>1. day[e] \in Ledgers /\ Source(e) \in Channels
  BY SourceIs DEF Parts, DaysTyped
<1>2. /\ Loaded(e) \in Ledgers /\ Loaded(e).declared = day[e].declared
      /\ Loaded(e).status = IF day[e].status = "none" THEN "open" ELSE day[e].status
  BY <1>1, LoadedIs
<1>3. /\ Reopened(Loaded(e)) \in Ledgers /\ Reopened(Loaded(e)).status \in Writable
      /\ Reopened(Loaded(e)).declared = day[e].declared
  BY <1>2, ReopenedIs
<1>4. \A k \in Days \ {e} : Counted(row', k) = Counted(row, k)
  BY EntersDay
<1>5. /\ day'[e].status \in Writable /\ \A k \in Days \ {e} : day'[k] = day[k]
      /\ day'[e].declared = day[e].declared
  <2>1. CASE Open(e) /\ SetDay(e, Recalculated(Loaded(e), Source(e), e))
    <3>1. Loaded(e).status \in Writable
      BY <1>2, <2>1 DEF Open, Writable
    <3> QED BY <1>1, <1>2, <2>1, <3>1, SetsDay, RecalculatedIs
  <2>2. CASE SetDay(e, Recalculated(Reopened(Loaded(e)), Source(e), e))
    BY <1>1, <1>3, <2>2, SetsDay, RecalculatedIs
  <2>3. CASE day' = day /\ day[e].status \in Writable
    BY <2>3
  <2> QED BY <2>1, <2>2, <2>3
<1>6. \A k \in Days \ {e} : Kept(k)
  BY <1>4, <1>5, RefreshesDay DEF Kept
<1>7. \/ carried'[e] = Brought(e)
      \/ carried'[e] = carried[e] /\ day[e].status # "none" /\ (e \in late => e \in late')
  BY RefreshesDay DEF Locked
<1> QED BY <1>5, <1>6, <1>7, RefreshesDay DEF DayStep, Writable

LEMMA RevalueIsDayStep ==
    ASSUME Parts, NoFuture, NEW r \in Rows, NEW e \in Days, e = row[r].day, Revalue(e),
           \/ \E s \in {"counted", "rejected"} : row' = [row EXCEPT ![r].state = s]
           \/ row' = [row EXCEPT ![r].voided = TRUE]
    PROVE  DayStep(e)
<1>1. day[e] \in Ledgers /\ carried[e] \in Channels
  BY DEF Parts, DaysTyped
<1>2. /\ day[e].status \in Writable /\ SetDay(e, Recalculated(day[e], carried[e], e))
      /\ UNCHANGED <<today, carried, snap, late, raced>>
  BY DEF Revalue, history
<1>3. /\ day'[e].status \in Writable /\ \A k \in Days \ {e} : day'[k] = day[k]
      /\ day'[e].declared = day[e].declared
  BY <1>1, <1>2, SetsDay, RecalculatedIs
<1>4. \A k \in Days \ {e} : Kept(k)
  BY <1>2, <1>3, RevaluesDay DEF Kept
<1>5. e <= today
  BY <1>2 DEF NoFuture, Existing, Writable
<1> QED BY <1>2, <1>3, <1>4, <1>5 DEF DayStep, Writable

(* A ledger submitted with its balances up to date.                        *)
LEMMA SubmitsDay ==
    ASSUME Parts, NEW e \in Days, NEW l \in Ledgers, NEW count \in Int \cup {NoCount},
           NEW automatic \in BOOLEAN, NEW kind \in {"auto", "hand"}, NEW done,
           done = Submitted(Recalculated(l, carried[e], e), count, automatic),
           day'[e] = done, snap' = [snap EXCEPT ![e] = Snapshot(kind, done)],
           carried' = carried
    PROVE  AsSubmitted(e)'
<1>1. carried[e] \in Channels
  BY DEF Parts, DaysTyped
<1> DEFINE r == Recalculated(l, carried[e], e)
<1>2. /\ r \in Ledgers
      /\ r.opening = OpeningOf(row', carried[e], e)
      /\ r.expected = ExpectedOf(row', carried[e], e)
  BY <1>1, RecalculatedIs
<1>3. done = Submitted(r, count, automatic)
  OBVIOUS
<1> HIDE DEF r
<1>4. done \in Ledgers /\ done.opening = r.opening /\ done.expected = r.expected
  BY <1>2, <1>3, SubmittedIs
<1>5. snap'[e].closing = done.expected
  BY <1>4, SnapshotTyped DEF Parts
<1> QED BY <1>2, <1>4, <1>5 DEF AsSubmitted

LEMMA SubmitDayIsDayStep ==
    ASSUME Parts, NoFuture, NEW e \in Days, NEW count \in Int \cup {NoCount},
           SubmitDay(e, count)
    PROVE  DayStep(e)
<1> DEFINE done == Submitted(Recalculated(day[e], carried[e], e), count, FALSE)
<1>1. /\ day[e].status \in Writable /\ SetDay(e, done)
      /\ snap' = [snap EXCEPT ![e] = Snapshot("hand", done)]
      /\ late' = late \cup After(e)
      /\ UNCHANGED <<today, carried, row, raced>>
  BY DEF SubmitDay
<1>2. day[e] \in Ledgers /\ done \in Ledgers /\ done.status \in Locked
  BY UpToDateTyped, SubmittedIs DEF Parts, DaysTyped
<1>3. day'[e] = done /\ \A k \in Days \ {e} : day'[k] = day[k]
  BY <1>1, SetsDay
<1>4. AsSubmitted(e)'
  BY <1>1, <1>2, <1>3, SubmitsDay
<1> HIDE DEF done
<1>5. \A k \in Days \ {e} : Kept(k)
  BY <1>1, <1>3 DEF Kept, Parts
<1>6. e <= today
  BY <1>1 DEF NoFuture, Existing, Writable
<1> QED BY <1>1, <1>2, <1>3, <1>4, <1>5, <1>6 DEF DayStep, Writable, Locked

LEMMA ReopenIsDayStep ==
    ASSUME Parts, NoFuture, NEW e \in Days, ReopenDay(e)
    PROVE  DayStep(e)
<1>1. /\ day[e].status \in Locked /\ SetDay(e, Reopened(day[e]))
      /\ UNCHANGED <<today, carried, snap, row, late, raced>>
  BY DEF ReopenDay
<1>2. day[e] \in Ledgers /\ day[e].status # "none"
  BY <1>1 DEF Parts, DaysTyped, Locked
<1>3. /\ day'[e].status \in Writable /\ \A k \in Days \ {e} : day'[k] = day[k]
      /\ day'[e].declared = day[e].declared
  BY <1>1, <1>2, SetsDay, ReopenedIs
<1>4. \A k \in Days \ {e} : Kept(k)
  BY <1>1, <1>3 DEF Kept
<1>5. e <= today
  BY <1>2 DEF NoFuture, Existing
<1> QED BY <1>1, <1>2, <1>3, <1>4, <1>5 DEF DayStep, Writable

(* A slow transaction changes its day; if nobody was faster, to what it    *)
(* meant to write.                                                         *)
LEMMA WriteIsDayStep ==
    ASSUME Parts, NoFuture, SlowStands, slow.kind # "none",
           NEW e \in Days, e = slow.day,
           NEW new \in Ledgers, new.status # "none", Write(new),
           \A k \in Days \ {e} : Counted(row', k) = Counted(row, k),
           \A k \in Days \ {e} : snap'[k] = snap[k], late \subseteq late',
           day'[e] = new /\ e \notin raced' =>
              \/ new.status \in Writable /\ new.declared = slow.ledger.declared
              \/ /\ AsSubmitted(e)' /\ After(e) \subseteq late'
                 /\ slow.ledger.status \in Writable
    PROVE  DayStep(e)
<1>1. slow.ledger \in Ledgers /\ day[e] \in Ledgers
  BY DEF Parts, DaysTyped, Works
<1> DEFINE changed == Changed(slow.ledger, new, day[e])
<1>2. /\ SetDay(e, changed)
      /\ raced' = IF Overtaken THEN raced \cup {e} ELSE raced
      /\ UNCHANGED <<today, carried>>
  BY DEF Write
<1>3. changed \in Ledgers /\ changed.status # "none"
  BY <1>1, ChangedIs DEF SlowStands
<1>4. day[e] = slow.ledger => changed = new
  BY <1>1, ChangedIs
<1> HIDE DEF changed
<1>5. day'[e] = changed /\ \A k \in Days \ {e} : day'[k] = day[k]
  BY <1>2, SetsDay
<1>6. e \notin raced' => day[e] = slow.ledger
  BY <1>2 DEF Overtaken
<1>7. \A k \in Days \ {e} : Kept(k)
  BY <1>2, <1>5 DEF Kept
<1>8. e <= today /\ day[e].status # "none"
  BY DEF NoFuture, Existing, SlowStands
<1>9. \/ day'[e].status \in Writable
      \/ e \in raced'
      \/ AsSubmitted(e)' /\ After(e) \subseteq late' /\ day[e].status \in Writable
  BY <1>4, <1>5, <1>6
<1>10. day[e].status \in Locked /\ e \notin raced' => day'[e].declared = day[e].declared
  BY <1>4, <1>5, <1>6 DEF Writable, Locked
<1> QED BY <1>2, <1>3, <1>5, <1>7, <1>8, <1>9, <1>10 DEF DayStep

LEMMA WritePaymentIsDayStep ==
    ASSUME Parts, NoFuture, SlowStands, WritePayment, slow.row \in Payments,
           NEW e \in Days, e = slow.day
    PROVE  DayStep(e)
<1> DEFINE new == Recalculated(Reopened(slow.ledger), carried[e], e)
<1>1. e \in Days /\ slow.ledger \in Ledgers /\ carried[e] \in Channels
  BY DEF Parts, DaysTyped, Works
<1>2. slow.kind = "post" /\ slow.ledger.status # "none"
  BY DEF WritePayment, SlowStands
<1>3. /\ Reopened(slow.ledger) \in Ledgers /\ Reopened(slow.ledger).status \in Writable
      /\ Reopened(slow.ledger).declared = slow.ledger.declared
  BY <1>1, <1>2, ReopenedIs
<1>4. new \in Ledgers /\ new.status \in Writable /\ new.declared = slow.ledger.declared
  BY <1>1, <1>3, RecalculatedIs
<1>5. Write(new) /\ snap' = snap /\ late' = late
  BY DEF WritePayment
<1>6. \A k \in Days \ {e} : Counted(row', k) = Counted(row, k)
  <2>1. slow.row \in Rows
    BY DEF Rows
  <2> QED BY <1>1, <2>1, EntersDay DEF WritePayment
<1> HIDE DEF new
<1> QED BY <1>1, <1>2, <1>4, <1>5, <1>6, WriteIsDayStep DEF Writable

LEMMA WriteApprovalIsDayStep ==
    ASSUME Parts, NoFuture, SlowStands, WriteApproval, slow.row \in Rows,
           row[slow.row].day = slow.day, NEW e \in Days, e = slow.day
    PROVE  DayStep(e)
<1> DEFINE new == Recalculated(slow.ledger, carried[e], e)
<1>1. e \in Days /\ slow.ledger \in Ledgers /\ carried[e] \in Channels
  BY DEF Parts, DaysTyped, Works
<1>2. slow.kind = "approve" /\ slow.ledger.status \in Writable
  BY DEF WriteApproval, SlowStands
<1>3. new \in Ledgers /\ new.status \in Writable /\ new.declared = slow.ledger.declared
  BY <1>1, <1>2, RecalculatedIs
<1>4. Write(new) /\ snap' = snap /\ late' = late
  BY DEF WriteApproval
<1>5. \A k \in Days \ {e} : Counted(row', k) = Counted(row, k)
  BY <1>1, RevaluesDay DEF WriteApproval
<1> HIDE DEF new
<1> QED BY <1>1, <1>2, <1>3, <1>4, <1>5, WriteIsDayStep DEF Writable

LEMMA WriteSubmissionIsDayStep ==
    ASSUME Parts, NoFuture, SlowStands, WriteSubmission, NEW e \in Days, e = slow.day
    PROVE  DayStep(e)
<1> DEFINE auto == slow.kind = "auto"
           kind == IF auto THEN "auto" ELSE "hand"
           done == Submitted(Recalculated(slow.ledger, carried[e], e), slow.count, auto)
<1>1. /\ e \in Days /\ slow.ledger \in Ledgers /\ carried[e] \in Channels
      /\ slow.count \in Int \cup {NoCount}
  BY DEF Parts, DaysTyped, Works
<1>2. slow.kind \in {"submit", "auto"} /\ slow.ledger.status \in Writable
  BY DEF WriteSubmission, SlowStands
<1>3. done \in Ledgers /\ done.status \in Locked
  BY <1>1, RecalculatedIs, SubmittedIs
<1>4. /\ Write(done) /\ row' = row /\ late' = late \cup After(e)
      /\ snap' = [snap EXCEPT ![e] = Snapshot(kind, done)]
  BY DEF WriteSubmission
<1>5. carried' = carried
  BY DEF WriteSubmission, Write
<1>6. day'[e] = done => AsSubmitted(e)'
  <2> SUFFICES ASSUME day'[e] = done PROVE AsSubmitted(e)'
    OBVIOUS
  <2>1. auto \in BOOLEAN /\ kind \in {"auto", "hand"}
    OBVIOUS
  <2>2. done = Submitted(Recalculated(slow.ledger, carried[e], e), slow.count, auto)
    OBVIOUS
  <2> HIDE DEF kind, auto, done
  <2> QED BY <1>1, <1>4, <1>5, <2>1, <2>2, SubmitsDay
<1> HIDE DEF done, kind, auto
<1>7. \A k \in Days \ {e} : snap'[k] = snap[k]
  BY <1>4 DEF Parts
<1>8. /\ done.status # "none" /\ slow.kind # "none" /\ late \subseteq late'
      /\ After(e) \subseteq late'
      /\ \A k \in Days \ {e} : Counted(row', k) = Counted(row, k)
  BY <1>2, <1>3, <1>4 DEF Locked
<1> QED BY <1>1, <1>2, <1>3, <1>4, <1>6, <1>7, <1>8, WriteIsDayStep

-----------------------------------------------------------------------------
(* A correction, and the scheduler: several days in one step.              *)
LEMMA RevisedDay ==
    ASSUME Parts, NEW k \in Days, NEW l \in Ledgers, NEW c \in Channels,
           NEW n \in Int \cup {NoCount},
           day'[k] = Revised(day[k], Recalculated(l, c, k), n), carried'[k] = c,
           l.status = IF day[k].status = "none" THEN "open" ELSE day[k].status,
           snap'[k] = IF day[k].status \in Locked THEN Snapshot("hand", day'[k]) ELSE snap[k]
    PROVE  /\ day[k].status \in Locked => /\ day'[k].status \in Locked /\ AsSubmitted(k)'
                                          /\ day'[k].declared = n
           /\ day[k].status \notin Locked => day'[k].status \in Writable
<1> DEFINE r == Recalculated(l, c, k)
<1>1. /\ r \in Ledgers /\ r.status = l.status
      /\ r.opening = OpeningOf(row', c, k) /\ r.expected = ExpectedOf(row', c, k)
  BY RecalculatedIs
<1>2. day[k] \in Ledgers /\ day'[k] = Revised(day[k], r, n)
  BY DEF Parts, DaysTyped
<1> HIDE DEF r
<1>3. /\ day'[k] \in Ledgers /\ day'[k].opening = r.opening /\ day'[k].expected = r.expected
      /\ day'[k].status \in IF day[k].status \in Locked THEN Locked ELSE {r.status}
      /\ day'[k].declared = IF day[k].status \in Locked THEN n ELSE r.declared
  <2> DEFINE new == Revised(day[k], r, n)
  <2>1. /\ new \in Ledgers /\ new.opening = r.opening /\ new.expected = r.expected
        /\ new.status \in IF day[k].status \in Locked THEN Locked ELSE {r.status}
        /\ new.declared = IF day[k].status \in Locked THEN n ELSE r.declared
    BY <1>1, <1>2, RevisedIs
  <2>2. day'[k] = new
    BY <1>2
  <2> HIDE DEF new
  <2> QED BY <2>1, <2>2
<1>4. CASE day[k].status \in Locked
  <2>1. snap'[k].closing = day'[k].expected
    BY <1>3, <1>4, SnapshotTyped
  <2> QED BY <1>1, <1>3, <1>4, <2>1 DEF AsSubmitted
<1>5. CASE day[k].status \notin Locked
  BY <1>1, <1>2, <1>3, <1>5 DEF Ledgers, Locked, Writable
<1> QED BY <1>4, <1>5

LEMMA CorrectIs ==
    ASSUME Parts, NEW f \in Funds, NEW d \in Days, NEW count \in Int \cup {NoCount},
           Correct(f, d, count), NEW k \in Days
    PROVE  /\ k < d \/ k \notin Existing \cup {d} => Kept(k)
           /\ k = d => carried'[k] = Source(d)
           /\ k > d /\ k \in Existing =>
                 LET p == Max({j \in Existing \cup {d} : j < k})
                 IN  carried'[k] = BroughtFrom(day'[p], carried'[p], p)
           /\ k >= d /\ k \in Existing \cup {d} =>
                 /\ day[k].status \in Locked =>
                       /\ day'[k].status \in Locked /\ AsSubmitted(k)'
                       /\ day[k].declared # NoCount => day'[k].declared # NoCount
                 /\ day[k].status \notin Locked => day'[k].status \in Writable
<1> DEFINE line == Chain(d, count)
<1>1. line[k] = LinkOf(line, d, count, k)
  BY ChainIs
<1>2. \A j \in Days : line[j].ledger \in Ledgers /\ line[j].source \in Channels
  BY ChainTyped DEF Parts
<1>3. /\ \A j \in Days : day'[j] = line[j].ledger /\ carried'[j] = line[j].source
      /\ snap'[k] = IF k >= d /\ day[k].status \in Locked THEN Snapshot("hand", day'[k])
                    ELSE snap[k]
      /\ row[f].state = "none" /\ Entering(f, d, "counted")
  BY DEF Correct
<1> HIDE DEF line
<1>4. day[k] \in Ledgers /\ day[k].declared \in Int \cup {NoCount}
  BY DEF Parts, DaysTyped, Ledgers
<1>5. CASE k < d \/ k \notin Existing \cup {d}
  <2>1. line[k] = [ledger |-> day[k], source |-> carried[k]]
    BY <1>1, <1>5 DEF LinkOf
  <2>2. day'[k] = day[k] /\ carried'[k] = carried[k]
    BY <1>3, <2>1
  <2>3. snap'[k] = snap[k]
    BY <1>3, <1>5 DEF Existing, Locked, Days
  <2>4. k # d /\ f \in Rows
    BY <1>5 DEF Rows, Sources, Days
  <2>5. Counted(row', k) = Counted(row, k)
    BY <1>3, <2>4, EntersDay
  <2> QED BY <1>5, <2>2, <2>3, <2>5 DEF Kept, Days
<1>6. CASE k = d
  <2> DEFINE l == Loaded(d)
             c == Source(d)
             n == Given(d, count)
  <2>1. line[k] = [source |-> c, ledger |-> Revised(day[d], Recalculated(l, c, d), n)]
    BY <1>1, <1>6 DEF LinkOf, Given, Days
  <2>2. /\ l \in Ledgers /\ c \in Channels
        /\ l.status = IF day[d].status = "none" THEN "open" ELSE day[d].status
    BY <1>4, <1>6, LoadedIs, SourceIs DEF Parts
  <2>3. n \in Int \cup {NoCount} /\ (day[d].declared # NoCount => n # NoCount)
    BY <1>4, <1>6 DEF Given
  <2> HIDE DEF l, c, n
  <2>4. day'[k] = Revised(day[k], Recalculated(l, c, k), n) /\ carried'[k] = c
    BY <1>3, <1>6, <2>1
  <2>5. snap'[k] = IF day[k].status \in Locked THEN Snapshot("hand", day'[k]) ELSE snap[k]
    BY <1>3, <1>6 DEF Days
  <2>6. /\ day[k].status \in Locked => /\ day'[k].status \in Locked /\ AsSubmitted(k)'
                                       /\ day'[k].declared = n
        /\ day[k].status \notin Locked => day'[k].status \in Writable
    BY <1>6, <2>2, <2>3, <2>4, <2>5, RevisedDay
  <2> QED BY <1>6, <2>3, <2>4, <2>6 DEF c, Days
<1>7. CASE k > d /\ k \in Existing
  <2> DEFINE p == Max({j \in Existing \cup {d} : j < k})
             c == BroughtFrom(line[p].ledger, line[p].source, p)
             n == day[k].declared
  <2>1. line[k] = [source |-> c, ledger |-> Revised(day[k], Recalculated(day[k], c, k), n)]
    BY <1>1, <1>7 DEF LinkOf, Days
  <2>2. p \in Days /\ p < k
    <3> DEFINE S == {j \in Existing \cup {d} : j < k}
    <3>1. S \in SUBSET Days /\ d \in S
      BY <1>7 DEF Existing, Days
    <3>2. Max(S) \in S
      <4> HIDE DEF S
      <4> QED BY <3>1, LatestDay
    <3> QED BY <3>1, <3>2
  <2>3. c = BroughtFrom(day'[p], carried'[p], p)
    BY <1>3, <2>2
  <2> HIDE DEF p
  <2>4. c \in Channels
    BY <1>2, <2>2, BroughtFromIs
  <2> HIDE DEF c, n
  <2>5. day'[k] = Revised(day[k], Recalculated(day[k], c, k), n) /\ carried'[k] = c
    BY <1>3, <2>1
  <2>6. snap'[k] = IF day[k].status \in Locked THEN Snapshot("hand", day'[k]) ELSE snap[k]
    BY <1>3, <1>7 DEF Days
  <2>7. n \in Int \cup {NoCount} /\ n = day[k].declared
    BY <1>4 DEF n
  <2>8. /\ day[k].status \in Locked => /\ day'[k].status \in Locked /\ AsSubmitted(k)'
                                       /\ day'[k].declared = n
        /\ day[k].status \notin Locked => day'[k].status \in Writable
    BY <1>4, <1>7, <2>4, <2>5, <2>6, <2>7, RevisedDay DEF Existing
  <2>9. carried'[k] = BroughtFrom(day'[p], carried'[p], p)
    BY <2>3, <2>5
  <2> QED BY <1>7, <2>7, <2>8, <2>9 DEF p, Days
<1> QED BY <1>5, <1>6, <1>7 DEF Days

LEMMA CorrectKeeps ==
    ASSUME LInv, NEW f \in Funds, NEW d \in Days, NEW count \in Int \cup {NoCount},
           Correct(f, d, count)
    PROVE  LockedIsAsSubmitted' /\ Linked' /\ NoFuture'
<1>0. Parts
  BY DEF LInv
<1>1. /\ d < today /\ raced' = raced /\ today' = today
      /\ late' = late \ ({k \in Days : k > d} \cup IF Open(d) THEN {d} ELSE {})
  BY DEF Correct
<1>2. Existing' = Existing \cup {d}
  <2>1. \A k \in Days : k \in Existing' <=> k \in Existing \cup {d}
    <3> TAKE k \in Days
    <3>1. CASE k < d \/ k \notin Existing \cup {d}
      <4>1. Kept(k)
        BY <1>0, <3>1, CorrectIs
      <4>2. k # d
        BY <3>1 DEF Days
      <4> QED BY <4>1, <4>2 DEF Existing, Kept
    <3>2. CASE k >= d /\ k \in Existing \cup {d}
      BY <1>0, <3>2, CorrectIs DEF Existing, Locked, Writable
    <3> QED BY <3>1, <3>2 DEF Days
  <2> QED BY <2>1 DEF Existing
<1>3. LockedIsAsSubmitted'
  <2>1. ASSUME NEW k \in Days
        PROVE  Kept(k) \/ day'[k].status \notin Locked \/ AsSubmitted(k)'
    <3>1. CASE k < d \/ k \notin Existing \cup {d}
      BY <1>0, <3>1, CorrectIs
    <3>2. CASE k >= d /\ k \in Existing \cup {d}
      BY <1>0, <3>2, CorrectIs DEF Locked, Writable
    <3> QED BY <3>1, <3>2 DEF Days
  <2> QED BY <1>1, <2>1, LockedStands DEF LInv
<1>4. NoFuture'
  BY <1>1, <1>2, <1>0 DEF NoFuture, LInv, Parts, Days
<1>5. ASSUME NEW k \in Existing', k \notin late',
             \A p \in Before(k)' : p = Max(Before(k)')
                 => day'[p].status \in Locked /\ p \notin raced'
      PROVE  carried'[k] = Carried(k)'
  <2>0. k \in Days /\ k \in Existing \cup {d}
    BY <1>2 DEF Existing
  <2>1. CASE k < d
    <3>1. Before(k)' = Before(k) /\ k \in Existing /\ Before(k) \subseteq Days
      BY <1>2, <2>0, <2>1 DEF Before, Existing, Days
    <3>2. \A j \in Days : j < d => Kept(j)
      BY <1>0, CorrectIs
    <3>3. k \notin late
      BY <1>1, <1>5, <2>0, <2>1 DEF Days
    <3>4. \A p \in Before(k)' : p < d
      BY <2>0, <2>1, <3>1 DEF Before, Days
    <3>5. carried'[k] = carried[k]
      BY <2>0, <2>1, <3>2 DEF Kept
    <3> QED BY <1>1, <1>5, <3>1, <3>2, <3>3, <3>4, <3>5, LinkKept
  <2>2. CASE k = d
    <3>1. Before(k)' = Before(k) /\ Before(k) \subseteq Days
      BY <1>2, <2>0, <2>2 DEF Before, Existing, Days
    <3>2. \A p \in Before(k) : Kept(p)
      BY <1>0, <2>2, <3>1, CorrectIs DEF Before
    <3>3. carried'[k] = Source(k)
      BY <1>0, <2>2, CorrectIs
    <3>4. CASE Open(k)
      BY <2>0, <3>1, <3>2, <3>3, <3>4, LinkMade DEF Source
    <3>5. CASE ~Open(k)
      <4>1. carried'[k] = carried[k] /\ k \notin late
        BY <1>1, <1>5, <2>0, <2>2, <3>3, <3>5 DEF Source, Days
      <4>2. k \in Existing
        BY <2>0, <3>5 DEF Open, Existing
      <4> QED BY <1>1, <1>5, <3>1, <3>2, <4>1, <4>2, LinkKept
    <3> QED BY <3>4, <3>5
  <2>3. CASE k > d
    <3> DEFINE p == Max({j \in Existing \cup {d} : j < k})
    <3>1. k \in Existing
      BY <2>0, <2>3 DEF Days
    <3>2. carried'[k] = BroughtFrom(day'[p], carried'[p], p)
      BY <1>0, <2>0, <2>3, <3>1, CorrectIs
    <3>3. Before(k)' = {j \in Existing \cup {d} : j < k}
      BY <1>2 DEF Before
    <3>4. d \in Before(k)'
      BY <2>3, <3>3
    <3>5. Carried(k)' = CarriedFrom(day'[p], row', carried'[p], p)
      BY <3>3, <3>4 DEF Carried
    <3> HIDE DEF p
    <3> QED BY <3>2, <3>5, BroughtIs
  <2> QED BY <2>0, <2>1, <2>2, <2>3 DEF Days
<1> QED BY <1>3, <1>4, <1>5 DEF Linked

LEMMA SubmitDueDay ==
    ASSUME LInv, NEW refresh \in BOOLEAN, SubmitDue(refresh), NEW k \in Days
    PROVE  /\ Due(k) => /\ AsSubmitted(k)' /\ day'[k].status \in Locked
                        /\ day[k].status \in Writable /\ After(k) \subseteq late'
           /\ ~Due(k) => /\ day'[k].status = day[k].status
                         /\ day'[k].declared = day[k].declared
           /\ ~Due(k) /\ k # today => Kept(k)
           /\ carried'[k] = IF Freshened(refresh, k) THEN Source(k) ELSE carried[k]
           /\ day[k].status \in Locked /\ k \notin raced => AsSubmitted(k)'
<1> DEFINE c == DueSource(refresh, k)
           l == DueLedger(refresh, k)
<1>1. /\ c \in Channels /\ l \in Ledgers /\ carried'[k] = c /\ day[k] \in Ledgers
      /\ day'[k] = IF Due(k) THEN Submitted(l, NoCount, TRUE) ELSE l
      /\ day'[k] \in Ledgers /\ carried[k] \in Channels
      /\ snap'[k] = IF Due(k) THEN Snapshot("auto", day'[k]) ELSE snap[k]
  BY SubmitDueIs DEF LInv, Parts, DaysTyped
<1>2. row' = row /\ late' = (late \ {d \in Days : Freshened(refresh, d) /\ Open(d)})
                                \cup UNION {After(d) : d \in {j \in Days : Due(j)}}
  BY DEF SubmitDue, Freshened
<1>3. ASSUME Due(k) \/ Freshened(refresh, k)
      PROVE  /\ l.status = day[k].status /\ l.declared = day[k].declared
             /\ l.opening = OpeningOf(row', c, k) /\ l.expected = ExpectedOf(row', c, k)
  <2>1. l = Recalculated(day[k], c, k)
    BY <1>3 DEF DueLedger
  <2> HIDE DEF l, c
  <2> QED BY <1>1, <2>1, RecalculatedIs
<1>4. ASSUME ~(Due(k) \/ Freshened(refresh, k)) PROVE l = day[k] /\ c = carried[k]
  BY <1>4 DEF DueLedger, DueSource
<1>5. carried'[k] = IF Freshened(refresh, k) THEN Source(k) ELSE carried[k]
  BY <1>1 DEF DueSource
<1> HIDE DEF l, c
<1>6. CASE Due(k)
  <2> DEFINE s == Submitted(l, NoCount, TRUE)
  <2>1. s \in Ledgers /\ s.status \in Locked /\ s.opening = l.opening /\ s.expected = l.expected
    BY <1>1, SubmittedIs
  <2>2. day'[k] = s
    BY <1>1, <1>6
  <2> HIDE DEF s
  <2>3. snap'[k].closing = day'[k].expected
    BY <1>1, <1>6, SnapshotTyped
  <2>4. AsSubmitted(k)' /\ day'[k].status \in Locked
    BY <1>1, <1>3, <1>6, <2>1, <2>2, <2>3 DEF AsSubmitted
  <2>5. day[k].status \in Writable /\ After(k) \subseteq late'
    BY <1>2, <1>6 DEF Due
  <2> QED BY <1>5, <1>6, <2>4, <2>5
<1>7. CASE ~Due(k) /\ ~Freshened(refresh, k)
  <2>1. Kept(k) /\ day'[k] = day[k]
    BY <1>1, <1>2, <1>4, <1>7 DEF Kept
  <2>2. day[k].status \in Locked /\ k \notin raced => AsSubmitted(k)
    BY DEF LInv, LockedIsAsSubmitted, AsSubmitted
  <2>3. AsSubmitted(k) => AsSubmitted(k)'
    BY <2>1, AsSubmittedStays
  <2> QED BY <1>5, <1>7, <2>1, <2>2, <2>3
<1>8. CASE ~Due(k) /\ Freshened(refresh, k)
  <2>1. day'[k] = l /\ snap'[k] = snap[k] /\ k = today
    BY <1>1, <1>8 DEF Freshened
  <2>2. ASSUME day[k].status \in Locked, k \notin raced PROVE AsSubmitted(k)'
    <3>1. AsSubmitted(k)
      BY <2>2 DEF LInv, LockedIsAsSubmitted, AsSubmitted
    <3>2. c = carried[k]
      BY <1>1, <1>5, <1>8, <2>2 DEF Source, Open, Locked, Writable
    <3> QED BY <1>1, <1>2, <1>3, <1>8, <2>1, <3>1, <3>2 DEF AsSubmitted
  <2> QED BY <1>3, <1>5, <1>8, <2>1, <2>2
<1> QED BY <1>6, <1>7, <1>8

LEMMA SubmitDueKeeps ==
    ASSUME LInv, NEW refresh \in BOOLEAN, SubmitDue(refresh)
    PROVE  LockedIsAsSubmitted' /\ Linked' /\ NoFuture'
<1>1. /\ raced' = raced /\ today' = today
      /\ late' = (late \ {d \in Days : Freshened(refresh, d) /\ Open(d)})
                     \cup UNION {After(d) : d \in {j \in Days : Due(j)}}
  BY DEF SubmitDue, Freshened
<1>2. Existing' = Existing
  <2>1. \A k \in Days : day'[k].status = "none" <=> day[k].status = "none"
    <3> TAKE k \in Days
    <3>1. CASE Due(k)
      BY <3>1, SubmitDueDay DEF Locked, Writable
    <3>2. CASE ~Due(k)
      BY <3>2, SubmitDueDay
    <3> QED BY <3>1, <3>2
  <2> QED BY <2>1 DEF Existing
<1>3. LockedIsAsSubmitted'
  <2>1. ASSUME NEW k \in Days
        PROVE  day'[k].status \notin Locked \/ k \in raced' \/ AsSubmitted(k)'
    BY <1>1, SubmitDueDay
  <2> QED BY <1>1, <2>1, LockedStands DEF LInv
<1>4. NoFuture'
  BY <1>1, <1>2 DEF NoFuture, LInv
<1>5. ASSUME NEW k \in Existing', k \notin late',
             \A p \in Before(k)' : p = Max(Before(k)')
                 => day'[p].status \in Locked /\ p \notin raced'
      PROVE  carried'[k] = Carried(k)'
  <2>1. k \in Existing /\ k \in Days /\ k <= today /\ Before(k)' = Before(k)
        /\ Before(k) \subseteq Days
    BY <1>2 DEF LInv, NoFuture, Existing, Before
  <2>2. \A p \in Before(k) : p = Max(Before(k)) => Kept(p)
    <3> SUFFICES ASSUME NEW p \in Before(k), p = Max(Before(k)) PROVE Kept(p)
      OBVIOUS
    <3>1. ~Due(p)
      <4> SUFFICES ASSUME Due(p) PROVE FALSE
        OBVIOUS
      <4>1. k \in After(p)
        BY <2>1 DEF After, Before, Days
      <4>2. p \in Days /\ After(p) \subseteq late'
        BY <2>1, SubmitDueDay
      <4> QED BY <1>5, <4>1, <4>2
    <3>2. p # today /\ p \in Days
      BY <2>1 DEF Before, Days, LInv, Parts
    <3> QED BY <3>1, <3>2, SubmitDueDay
  <2>3. CASE Freshened(refresh, k) /\ Open(k)
    <3>1. carried'[k] = Brought(k)
      BY <2>1, <2>3, SubmitDueDay DEF Source
    <3> QED BY <2>1, <2>2, <3>1, LinkMade
  <2>4. CASE ~(Freshened(refresh, k) /\ Open(k))
    <3>1. carried'[k] = carried[k]
      BY <2>1, <2>4, SubmitDueDay DEF Source
    <3>2. k \notin late
      BY <1>1, <1>5, <2>4
    <3> QED BY <1>1, <1>5, <2>1, <2>2, <3>1, <3>2, LinkKept
  <2> QED BY <2>3, <2>4
<1> QED BY <1>3, <1>4, <1>5 DEF Linked

-----------------------------------------------------------------------------
(* The invariants together.                                                *)
StatusStands == \A k \in Days : day[k].status # "none" => day'[k].status # "none"

TInv == JInv /\ LInv

LEMMA LInvInit == Init => LInv
<1> SUFFICES ASSUME Init PROVE LInv
  OBVIOUS
<1>1. NoDay \in Ledgers /\ Nothing \in Channels /\ NoSubmission \in Snapshots /\ NoRow \in RowStates
  BY DaysAssumption DEF NoDay, Ledgers, Nothing, Channels, NoSubmission, Snapshots, NoRow,
     RowStates, Days
<1>2. Parts
  BY <1>1, DaysAssumption, NoWorkTyped DEF Init, Parts, DaysTyped, Noted, Days
<1>3. \A d \in Days : day[d].status = "none"
  BY DEF Init, NoDay
<1>4. slow.kind = "none"
  BY DEF Init, NoWork
<1>5. Existing = {}
  BY <1>3 DEF Existing
<1>6. SlowStands
  BY <1>4 DEF SlowStands
<1>7. LockedIsAsSubmitted
  BY <1>3 DEF LockedIsAsSubmitted, Locked
<1> QED BY <1>2, <1>5, <1>6, <1>7 DEF LInv, Linked, NoFuture

(* What every step does, whoever takes it.                                 *)
CountsStand ==
    \A d \in Days :
        day[d].status \in Locked /\ day[d].declared # NoCount /\ d \notin raced'
            => day'[d].declared # NoCount
StepKeeps ==
    /\ Parts' /\ LockedIsAsSubmitted' /\ Linked' /\ NoFuture'
    /\ StatusStands /\ CountsStand

LEMMA DayStepKeeps ==
    ASSUME LInv, Parts', NEW e \in Days, DayStep(e)
    PROVE  StepKeeps
<1>1. StatusStands /\ CountsStand
  BY DEF DayStep, Kept, StatusStands, CountsStand
<1> QED BY <1>1, DayStepLocked, DayStepLinked DEF StepKeeps

LEMMA QuietStepKeeps ==
    ASSUME LInv, Parts', Quiet
    PROVE  StepKeeps
<1>1. StatusStands /\ CountsStand
  BY DEF Quiet, Kept, StatusStands, CountsStand
<1> QED BY <1>1, QuietKeeps DEF StepKeeps, Parts

LEMMA CorrectStepKeeps ==
    ASSUME LInv, NEW f \in Funds, NEW d \in Days, NEW count \in Int \cup {NoCount},
           Correct(f, d, count)
    PROVE  StepKeeps
<1>1. ASSUME NEW k \in Days
      PROVE  /\ day[k].status # "none" => day'[k].status # "none"
             /\ day[k].status \in Locked /\ day[k].declared # NoCount
                   => day'[k].declared # NoCount
  <2>1. CASE k < d \/ k \notin Existing \cup {d}
    BY <2>1, CorrectIs DEF LInv, Kept
  <2>2. CASE k >= d /\ k \in Existing \cup {d}
    BY <2>2, CorrectIs DEF LInv, Locked, Writable
  <2> QED BY <2>1, <2>2 DEF Days
<1>2. StatusStands /\ CountsStand
  BY <1>1 DEF StatusStands, CountsStand
<1> QED BY <1>2, CorrectKeeps, TypesCorrect DEF StepKeeps, LInv

LEMMA SubmitDueStepKeeps ==
    ASSUME LInv, NEW refresh \in BOOLEAN, SubmitDue(refresh)
    PROVE  StepKeeps
<1>1. ASSUME NEW k \in Days
      PROVE  /\ day[k].status # "none" => day'[k].status # "none"
             /\ day[k].status \in Locked => day'[k].declared = day[k].declared
  <2>1. CASE Due(k)
    BY <2>1, SubmitDueDay DEF Locked, Writable
  <2>2. CASE ~Due(k)
    BY <2>2, SubmitDueDay
  <2> QED BY <2>1, <2>2
<1>2. StatusStands /\ CountsStand
  BY <1>1 DEF StatusStands, CountsStand
<1> QED BY <1>2, SubmitDueKeeps, TypesSubmitDue DEF StepKeeps, LInv

LEMMA CountsTyped ==
    ASSUME Parts, NEW d \in Days, NEW count \in Counts(d)
    PROVE  count \in Int \cup {NoCount}
<1>1. day[d].expected \in Int
  BY DEF Parts, DaysTyped, Ledgers
<1> QED BY <1>1 DEF Counts

(* The operations on a day.                                                *)
LEMMA EntersKeeps ==
    ASSUME TInv, NEW d \in Days,
           \/ \E p \in Payments : \E owner \in BOOLEAN : TakePayment(p, d, owner)
           \/ \E x \in Expenses : Spend(x, d)
           \/ \E f \in Funds : AddFund(f, d)
           \/ \E t \in Transfers : IssueFunding(t, d)
    PROVE  StepKeeps /\ slow' = slow
<1>0. LInv /\ Parts
  BY DEF TInv, LInv
<1>1. ASSUME NEW p \in Payments, NEW owner \in BOOLEAN, TakePayment(p, d, owner)
      PROVE  StepKeeps /\ slow' = slow
  <2>1. Parts' /\ p \in Rows
    BY <1>0, <1>1, TypesTakePayment DEF Rows
  <2>2. DayStep(d)
    BY <1>0, <1>1, <2>1, EnterIsDayStep DEF TakePayment
  <2> QED BY <1>0, <1>1, <2>1, <2>2, DayStepKeeps DEF TakePayment
<1>2. ASSUME NEW r \in Rows, NEW state \in {"pending", "counted"}, Enter(r, d, state),
             journal' \subseteq Expenses \cup Funds
      PROVE  StepKeeps /\ slow' = slow
  <2>1. Parts'
    BY <1>0, <1>2, TypesEnter
  <2>2. DayStep(d)
    BY <1>0, <1>2, EnterIsDayStep DEF Enter
  <2> QED BY <1>0, <1>2, <2>1, <2>2, DayStepKeeps DEF Enter
<1>3. journal \subseteq Expenses \cup Funds
  BY <1>0 DEF Parts
<1>4. ASSUME NEW x \in Expenses, Spend(x, d) PROVE StepKeeps /\ slow' = slow
  <2> DEFINE state == IF x \in NeedApproval THEN "pending" ELSE "counted"
  <2>1. Enter(x, d, state) /\ journal' \subseteq Expenses \cup Funds
    BY <1>3, <1>4 DEF Spend
  <2>2. state \in {"pending", "counted"} /\ x \in Rows
    BY DEF Rows
  <2> HIDE DEF state
  <2> QED BY <1>2, <2>1, <2>2
<1>5. ASSUME NEW f \in Funds, AddFund(f, d) PROVE StepKeeps /\ slow' = slow
  BY <1>2, <1>3, <1>5 DEF AddFund, Rows, Sources
<1>6. ASSUME NEW t \in Transfers, IssueFunding(t, d) PROVE StepKeeps /\ slow' = slow
  BY <1>2, <1>3, <1>6 DEF IssueFunding, Rows, Sources
<1> QED BY <1>1, <1>4, <1>5, <1>6

LEMMA DayKeeps ==
    ASSUME TInv, NEW d \in Days,
           \/ \E count \in Counts(d) : SubmitDay(d, count)
           \/ ReopenDay(d)
           \/ View(d)
           \/ d = today /\ OpenToday
           \/ \E x \in Expenses : SpendAgain(x) /\ row[x].day = d
    PROVE  StepKeeps /\ slow' = slow
<1>0. LInv /\ Parts /\ NoFuture
  BY DEF TInv, LInv
<1>1. ASSUME NEW count \in Counts(d), SubmitDay(d, count) PROVE StepKeeps /\ slow' = slow
  <2>1. count \in Int \cup {NoCount}
    BY <1>0, CountsTyped
  <2>2. Parts' /\ DayStep(d)
    BY <1>0, <1>1, <2>1, TypesSubmitDay, SubmitDayIsDayStep
  <2> QED BY <1>0, <1>1, <2>2, DayStepKeeps DEF SubmitDay
<1>2. CASE ReopenDay(d)
  <2>1. Parts' /\ DayStep(d)
    BY <1>0, <1>2, TypesReopenDay, ReopenIsDayStep
  <2> QED BY <1>0, <1>2, <2>1, DayStepKeeps DEF ReopenDay
<1>3. CASE View(d)
  <2>1. Parts'
    BY <1>0, <1>3, TypesView DEF View
  <2>2. DayStep(d)
    BY <1>0, <1>3, EnterIsDayStep DEF View
  <2> QED BY <1>0, <1>3, <2>1, <2>2, DayStepKeeps DEF View
<1>4. CASE d = today /\ OpenToday
  <2>1. Parts'
    BY <1>0, <1>4, TypesView DEF OpenToday
  <2>2. DayStep(d)
    BY <1>0, <1>4, EnterIsDayStep DEF OpenToday, Open, Days
  <2> QED BY <1>0, <1>4, <2>1, <2>2, DayStepKeeps DEF OpenToday
<1>5. ASSUME NEW x \in Expenses, SpendAgain(x), row[x].day = d PROVE StepKeeps /\ slow' = slow
  <2>1. Parts'
    BY <1>0, <1>5, TypesView DEF SpendAgain
  <2>2. d <= today
    BY <1>0, <1>5 DEF SpendAgain, NoFuture, Existing, Writable
  <2>3. x \in Rows
    BY DEF Rows
  <2>4. DayStep(d)
    BY <1>0, <1>5, <2>2, <2>3, EnterIsDayStep DEF SpendAgain
  <2> QED BY <1>0, <1>5, <2>1, <2>4, DayStepKeeps DEF SpendAgain
<1> QED BY <1>1, <1>2, <1>3, <1>4, <1>5

(* What approve, reject, void and receive do.                              *)
LEMMA RevaluesKeeps ==
    ASSUME TInv, NEW r \in Rows, Revalue(row[r].day), journal' \subseteq Expenses \cup Funds,
           \/ \E s \in {"counted", "rejected"} : row' = [row EXCEPT ![r].state = s]
           \/ row' = [row EXCEPT ![r].voided = TRUE]
    PROVE  StepKeeps /\ slow' = slow
<1>1. LInv /\ Parts /\ NoFuture
  BY DEF TInv, LInv
<1>2. PICK e \in Days : e = row[r].day
  BY <1>1 DEF Parts, RowStates
<1>3. Revalue(e)
  BY <1>2
<1>4. row' \in [Rows -> RowStates]
  BY <1>1, RowRevalued
<1>5. Parts'
  BY <1>1, <1>3, <1>4, TypesRevalue
<1>6. DayStep(e)
  BY <1>1, <1>2, <1>3, RevalueIsDayStep
<1> QED BY <1>1, <1>3, <1>5, <1>6, DayStepKeeps DEF Revalue

LEMMA RevalueKeeps ==
    ASSUME TInv,
           \/ \E x \in Expenses : Approve(x) \/ Reject(x)
           \/ \E t \in Transfers : ReceiveFunding(t)
           \/ \E r \in Rows \ Transfers : Void(r)
    PROVE  StepKeeps /\ slow' = slow
<1>1. journal \subseteq Expenses \cup Funds
  BY DEF TInv, LInv, Parts
<1>2. ASSUME NEW x \in Expenses, Approve(x) \/ Reject(x) PROVE StepKeeps /\ slow' = slow
  <2>1. x \in Rows /\ journal' \subseteq Expenses \cup Funds /\ Revalue(row[x].day)
    BY <1>1, <1>2 DEF Approve, Reject, Rows
  <2>2. \E s \in {"counted", "rejected"} : row' = [row EXCEPT ![x].state = s]
    BY <1>2 DEF Approve, Reject
  <2> QED BY <2>1, <2>2, RevaluesKeeps
<1>3. ASSUME NEW t \in Transfers, ReceiveFunding(t) PROVE StepKeeps /\ slow' = slow
  <2>1. t \in Rows /\ journal' \subseteq Expenses \cup Funds /\ Revalue(row[t].day)
    BY <1>1, <1>3 DEF ReceiveFunding, Rows, Sources
  <2>2. \E s \in {"counted", "rejected"} : row' = [row EXCEPT ![t].state = s]
    BY <1>3 DEF ReceiveFunding
  <2> QED BY <2>1, <2>2, RevaluesKeeps
<1>4. ASSUME NEW r \in Rows, Void(r) PROVE StepKeeps /\ slow' = slow
  <2>1. /\ journal' \subseteq Expenses \cup Funds /\ Revalue(row[r].day)
        /\ row' = [row EXCEPT ![r].voided = TRUE]
    BY <1>1, <1>4 DEF Void
  <2> QED BY <2>1, RevaluesKeeps
<1> QED BY <1>2, <1>3, <1>4

(* A transaction that only loads.                                          *)
LEMMA LoadQuiet ==
    ASSUME LInv, NEW kind \in {"post", "approve", "submit", "auto"},
           NEW r \in Rows \cup {NoCount}, NEW d \in Days, NEW count \in Int \cup {NoCount},
           Load(kind, r, d, count),
           kind # "post" => day[d].status \in Writable
    PROVE  StepKeeps /\ SlowStands'
<1>1. Parts /\ Parts'
  BY TypesLoad DEF LInv
<1>2. Quiet
  BY <1>1 DEF Load, Quiet, Kept, Parts, Days
<1>3. SlowStands'
  <2>1. slow'.kind = kind /\ slow'.day = d /\ slow'.ledger = day[d] /\ day' = day
        /\ day[d].status # "none"
    BY DEF Load
  <2> QED BY <2>1 DEF SlowStands
<1> QED BY <1>1, <1>2, <1>3, QuietStepKeeps

LEMMA LoadKeeps ==
    ASSUME TInv,
           \/ \E d \in Days : \/ \E p \in Payments : LoadPayment(p, d)
                              \/ \E count \in Counts(d) : LoadSubmission(d, count)
                              \/ LoadDue(d)
           \/ \E x \in Expenses : LoadApproval(x)
    PROVE  StepKeeps /\ SlowStands'
<1>0. LInv /\ Parts
  BY DEF TInv, LInv
<1>1. ASSUME NEW d \in Days, NEW p \in Payments, LoadPayment(p, d)
      PROVE  StepKeeps /\ SlowStands'
  <2>1. Load("post", p, d, NoCount) /\ p \in Rows
    BY <1>1 DEF LoadPayment, Rows
  <2> QED BY <1>0, <2>1, LoadQuiet
<1>2. ASSUME NEW d \in Days, NEW count \in Counts(d), LoadSubmission(d, count)
      PROVE  StepKeeps /\ SlowStands'
  <2>1. Load("submit", NoCount, d, count) /\ day[d].status \in Writable
    BY <1>2 DEF LoadSubmission
  <2>2. count \in Int \cup {NoCount}
    BY <1>0, CountsTyped
  <2> QED BY <1>0, <2>1, <2>2, LoadQuiet
<1>3. ASSUME NEW d \in Days, LoadDue(d)
      PROVE  StepKeeps /\ SlowStands'
  <2>1. Load("auto", NoCount, d, NoCount) /\ day[d].status \in Writable
    BY <1>3 DEF LoadDue, Due
  <2> QED BY <1>0, <2>1, LoadQuiet
<1>4. ASSUME NEW x \in Expenses, LoadApproval(x)
      PROVE  StepKeeps /\ SlowStands'
  <2>1. x \in Rows
    BY DEF Rows
  <2>2. PICK e \in Days : e = row[x].day
    BY <1>0, <2>1 DEF Parts, RowStates
  <2>3. Load("approve", x, e, NoCount) /\ day[e].status \in Writable
    BY <1>4, <2>2 DEF LoadApproval
  <2> QED BY <1>0, <2>1, <2>3, LoadQuiet
<1> QED BY <1>1, <1>2, <1>3, <1>4

(* A transaction that writes.                                              *)
LEMMA WriteKeeps ==
    ASSUME TInv, WritePayment \/ WriteApproval \/ WriteSubmission
    PROVE  StepKeeps /\ slow' = NoWork
<1>1. LInv /\ Parts /\ NoFuture /\ SlowStands /\ SlowOK
  BY DEF TInv, LInv, JInv
<1>2. Parts'
  BY <1>1, TypesWrites DEF SlowStands, SlowOK
<1>3. PICK e \in Days : e = slow.day
  BY <1>1 DEF Parts, Works
<1>4. DayStep(e)
  <2>1. CASE WritePayment
    <3>1. slow.row \in Payments
      BY <1>1, <2>1 DEF WritePayment, SlowOK
    <3> QED BY <1>1, <1>3, <2>1, <3>1, WritePaymentIsDayStep
  <2>2. CASE WriteApproval
    <3>1. slow.row \in Rows /\ row[slow.row].day = slow.day
      BY <1>1, <2>2 DEF WriteApproval, SlowOK, Rows
    <3> QED BY <1>1, <1>3, <2>2, <3>1, WriteApprovalIsDayStep
  <2>3. CASE WriteSubmission
    BY <1>1, <1>3, <2>3, WriteSubmissionIsDayStep
  <2> QED BY <2>1, <2>2, <2>3
<1>5. slow' = NoWork
  BY DEF WritePayment, WriteApproval, WriteSubmission, Write
<1> QED BY <1>1, <1>2, <1>4, <1>5, DayStepKeeps

(* What a slow transaction relies on stays, if no step forgets a day.      *)
LEMMA SlowStandsStays ==
    ASSUME LInv, StatusStands, slow' = slow \/ slow' = NoWork
    PROVE  SlowStands'
<1>1. CASE slow' = NoWork
  BY <1>1 DEF SlowStands, NoWork
<1>2. CASE slow' = slow
  BY <1>2 DEF LInv, Parts, Works, SlowStands, StatusStands
<1> QED BY <1>1, <1>2

LEMMA TInvStep == TInv /\ [Next]_vars => TInv' /\ StepKeeps
<1> SUFFICES ASSUME TInv, [Next]_vars PROVE TInv' /\ StepKeeps
  OBVIOUS
<1>0. LInv /\ Parts /\ JInv
  BY DEF TInv, LInv
<1>1. ASSUME NEW d \in Days,
             \/ \E p \in Payments : \E owner \in BOOLEAN : TakePayment(p, d, owner)
             \/ \E x \in Expenses : Spend(x, d)
             \/ \E f \in Funds : AddFund(f, d)
             \/ \E t \in Transfers : IssueFunding(t, d)
      PROVE  StepKeeps /\ slow' = slow
  BY <1>1, EntersKeeps
<1>2. ASSUME NEW d \in Days,
             (\E count \in Counts(d) : SubmitDay(d, count)) \/ ReopenDay(d) \/ View(d)
      PROVE  StepKeeps /\ slow' = slow
  BY <1>2, DayKeeps
<1>3. ASSUME NEW d \in Days, NEW f \in Funds, NEW count \in Counts(d), Correct(f, d, count)
      PROVE  StepKeeps /\ slow' = slow
  <2>1. count \in Int \cup {NoCount}
    BY <1>0, CountsTyped
  <2>2. StepKeeps
    BY <1>0, <1>3, <2>1, CorrectStepKeeps
  <2> QED BY <1>3, <2>2 DEF Correct
<1>4. CASE \/ \E d \in Days : \/ \E p \in Payments : LoadPayment(p, d)
                              \/ \E count \in Counts(d) : LoadSubmission(d, count)
                              \/ LoadDue(d)
           \/ \E x \in Expenses : LoadApproval(x)
  <2>1. StepKeeps /\ SlowStands'
    BY <1>4, LoadKeeps
  <2>2. LInv'
    BY <2>1 DEF StepKeeps, LInv
  <2> QED BY <1>0, <2>1, <2>2, JInvStep DEF TInv
<1>5. ASSUME NEW x \in Expenses, SpendAgain(x)
      PROVE  StepKeeps /\ slow' = slow
  <2>1. PICK e \in Days : e = row[x].day
    BY <1>0 DEF Parts, RowStates, Rows
  <2> QED BY <1>5, <2>1, DayKeeps
<1>6. ASSUME \/ \E x \in Expenses : Approve(x) \/ Reject(x)
             \/ \E t \in Transfers : ReceiveFunding(t)
             \/ \E r \in Rows \ Transfers : Void(r)
      PROVE  StepKeeps /\ slow' = slow
  BY <1>6, RevalueKeeps
<1>7. ASSUME OpenToday
      PROVE  StepKeeps /\ slow' = slow
  <2>1. PICK e \in Days : e = today
    BY <1>0 DEF Parts
  <2> QED BY <1>7, <2>1, DayKeeps
<1>8. ASSUME NEW refresh \in BOOLEAN, SubmitDue(refresh)
      PROVE  StepKeeps /\ slow' = slow
  <2>1. StepKeeps
    BY <1>0, <1>8, SubmitDueStepKeeps
  <2> QED BY <1>8, <2>1 DEF SubmitDue
<1>9. ASSUME Midnight \/ Abandon \/ UNCHANGED vars
      PROVE  StepKeeps /\ (slow' = slow \/ slow' = NoWork)
  <2>1. /\ UNCHANGED <<day, carried, snap, row, journal, late, raced, acts>>
        /\ slow' = slow \/ slow' = NoWork
        /\ today' = today \/ (today' = today + 1 /\ today < LastDay)
    BY <1>9 DEF Midnight, Abandon, vars, history
  <2>2. today' \in Days /\ today <= today'
    BY <1>0, <2>1, DaysAssumption DEF Parts, Days
  <2>3. slow' \in Works
    BY <1>0, <2>1, NoWorkTyped DEF Parts
  <2>4. Parts'
    BY <1>0, <2>1, <2>2, <2>3 DEF Parts, DaysTyped, Noted
  <2>5. Quiet
    BY <2>1, <2>2 DEF Quiet, Kept
  <2>6. StepKeeps
    BY <1>0, <2>4, <2>5, QuietStepKeeps
  <2> QED BY <2>1, <2>6
<1>10. ASSUME WritePayment \/ WriteApproval \/ WriteSubmission
       PROVE  StepKeeps /\ slow' = NoWork
  BY <1>10, WriteKeeps
<1>11. ASSUME StepKeeps, slow' = slow \/ slow' = NoWork
       PROVE  TInv' /\ StepKeeps
  <2>1. SlowStands'
    BY <1>0, <1>11, SlowStandsStays DEF StepKeeps
  <2>2. LInv'
    BY <1>11, <2>1 DEF StepKeeps, LInv
  <2> QED BY <1>0, <1>11, <2>2, JInvStep DEF TInv
<1>12. CASE UNCHANGED vars
  BY <1>9, <1>11, <1>12
<1>13. CASE Next
  BY <1>1, <1>2, <1>3, <1>4, <1>5, <1>6, <1>7, <1>8, <1>9, <1>10, <1>11, <1>13 DEF Next
<1> QED BY <1>12, <1>13

LEMMA TInvInit == Init => TInv
BY JInvInit, LInvInit DEF TInv

-----------------------------------------------------------------------------
(* Disjoint sets of rows add up.                                           *)
LEMMA NetJoins ==
    ASSUME NEW A \in SUBSET Rows, NEW B \in SUBSET Rows, A \cap B = {}
    PROVE  Net(A \cup B) = Net(A) + Net(B)
<1>1. ASSUME NEW S \in SUBSET Rows, NEW T \in SUBSET Rows, S \cap T = {}
      PROVE  Sums[S \cup T] = Sums[S] + Sums[T] /\ Sums[S] \in Int /\ Sums[T] \in Int
  <2>1. IsFiniteSet(S) /\ IsFiniteSet(T) /\ \A x \in S \cup T : Amount[x] \in Int
    BY RowsAssumption, FS_Subset
  <2>2. SumFunctionOnSet(Amount, S \cup T)
           = SumFunctionOnSet(Amount, S) + SumFunctionOnSet(Amount, T)
    BY <1>1, <2>1, SumParts
  <2>3. S \cup T \in SUBSET Rows
    OBVIOUS
  <2> QED BY <2>2, <2>3, NetInt DEF Sums
<1> DEFINE X == Expenses
<1>2. /\ A \ X \in SUBSET Rows /\ B \ X \in SUBSET Rows
      /\ A \cap X \in SUBSET Rows /\ B \cap X \in SUBSET Rows
      /\ (A \ X) \cap (B \ X) = {} /\ (A \cap X) \cap (B \cap X) = {}
      /\ (A \cup B) \ X = (A \ X) \cup (B \ X)
      /\ (A \cup B) \cap X = (A \cap X) \cup (B \cap X)
  OBVIOUS
<1> HIDE DEF X
<1> DEFINE a == Sums[A \ X]
           b == Sums[B \ X]
           u == Sums[A \cap X]
           v == Sums[B \cap X]
<1>3. Sums[(A \cup B) \ X] = a + b /\ a \in Int /\ b \in Int
  BY <1>1, <1>2
<1>4. Sums[(A \cup B) \cap X] = u + v /\ u \in Int /\ v \in Int
  BY <1>1, <1>2
<1>5. /\ Net(A \cup B) = Sums[(A \cup B) \ X] - Sums[(A \cup B) \cap X]
      /\ Net(A) = a - u /\ Net(B) = b - v
  BY DEF Net, X
<1> HIDE DEF a, b, u, v
<1> QED BY <1>3, <1>4, <1>5

(* The line of days that end in d, and what each adds to the closing.      *)
Line(d) == Before(d) \cup {d}
Flow(k) == Net(Counted(row, k)) + Closing(day[k]) - day[k].expected
FlowOn(S) == [k \in S |-> Flow(k)]
InLine(S) == UNION {Counted(row, k) : k \in S}

Settled(d) == \A k \in Line(d) : day[k].status \in Locked /\ k \notin raced \cup late
NothingLost(d) ==
    /\ GatewayOf(row, carried[d], d) = Net(Gateway \cap InLine(Line(d)))
    /\ Closing(day[d]) = SumFunctionOnSet(FlowOn(Line(d)), Line(d))

LEMMA NothingLostIs == NothingLostOverNight <=> \A d \in Days : Settled(d) => NothingLost(d)
BY DEF NothingLostOverNight, Settled, NothingLost, Line, FlowOn, Flow, InLine

LEMMA LineDays == ASSUME NEW d \in Days PROVE Line(d) \in SUBSET Days /\ IsFiniteSet(Line(d))
<1>1. IsFiniteSet(Days)
  BY DaysAssumption, FS_Interval DEF Days
<1> QED BY <1>1, FS_Subset DEF Line, Before, Existing

LEMMA FlowInt ==
    ASSUME Parts, NEW k \in Days
    PROVE  /\ Flow(k) \in Int /\ Net(Counted(row, k)) \in Int
           /\ Closing(day[k]) \in Int /\ day[k].expected \in Int
<1>1. Counted(row, k) \in SUBSET Rows
  BY DEF Counted
<1>2. Net(Counted(row, k)) \in Int
  BY <1>1, NetInt
<1>3. Closing(day[k]) \in Int /\ day[k].expected \in Int
  BY DEF Parts, DaysTyped, Ledgers, Closing
<1> QED BY <1>2, <1>3 DEF Flow

LEMMA SettledLinks ==
    ASSUME LInv, NEW d \in Days, Settled(d)
    PROVE  /\ d \in Existing /\ carried[d] = Carried(d) /\ carried[d] \in Channels
           /\ day[d].expected = Total(carried[d]) + Net(Counted(row, d))
<1>1. d \in Line(d) /\ Before(d) \subseteq Line(d)
  BY DEF Line
<1>2. day[d].status \in Locked /\ d \notin raced \cup late
  BY <1>1 DEF Settled
<1>3. d \in Existing
  BY <1>2 DEF Existing, Locked
<1>4. carried[d] = Carried(d)
  BY <1>1, <1>2, <1>3 DEF LInv, Linked, Settled
<1>5. carried[d] \in Channels
  BY DEF LInv, Parts, DaysTyped
<1>6. day[d].expected = ExpectedOf(row, carried[d], d)
  BY <1>2 DEF LInv, LockedIsAsSubmitted
<1> QED BY <1>3, <1>4, <1>5, <1>6 DEF ExpectedOf

(* The first day of a line.                                                *)
LEMMA FirstDay ==
    ASSUME LInv, NEW d \in Days, Settled(d), Before(d) = {}
    PROVE  NothingLost(d)
<1>0. Line(d) = {d} /\ Parts
  BY DEF Line, LInv
<1>1. carried[d] = Nothing
  BY SettledLinks DEF Carried
<1>2. InLine({d}) = Counted(row, d)
  BY DEF InLine
<1> DEFINE C == Counted(row, d)
<1>3. C \in SUBSET Rows
  BY DEF Counted
<1>4. C \cap Gateway \in SUBSET Rows /\ Gateway \cap C = C \cap Gateway
  BY <1>3
<1>5. Net(C \cap Gateway) \in Int
  BY <1>4, NetInt
<1>6. GatewayOf(row, Nothing, d) = 0 + Net(C \cap Gateway)
  BY DEF GatewayOf, Nothing
<1>7. Net(Gateway \cap InLine(Line(d))) = Net(C \cap Gateway)
  BY <1>0, <1>2, <1>4
<1>8. GatewayOf(row, carried[d], d) = Net(Gateway \cap InLine(Line(d)))
  BY <1>1, <1>5, <1>6, <1>7
<1>9. day[d].expected = Net(C)
  <2>1. day[d].expected = Total(Nothing) + Net(C)
    BY <1>1, SettledLinks
  <2>2. Total(Nothing) = 0
    BY DEF Total, Nothing
  <2> QED BY <1>0, <2>1, <2>2, FlowInt
<1>10. SumFunctionOnSet(FlowOn({d}), {d}) = Closing(day[d])
  <2> DEFINE f == FlowOn({d})
  <2>1. f[d] = Flow(d)
    BY DEF FlowOn
  <2> HIDE DEF f
  <2>2. f[d] \in Int
    BY <1>0, <2>1, FlowInt
  <2>3. SumFunctionOnSet(f, {} \cup {d}) = SumFunctionOnSet(f, {}) + f[d]
    BY <2>2, FS_EmptySet, SumJoins
  <2>4. SumFunctionOnSet(f, {d}) = 0 + f[d]
    BY <2>3, SumEmpty
  <2>5. Flow(d) = Closing(day[d])
    BY <1>0, <1>9, FlowInt DEF Flow
  <2> QED BY <1>0, <2>1, <2>2, <2>4, <2>5, FlowInt DEF f
<1> QED BY <1>0, <1>8, <1>10 DEF NothingLost

(* A day after another.                                                    *)
LEMMA NextDay ==
    ASSUME LInv, NEW d \in Days, Settled(d), NEW p \in Before(d), p = Max(Before(d)),
           NothingLost(p)
    PROVE  NothingLost(d)
<1>0. Parts /\ p \in Days /\ p < d
  BY DEF Before, Existing, LInv
<1>1. Line(p) = Before(d) /\ Line(d) = Line(p) \cup {d} /\ d \notin Line(p)
  <2>1. \A k \in Before(d) : k <= p
    BY LatestDay DEF Before, Existing
  <2>2. Before(p) \cup {p} = Before(d)
    <3>1. \A k \in Before(d) : k \in Before(p) \/ k = p
      BY <1>0, <2>1 DEF Before, Existing, Days
    <3>2. \A k \in Before(p) : k \in Before(d)
      BY <1>0 DEF Before, Existing, Days
    <3> QED BY <3>1, <3>2
  <2> QED BY <1>0, <2>2 DEF Line, Before, Days
<1>2. carried[d] = CarriedFrom(day[p], row, carried[p], p)
  BY SettledLinks DEF Carried
<1> DEFINE g == GatewayOf(row, carried[p], p)
           e == Closing(day[p])
<1>3. carried[p] \in Channels
  BY <1>0 DEF Parts, DaysTyped
<1>4. g \in Int /\ e \in Int
  BY <1>0, <1>3, DerivedInt, FlowInt
<1>5. carried[d].gateway = g /\ Total(carried[d]) = e
  <2>1. carried[d] = [cash |-> e - g, gateway |-> g]
    BY <1>2 DEF CarriedFrom
  <2> HIDE DEF e, g
  <2> QED BY <1>4, <2>1 DEF Total
<1> DEFINE C == Counted(row, d)
           L == InLine(Line(p))
<1>6. InLine(Line(d)) = L \cup C /\ L \in SUBSET Rows /\ C \in SUBSET Rows
  BY <1>1 DEF InLine, Counted
<1>7. L \cap C = {}
  BY <1>1 DEF InLine, Counted
<1>8. GatewayOf(row, carried[d], d) = Net(Gateway \cap InLine(Line(d)))
  <2>1. GatewayOf(row, carried[d], d) = carried[d].gateway + Net(C \cap Gateway)
    BY DEF GatewayOf
  <2>2. g = Net(Gateway \cap L)
    BY DEF NothingLost
  <2> HIDE DEF C, L, g
  <2>3. /\ Gateway \cap L \in SUBSET Rows /\ C \cap Gateway \in SUBSET Rows
        /\ (Gateway \cap L) \cap (C \cap Gateway) = {}
        /\ Gateway \cap InLine(Line(d)) = (Gateway \cap L) \cup (C \cap Gateway)
    BY <1>6, <1>7
  <2>4. Net((Gateway \cap L) \cup (C \cap Gateway)) = Net(Gateway \cap L) + Net(C \cap Gateway)
    BY <2>3, NetJoins
  <2> QED BY <1>5, <2>1, <2>2, <2>3, <2>4
<1>9. Flow(d) = Closing(day[d]) - e
  <2>1. day[d].expected = e + Net(C)
    BY <1>5, SettledLinks
  <2> HIDE DEF e, C
  <2> DEFINE n == Net(C)
             c == Closing(day[d])
             x == day[d].expected
  <2>2. n \in Int /\ c \in Int /\ Flow(d) = n + c - x
    BY <1>0, FlowInt DEF Flow, C
  <2> HIDE DEF n, c, x
  <2>3. x = e + n
    BY <2>1 DEF x, n
  <2>4. Flow(d) = c - e
    BY <1>4, <2>2, <2>3
  <2> QED BY <2>4 DEF c
<1>10. Closing(day[d]) = SumFunctionOnSet(FlowOn(Line(d)), Line(d))
  <2> DEFINE f == FlowOn(Line(d))
             S == Line(p)
  <2>1. S \in SUBSET Days /\ IsFiniteSet(S) /\ d \notin S /\ Line(d) = S \cup {d}
    BY <1>0, <1>1, LineDays
  <2>2. \A k \in S \cup {d} : f[k] = Flow(k) /\ f[k] \in Int
    BY <1>0, <2>1, FlowInt DEF FlowOn
  <2>3. \A k \in S : FlowOn(S)[k] = Flow(k)
    BY DEF FlowOn
  <2>4. e = SumFunctionOnSet(FlowOn(S), S)
    BY DEF NothingLost
  <2> HIDE DEF f, S, e
  <2>5. SumFunctionOnSet(f, S) = SumFunctionOnSet(FlowOn(S), S)
    BY <2>1, <2>2, <2>3, SumSame
  <2>6. SumFunctionOnSet(f, S \cup {d}) = SumFunctionOnSet(f, S) + f[d]
    BY <2>1, <2>2, SumJoins
  <2> DEFINE c == Closing(day[d])
  <2>7. c \in Int /\ f[d] = c - e
    BY <1>0, <1>9, <2>2, FlowInt
  <2> HIDE DEF c
  <2>8. SumFunctionOnSet(f, S \cup {d}) = c
    BY <1>4, <2>4, <2>5, <2>6, <2>7
  <2> QED BY <2>1, <2>8 DEF f, c
<1> QED BY <1>8, <1>10 DEF NothingLost

(* By induction over the days of a line.                                   *)
LEMMA NothingIsLost == LInv => NothingLostOverNight
<1> SUFFICES ASSUME LInv PROVE NothingLostOverNight
  OBVIOUS
<1> DEFINE Bad == {d \in Days : Settled(d) /\ ~NothingLost(d)}
<1>1. SUFFICES ASSUME Bad # {} PROVE FALSE
  BY NothingLostIs
<1>2. PICK d \in Bad : \A k \in Bad : d <= k
  <2>1. Bad \subseteq Nat
    BY DEF Days
  <2> HIDE DEF Bad
  <2> QED BY <1>1, <2>1, LeastNumber
<1>3. d \in Days /\ Settled(d) /\ ~NothingLost(d) /\ Before(d) \in SUBSET Days
  BY DEF Before, Existing
<1>4. Before(d) # {}
  BY <1>3, FirstDay
<1> DEFINE p == Max(Before(d))
<1>5. p \in Before(d) /\ \A k \in Before(d) : k <= p
  BY <1>3, <1>4, LatestDay
<1>6. p \in Days /\ p < d
  BY <1>3, <1>5 DEF Before
<1> HIDE DEF p
<1>7. Settled(p)
  <2>1. Line(p) \subseteq Line(d)
    <3>1. \A k \in Before(p) : k \in Before(d)
      BY <1>3, <1>6 DEF Before, Existing, Days
    <3> QED BY <1>5, <3>1 DEF Line
  <2> QED BY <1>3, <2>1 DEF Settled
<1>8. NothingLost(p)
  BY <1>2, <1>6, <1>7 DEF Days
<1>9. p = Max(Before(d))
  BY DEF p
<1> QED BY <1>3, <1>5, <1>8, <1>9, NextDay

-----------------------------------------------------------------------------
(***************************************************************************)
(* The theorems.  Every variable keeps its type.                           *)
(***************************************************************************)
THEOREM TreasuryTypes == Spec => []TypeOK
<1>1. TInv => TypeOK
  BY PartsAreTypes DEF TInv, LInv
<1> QED BY <1>1, TInvInit, TInvStep, PTL DEF Spec

(***************************************************************************)
(* "A submitted day is a frozen operational snapshot": a locked day that no *)
(* overtaken transaction wrote is the snapshot it was submitted as, and both *)
(* are what its rows add up to.                                            *)
(***************************************************************************)
THEOREM LockedDaysStand == Spec => []LockedIsAsSubmitted
<1>1. TInv => LockedIsAsSubmitted
  BY DEF TInv, LInv
<1> QED BY <1>1, TInvInit, TInvStep, PTL DEF Spec

(***************************************************************************)
(* "A physical closing count is evidence": no step takes the count off a   *)
(* locked day, the corrections of earlier days included.                   *)
(***************************************************************************)
THEOREM CountsStay == Spec => CountIsEvidence
<1>1. TInv /\ [Next]_vars =>
        [\A d \in Days :
            day[d].status \in Locked /\ day[d].declared # NoCount /\ d \notin raced'
                => day'[d].declared # NoCount]_vars
  BY TInvStep DEF StepKeeps, CountsStand
<1> QED BY <1>1, TInvInit, TInvStep, PTL DEF Spec, CountIsEvidence

(***************************************************************************)
(* Nothing is counted twice or lost over night, in total and by channel,   *)
(* along any line of locked days.                                          *)
(***************************************************************************)
THEOREM NightsLoseNothing == Spec => []NothingLostOverNight
<1>1. TInv => NothingLostOverNight
  BY NothingIsLost DEF TInv
<1> QED BY <1>1, TInvInit, TInvStep, PTL DEF Spec
=============================================================================
