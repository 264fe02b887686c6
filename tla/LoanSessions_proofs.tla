------------------------ MODULE LoanSessions_proofs ------------------------
(***************************************************************************)
(* Theorems about LoanSessions, for any requests and any schedule.         *)
(***************************************************************************)
EXTENDS LoanSessions, FiniteSums_proofs, TLAPS

(* A repayment is undone exactly when its treasury entry is voided: the    *)
(* entry, read afresh under the lock, is what makes the reversal happen    *)
(* once, not the status in the loaded payment row.                         *)
UndoneWhenVoided ==
    /\ undone \in [Repayments -> Nat]
    /\ \A p \in Repayments : undone[p] = IF p \in voided THEN 1 ELSE 0

LEMMA UndoneInit == Init => UndoneWhenVoided
BY DEF Init, UndoneWhenVoided

LEMMA UndoneStep == UndoneWhenVoided /\ [Next]_vars => UndoneWhenVoided'
<1> SUFFICES ASSUME UndoneWhenVoided, [Next]_vars PROVE UndoneWhenVoided'
  OBVIOUS
<1>1. ASSUME UNCHANGED <<voided, undone>> PROVE UndoneWhenVoided'
  BY <1>1 DEF UndoneWhenVoided
<1>2. CASE UNCHANGED vars
  BY <1>1, <1>2 DEF vars
<1>3. CASE Next
  <2>1. PICK r \in Requests :
          \/ Load(r)
          \/ DisburseCash(r) \/ DisburseNothing(r)
          \/ CheckRepayment(r) \/ RefuseRepayment(r) \/ PostRepayment(r)
          \/ RollBack(r) \/ CommitRepayment(r)
          \/ ReverseLatest(r) \/ RefuseReversal(r)
    BY <1>3 DEF Next
  <2>2. CASE ReverseLatest(r)
    <3> DEFINE p == session[r].target
    <3>1. p \notin voided /\ voided' = voided \cup {p} /\ undone' = [undone EXCEPT ![p] = @ + 1]
      BY <2>2 DEF ReverseLatest, MayReverse
    <3> HIDE DEF p
    <3>2. undone' \in [Repayments -> Nat]
      <4>1. CASE p \in Repayments
        BY <3>1, <4>1 DEF UndoneWhenVoided
      <4>2. CASE p \notin Repayments
        <5>1. undone' = undone
          BY <3>1, <4>2 DEF UndoneWhenVoided
        <5> QED BY <5>1 DEF UndoneWhenVoided
      <4> QED BY <4>1, <4>2
    <3>3. ASSUME NEW q \in Repayments PROVE undone'[q] = IF q \in voided' THEN 1 ELSE 0
      BY <3>1 DEF UndoneWhenVoided
    <3> QED BY <3>2, <3>3 DEF UndoneWhenVoided
  <2>3. CASE Load(r) \/ CheckRepayment(r) \/ PostRepayment(r)
    BY <1>1, <2>3 DEF Load, CheckRepayment, PostRepayment, rows, history
  <2>4. CASE DisburseNothing(r) \/ RefuseRepayment(r) \/ RollBack(r) \/ RefuseReversal(r)
    BY <1>1, <2>4 DEF DisburseNothing, RefuseRepayment, RollBack, RefuseReversal, rows, history
  <2>5. CASE DisburseCash(r)
    BY <1>1, <2>5 DEF DisburseCash, history
  <2>6. CASE CommitRepayment(r)
    BY <1>1, <2>6 DEF CommitRepayment
  <2> QED BY <2>1, <2>2, <2>3, <2>4, <2>5, <2>6
<1> QED BY <1>2, <1>3

(* No repayment is undone twice, however many reversals of it overlap      *)
(* (reverse_latest_cash_repayment).                                        *)
THEOREM UndoneAtMostOnce == Spec => []ReversedOnce
<1>1. UndoneWhenVoided => ReversedOnce
  BY DEF UndoneWhenVoided, ReversedOnce
<1> QED BY UndoneInit, UndoneStep, <1>1, PTL DEF Spec

-----------------------------------------------------------------------------
(* Idempotency keys.  Besides the property itself: sessions that have      *)
(* flushed their payment hold different keys, none of them recorded, and a *)
(* reversal names a repayment that is recorded.                            *)
KeysInv ==
    /\ payment = [p \in Creators |-> payment[p]]
    /\ session = [r \in Requests |-> session[r]]
    /\ OnePaymentPerKey
    /\ \A r, q \in Repayments : Sharing(r) /\ Sharing(q) /\ Key[r] = Key[q] => r = q
    /\ \A r \in Repayments, p \in Creators : Sharing(r) /\ Recorded(p) => Key[p] # Key[r]
    /\ \A v \in Reversals : Stage(v) = "loaded" =>
          session[v].target \in Repayments /\ Recorded(session[v].target)

LEMMA KeysInit == Init => KeysInv
BY DEF Init, KeysInv, OnePaymentPerKey, Recorded, Sharing, Stage, Idle, Requests, Creators

(* A request that ends, and records nothing, disturbs no key.              *)
LEMMA KeysFinish ==
    ASSUME KeysInv, NEW r \in Requests, Finish(r), payment' = payment PROVE KeysInv'
BY DEF KeysInv, OnePaymentPerKey, Recorded, Sharing, Stage, Finish, Done, Requests, Creators

(* A payment recorded under a key that no record and no other session has. *)
LEMMA KeysRecord ==
    ASSUME KeysInv, NEW r \in Creators, NEW row, row.status # "none", Finish(r),
           payment' = [payment EXCEPT ![r] = row],
           \A p \in Creators : Recorded(p) => Key[p] # Key[r],
           \A q \in Repayments : Sharing(q) /\ q # r => Key[q] # Key[r]
    PROVE  KeysInv'
<1>1. r \in Requests /\ r \notin Reversals
  BY RequestsAssumption DEF Creators, Requests
<1>2. \A q \in Requests : session'[q] = IF q = r THEN Done ELSE session[q]
  BY <1>1 DEF KeysInv, Finish
<1>3. \A p \in Creators : payment'[p] = IF p = r THEN row ELSE payment[p]
  BY DEF KeysInv
<1>4. \A p \in Creators : Recorded(p)' <=> Recorded(p) \/ p = r
  BY <1>3 DEF Recorded
<1>5. \A q \in Repayments : Sharing(q)' => Sharing(q) /\ q # r
  BY <1>2 DEF Sharing, Stage, Done, Requests
<1>6. payment' = [p \in Creators |-> payment'[p]] /\ session' = [q \in Requests |-> session'[q]]
  BY DEF KeysInv, Finish
<1>7. OnePaymentPerKey'
  BY <1>4 DEF KeysInv, OnePaymentPerKey
<1>8. \A v \in Reversals : Stage(v)' = "loaded" =>
         (session[v].target)' \in Repayments /\ Recorded(session[v].target)'
  BY <1>1, <1>2, <1>4 DEF KeysInv, Stage, Requests, Creators, Done
<1> QED BY <1>4, <1>5, <1>6, <1>7, <1>8 DEF KeysInv, Creators

LEMMA KeysStep == KeysInv /\ [Next]_vars => KeysInv'
<1> SUFFICES ASSUME KeysInv, [Next]_vars PROVE KeysInv'
  OBVIOUS
<1>1. CASE UNCHANGED vars
  BY <1>1 DEF vars, KeysInv, OnePaymentPerKey, Recorded, Sharing, Stage
<1>2. ASSUME NEW r \in Requests, Load(r) PROVE KeysInv'
  <2>1. payment' = payment
    BY <1>2 DEF Load, rows
  <2>2. /\ session' = [q \in Requests |-> session'[q]]
        /\ \A q \in Requests : q # r => session'[q] = session[q]
        /\ session'[r].stage = "loaded"
        /\ r \in Reversals => /\ session'[r].target \in Repayments
                              /\ Recorded(session'[r].target)
    <3>1. CASE r \in Creators /\ session' = [session EXCEPT ![r] = [stage |-> "loaded", view |-> IdentityMap]]
      BY <3>1, RequestsAssumption DEF KeysInv, Creators
    <3>2. CASE r \in Reversals /\ \E p \in {q \in Repayments : Recorded(q)} :
                 session' = [session EXCEPT ![r] =
                     [stage |-> "loaded", view |-> IdentityMap, target |-> p]]
      BY <3>2 DEF KeysInv
    <3> QED BY <1>2, <3>1, <3>2 DEF Load
  <2>3. \A q \in Requests : Sharing(q)' => Sharing(q)
    BY <2>2 DEF Sharing, Stage
  <2>4. \A p : Recorded(p)' <=> Recorded(p)
    BY <2>1 DEF Recorded
  <2>5. \A v \in Reversals : Stage(v)' = "loaded" =>
           (session[v].target)' \in Repayments /\ Recorded(session[v].target)'
    BY <2>2, <2>4 DEF KeysInv, Stage, Requests
  <2> QED BY <2>1, <2>2, <2>3, <2>4, <2>5 DEF KeysInv, OnePaymentPerKey, Requests
<1>3. ASSUME NEW r \in Requests, DisburseCash(r) PROVE KeysInv'
  <2>1. r \in Creators /\ Finish(r) /\ \A q \in Repayments : ~Sharing(q)
    BY <1>3 DEF DisburseCash, Creators, Requests
  <2>2. \A p \in Creators : Recorded(p) => Key[p] # Key[r]
    BY <1>3 DEF DisburseCash, KeyTaken
  <2>3. payment' = [payment EXCEPT ![r] = [status |-> "succeeded", amount |-> Principal]]
    BY <1>3 DEF DisburseCash
  <2> QED BY <2>1, <2>2, <2>3, KeysRecord
<1>4. ASSUME NEW r \in Requests,
             DisburseNothing(r) \/ RefuseRepayment(r) \/ RollBack(r) \/ RefuseReversal(r)
      PROVE  KeysInv'
  BY <1>4, KeysFinish DEF DisburseNothing, RefuseRepayment, RollBack, RefuseReversal, rows, history
<1>5. ASSUME NEW r \in Requests, CheckRepayment(r) PROVE KeysInv'
  <2>1. PICK row : row.stage = "checked" /\ session' = [session EXCEPT ![r] = row]
    BY <1>5 DEF CheckRepayment
  <2>2. payment' = payment /\ r \notin Reversals
    BY <1>5, RequestsAssumption DEF CheckRepayment, rows
  <2> QED BY <2>1, <2>2 DEF KeysInv, OnePaymentPerKey, Recorded, Sharing, Stage, Requests
<1>6. ASSUME NEW r \in Requests, PostRepayment(r) PROVE KeysInv'
  <2>1. PICK row : row.stage = "posted" /\ session' = [session EXCEPT ![r] = row]
    BY <1>6 DEF PostRepayment
  <2>2. /\ payment' = payment /\ r \in Repayments /\ r \notin Reversals
        /\ \A q \in Repayments : Sharing(q) /\ q # r => Key[q] # Key[r]
        /\ \A p \in Creators : Recorded(p) => Key[p] # Key[r]
    BY <1>6, RequestsAssumption DEF PostRepayment, rows, KeyTaken
  <2> QED BY <2>1, <2>2 DEF KeysInv, OnePaymentPerKey, Recorded, Sharing, Stage, Requests
<1>7. ASSUME NEW r \in Requests, CommitRepayment(r) PROVE KeysInv'
  <2>1. r \in Repayments /\ r \in Creators /\ Sharing(r) /\ Finish(r)
    BY <1>7 DEF CommitRepayment, Sharing, Creators
  <2>2. payment' = [payment EXCEPT ![r] = [status |-> "succeeded", amount |-> session[r].amount]]
    BY <1>7 DEF CommitRepayment
  <2>3. \A p \in Creators : Recorded(p) => Key[p] # Key[r]
    BY <2>1 DEF KeysInv
  <2>4. \A q \in Repayments : Sharing(q) /\ q # r => Key[q] # Key[r]
    BY <2>1 DEF KeysInv
  <2> QED BY <2>1, <2>2, <2>3, <2>4, KeysRecord
<1>8. ASSUME NEW r \in Requests, ReverseLatest(r) PROVE KeysInv'
  <2> DEFINE p == session[r].target
  <2>1. Finish(r) /\ payment' = [payment EXCEPT ![p].status = "reversed"]
    BY <1>8 DEF ReverseLatest
  <2>2. p \in Creators /\ Recorded(p)
    BY <1>8 DEF ReverseLatest, KeysInv, Creators
  <2>3. \A q \in Creators : Recorded(q)' <=> Recorded(q)
    BY <2>1, <2>2 DEF KeysInv, Recorded
  <2>4. \A q \in Requests : session'[q] = IF q = r THEN Done ELSE session[q]
    BY <2>1 DEF KeysInv, Finish
  <2>5. payment' = [q \in Creators |-> payment'[q]] /\ session' = [q \in Requests |-> session'[q]]
    BY <2>1 DEF KeysInv, Finish
  <2>6. \A q \in Requests : Sharing(q)' => Sharing(q)
    BY <2>4 DEF Sharing, Stage, Done
  <2>7. ASSUME NEW v \in Reversals, Stage(v)' = "loaded"
        PROVE  (session[v].target)' \in Repayments /\ Recorded(session[v].target)'
    <3>1. v # r /\ session'[v] = session[v]
      BY <2>4, <2>7 DEF Stage, Done, Requests
    <3>2. session[v].target \in Repayments /\ Recorded(session[v].target)
      BY <2>7, <3>1 DEF KeysInv, Stage
    <3>3. Recorded(session[v].target)'
      BY <2>3, <3>1, <3>2 DEF Creators, Recorded
    <3> QED BY <3>1, <3>2, <3>3
  <2>8. OnePaymentPerKey'
    BY <2>3 DEF KeysInv, OnePaymentPerKey
  <2>9. /\ \A q, s \in Repayments : Sharing(q)' /\ Sharing(s)' /\ Key[q] = Key[s] => q = s
        /\ \A q \in Repayments, s \in Creators : Sharing(q)' /\ Recorded(s)' => Key[s] # Key[q]
    BY <2>3, <2>6 DEF KeysInv, Requests
  <2> HIDE DEF p
  <2> QED BY <2>5, <2>7, <2>8, <2>9 DEF KeysInv
<1> QED BY <1>1, <1>2, <1>3, <1>4, <1>5, <1>6, <1>7, <1>8 DEF Next

(* A retried request never records a second payment, whichever of the two  *)
(* finishes first (record_cash_repayment, payment_transactions.            *)
(* idempotency_key).                                                       *)
THEOREM KeyRecordsOnce == Spec => []OnePaymentPerKey
<1>1. KeysInv => OnePaymentPerKey
  BY DEF KeysInv
<1> QED BY KeysInit, KeysStep, <1>1, PTL DEF Spec

-----------------------------------------------------------------------------
(* What a session has loaded, and what it writes.                          *)

Sound(view) == view \in View /\ \A i \in Installments : view.inst[i].paid <= Due[i]
Adds(view) == view.loan.amountPaid + view.loan.balance = TotalRepayable

Begun == {"loaded", "checked", "posted"}
SoundSession(s) ==
    /\ s.stage \in {"idle", "done"} \cup Begun
    /\ s.stage \in Begun => Sound(s.view)
    /\ s.stage \in {"checked", "posted"} => s.amount \in Nat
    /\ s.stage = "posted" => s.open \subseteq Installments

SoundInv ==
    /\ Sound(IdentityMap)
    /\ \A r \in Requests : SoundSession(session[r])
    /\ allocation \in [Repayments -> [Installments -> Nat]]
    /\ voided \subseteq Repayments
    /\ stamped \in Seq(Repayments)
    /\ overlapped \in BOOLEAN /\ overpaid \in BOOLEAN

LEMMA TotalIsNat == TotalRepayable \in Nat
<1>1. \A i \in Installments : Due[i] \in Nat
  BY ScheduleAssumption
<1> QED BY <1>1, ScheduleAssumption, SumNat DEF TotalRepayable

LEMMA MonusNat ==
    ASSUME NEW a \in Nat, NEW b \in Nat
    PROVE  Monus(a, b) \in Nat /\ Monus(a, b) <= a
BY DEF Monus

LEMMA LeastNat ==
    ASSUME NEW a \in Nat, NEW b \in Nat
    PROVE  Least(a, b) \in Nat /\ Least(a, b) <= a /\ Least(a, b) <= b
BY DEF Least

(* A commit: each column from the session, or the row's own.               *)
LEMMA LoanWritten ==
    ASSUME NEW old \in LoanRow, NEW new \in LoanRow, NEW row \in LoanRow
    PROVE  /\ Written(old, new, row) \in LoanRow
           /\ Written(old, new, row).status = IF new.status = old.status THEN row.status ELSE new.status
           /\ Written(old, new, row).amountPaid
                 = IF new.amountPaid = old.amountPaid THEN row.amountPaid ELSE new.amountPaid
           /\ Written(old, new, row).balance
                 = IF new.balance = old.balance THEN row.balance ELSE new.balance
BY DEF Written, LoanRow

LEMMA InstallmentWritten ==
    ASSUME NEW old \in InstallmentRow, NEW new \in InstallmentRow, NEW row \in InstallmentRow
    PROVE  /\ Written(old, new, row) \in InstallmentRow
           /\ Written(old, new, row).status = IF new.status = old.status THEN row.status ELSE new.status
           /\ Written(old, new, row).paid = IF new.paid = old.paid THEN row.paid ELSE new.paid
BY DEF Written, InstallmentRow

LEMMA CreditTyped ==
    ASSUME NEW row \in LoanRow, NEW total \in Nat
    PROVE  /\ CreditedWith(row, total) \in LoanRow
           /\ CreditedWith(row, total).amountPaid = total
           /\ CreditedWith(row, total).balance = Monus(TotalRepayable, total)
           /\ CreditedWith(row, total).status = row.status
<1>1. Monus(TotalRepayable, total) \in 0..TotalRepayable
  BY TotalIsNat, MonusNat
<1> QED BY <1>1 DEF CreditedWith, LoanRow

LEMMA SessionBecomes ==
    ASSUME KeysInv, SoundInv, NEW r \in Requests, NEW s, SoundSession(s),
           session' = [session EXCEPT ![r] = s]
    PROVE  \A q \in Requests : SoundSession(session'[q])
<1>1. \A q \in Requests : session'[q] = IF q = r THEN s ELSE session[q]
  BY DEF KeysInv
<1> QED BY <1>1 DEF SoundInv

LEMMA EndsSound == SoundSession(Idle) /\ SoundSession(Done)
BY DEF SoundSession, Idle, Done, Begun

LEMMA ViewOf ==
    ASSUME SoundInv, NEW r \in Requests, Stage(r) \in Begun
    PROVE  /\ session[r].view.loan \in LoanRow
           /\ \A i \in Installments : /\ session[r].view.inst[i] \in InstallmentRow
                                      /\ session[r].view.inst[i].paid \in Nat
                                      /\ session[r].view.inst[i].paid <= Due[i]
           /\ loan \in LoanRow
           /\ \A i \in Installments : /\ inst[i] \in InstallmentRow
                                      /\ inst[i].paid \in Nat /\ inst[i].paid <= Due[i]
           /\ inst \in [Installments -> InstallmentRow]
           /\ payment \in [Creators -> PaymentRow]
           /\ Sound(session[r].view)
<1>1. Sound(session[r].view) /\ Sound(IdentityMap)
  BY DEF SoundInv, SoundSession, Stage
<1>2. \A view : Sound(view) =>
         /\ view.loan \in LoanRow
         /\ view.inst \in [Installments -> InstallmentRow]
         /\ view.payment \in [Creators -> PaymentRow]
         /\ \A i \in Installments : view.inst[i].paid <= Due[i]
  BY DEF Sound, View
<1>3. IdentityMap.loan = loan /\ IdentityMap.inst = inst /\ IdentityMap.payment = payment
  BY DEF IdentityMap
<1>4. \A row \in InstallmentRow : row.paid \in Nat
  BY DEF InstallmentRow
<1> QED BY <1>1, <1>2, <1>3, <1>4

LEMMA DueIsNat == \A i \in Installments : Due[i] \in Nat
BY ScheduleAssumption

LEMMA OutstandingNat ==
    ASSUME NEW view, Sound(view), NEW i \in Installments
    PROVE  Outstanding(view, i) \in Nat /\ Outstanding(view, i) + view.inst[i].paid = Due[i]
<1>1. view.inst[i].paid \in Nat /\ view.inst[i].paid <= Due[i]
  BY DEF Sound, View, InstallmentRow
<1>2. \A a \in Nat, b \in Nat : b <= a => a - b \in Nat /\ (a - b) + b = a
  OBVIOUS
<1> QED BY <1>1, <1>2, DueIsNat DEF Outstanding

LEMMA LeastOpen ==
    ASSUME NEW T, T \subseteq Installments, T # {}
    PROVE  Min(T) \in T
<1>1. T \subseteq Nat
  BY ScheduleAssumption
<1>2. \E n \in T : \A m \in T : n <= m
  BY <1>1, LeastNumber
<1> QED BY <1>2 DEF Min

LEMMA AppliedNat ==
    ASSUME NEW view, Sound(view), OpenIn(view.inst) # {}, NEW tendered \in Tenders, NEW action
    PROVE  Applied(view, tendered, action) \in Nat
<1> DEFINE current == Min(OpenIn(view.inst))
<1>1. current \in Installments
  BY LeastOpen DEF OpenIn
<1>2. tendered \in Nat /\ view.loan.balance \in Nat
  BY ScheduleAssumption, TotalIsNat DEF Sound, View, LoanRow
<1>3. Outstanding(view, current) \in Nat
  BY <1>1, OutstandingNat
<1>4. Least(tendered, view.loan.balance) \in Nat
  BY <1>2, LeastNat
<1> QED BY <1>2, <1>3, <1>4 DEF Applied

LEMMA BeforeNat ==
    ASSUME SoundInv, NEW r \in Requests, Stage(r) = "posted", NEW i \in Installments
    PROVE  OutstandingBefore(r, i) \in Nat
<1>1. Sound(session[r].view) /\ session[r].open \subseteq Installments
  BY DEF SoundInv, SoundSession, Stage, Begun
<1> DEFINE f == [j \in Installments |-> Outstanding(session[r].view, j)]
           T == {j \in session[r].open : j < i}
<1>2. T \subseteq Installments /\ IsFiniteSet(T)
  BY <1>1, ScheduleAssumption, FS_Subset
<1>3. \A j \in T : f[j] \in Nat
  BY <1>1, <1>2, OutstandingNat
<1>4. SumFunctionOnSet(f, T) \in Nat
  <2> HIDE DEF f, T
  <2> QED BY <1>2, <1>3, SumNat
<1> QED BY <1>4 DEF OutstandingBefore

LEMMA ShareNat ==
    ASSUME SoundInv, NEW r \in Requests, Stage(r) = "posted", NEW i \in Installments
    PROVE  Share(r, i) \in Nat /\ Share(r, i) <= Outstanding(session[r].view, i)
<1>1. Sound(session[r].view) /\ session[r].amount \in Nat
  BY DEF SoundInv, SoundSession, Stage, Begun
<1>2. Outstanding(session[r].view, i) \in Nat /\ OutstandingBefore(r, i) \in Nat
  BY <1>1, OutstandingNat, BeforeNat
<1>3. \A a, b \in Nat : b < a => a - b \in Nat
  OBVIOUS
<1>4. \A n \in Nat : 0 <= n
  OBVIOUS
<1> QED BY <1>1, <1>2, <1>3, <1>4, LeastNat DEF Share, Reached

(* As the minimum of what is owed and what remains.                        *)
LEMMA ShareIsLeast ==
    ASSUME SoundInv, NEW r \in Requests, Stage(r) = "posted", NEW i \in session[r].open
    PROVE  Share(r, i) = Least(Outstanding(session[r].view, i),
                               Monus(session[r].amount, OutstandingBefore(r, i)))
<1>1. /\ Sound(session[r].view) /\ session[r].amount \in Nat /\ i \in Installments
  BY DEF SoundInv, SoundSession, Stage, Begun
<1>2. Outstanding(session[r].view, i) \in Nat /\ OutstandingBefore(r, i) \in Nat
  BY <1>1, OutstandingNat, BeforeNat
<1>3. \A a, b, c \in Nat : /\ b < a => Least(c, a - b) = Least(c, Monus(a, b))
                           /\ ~(b < a) => Least(c, Monus(a, b)) = 0
  BY DEF Least, Monus
<1> QED BY <1>1, <1>2, <1>3 DEF Share, Reached

LEMMA AllocatedTyped ==
    ASSUME SoundInv, NEW r \in Requests, Stage(r) = "posted", NEW i \in Installments
    PROVE  /\ AllocatedTo(r, i) \in InstallmentRow
           /\ AllocatedTo(r, i).paid = session[r].view.inst[i].paid + Share(r, i)
           /\ AllocatedTo(r, i).paid \in Nat /\ AllocatedTo(r, i).paid <= Due[i]
<1> DEFINE was == session[r].view.inst[i]
           n == was.paid + Share(r, i)
<1>1. was \in InstallmentRow /\ was.paid \in Nat /\ Sound(session[r].view)
  BY ViewOf DEF Begun
<1>2. Share(r, i) \in Nat /\ Share(r, i) <= Outstanding(session[r].view, i)
  BY ShareNat
<1>3. Outstanding(session[r].view, i) \in Nat /\ Outstanding(session[r].view, i) + was.paid = Due[i]
  BY <1>1, OutstandingNat
<1>4. \A a \in Nat, b \in Nat, c \in Nat : b <= c => a + b \in Nat /\ a + b <= c + a
  OBVIOUS
<1>5. n \in Nat /\ n <= Due[i]
  BY <1>1, <1>2, <1>3, <1>4
<1>6. CASE ~Reached(r, i)
  <2>1. AllocatedTo(r, i) = was /\ Share(r, i) = 0
    BY <1>6 DEF AllocatedTo, Share
  <2>2. \A a \in Nat : a + 0 = a
    OBVIOUS
  <2>3. n = was.paid
    BY <1>1, <2>1, <2>2
  <2> QED BY <1>1, <1>5, <2>1, <2>3
<1>7. CASE Reached(r, i)
  <2> DEFINE s == IF n >= Due[i] THEN "paid" ELSE "partial"
  <2>1. AllocatedTo(r, i) = [paid |-> n, status |-> s]
    BY <1>7 DEF AllocatedTo
  <2>2. s \in {"pending", "partial", "paid"}
    OBVIOUS
  <2> HIDE DEF n, s
  <2>3. [paid |-> n, status |-> s] \in InstallmentRow /\ [paid |-> n, status |-> s].paid = n
    BY <1>5, <2>2 DEF InstallmentRow
  <2>4. AllocatedTo(r, i) \in InstallmentRow /\ AllocatedTo(r, i).paid = n
    BY <2>1, <2>3
  <2> QED BY <1>5, <2>4 DEF n
<1> QED BY <1>6, <1>7

LEMMA TakenBackTyped ==
    ASSUME SoundInv, NEW r \in Requests, Stage(r) = "loaded", session[r].target \in Repayments,
           NEW i \in Installments
    PROVE  /\ TakenBack(r, i) \in InstallmentRow
           /\ TakenBack(r, i).paid = Monus(session[r].view.inst[i].paid, allocation[session[r].target][i])
           /\ TakenBack(r, i).paid \in Nat /\ TakenBack(r, i).paid <= Due[i]
<1> DEFINE was == session[r].view.inst[i]
           share == allocation[session[r].target][i]
           n == Monus(was.paid, share)
           s == IF n = 0 THEN "pending" ELSE IF n < Due[i] THEN "partial" ELSE was.status
<1>1. was \in InstallmentRow /\ was.paid \in Nat /\ was.paid <= Due[i]
  BY ViewOf DEF Begun
<1>2. share \in Nat
  BY DEF SoundInv
<1>3. n \in Nat /\ n <= was.paid
  BY <1>1, <1>2, MonusNat
<1>4. was.status \in {"pending", "partial", "paid"}
  BY <1>1 DEF InstallmentRow
<1>5. TakenBack(r, i) = IF share = 0 THEN was ELSE [paid |-> n, status |-> s]
  BY DEF TakenBack
<1>6. \A a \in Nat : Monus(a, 0) = a
  BY DEF Monus
<1>7. s \in {"pending", "partial", "paid"}
  BY <1>4
<1>8. n <= Due[i]
  BY <1>1, <1>3, DueIsNat
<1>9. share = 0 => was.paid = n
  BY <1>1, <1>6
<1> HIDE DEF was, share, n, s
<1>10. [paid |-> n, status |-> s] \in InstallmentRow /\ [paid |-> n, status |-> s].paid = n
  BY <1>3, <1>7 DEF InstallmentRow
<1>11. TakenBack(r, i) \in InstallmentRow /\ TakenBack(r, i).paid = n
  BY <1>1, <1>5, <1>9, <1>10
<1> QED BY <1>3, <1>8, <1>11 DEF n, was, share

(* What a commit makes of the schedule.                                    *)
LEMMA ScheduleWritten ==
    ASSUME SoundInv, NEW r \in Requests, Stage(r) \in Begun, NEW new,
           \A i \in Installments : new[i] \in InstallmentRow /\ new[i].paid <= Due[i],
           WriteInstallments(r, new)
    PROVE  /\ inst' \in [Installments -> InstallmentRow]
           /\ \A i \in Installments :
                 /\ inst'[i].paid <= Due[i]
                 /\ inst'[i].paid = IF new[i].paid = session[r].view.inst[i].paid
                                    THEN inst[i].paid ELSE new[i].paid
                 /\ inst'[i].status = IF new[i].status = session[r].view.inst[i].status
                                      THEN inst[i].status ELSE new[i].status
<1>1. \A i \in Installments : inst'[i] = Written(session[r].view.inst[i], new[i], inst[i])
  BY DEF WriteInstallments
<1>2. \A i \in Installments :
         /\ session[r].view.inst[i] \in InstallmentRow
         /\ inst[i] \in InstallmentRow /\ inst[i].paid <= Due[i]
  BY ViewOf
<1>3. \A i \in Installments :
         /\ inst'[i] \in InstallmentRow
         /\ inst'[i].paid = IF new[i].paid = session[r].view.inst[i].paid
                            THEN inst[i].paid ELSE new[i].paid
         /\ inst'[i].status = IF new[i].status = session[r].view.inst[i].status
                              THEN inst[i].status ELSE new[i].status
  BY <1>1, <1>2, InstallmentWritten
<1>4. inst' \in [Installments -> InstallmentRow]
  BY <1>3 DEF WriteInstallments
<1> QED BY <1>2, <1>3, <1>4

LEMMA SoundRows ==
    ASSUME loan \in LoanRow, inst \in [Installments -> InstallmentRow], payment \in [Creators -> PaymentRow],
           \A i \in Installments : inst[i].paid <= Due[i]
    PROVE  Sound(IdentityMap)
BY DEF Sound, IdentityMap, View

LEMMA SoundRowsHold ==
    ASSUME Sound(IdentityMap)
    PROVE  /\ loan \in LoanRow /\ inst \in [Installments -> InstallmentRow]
           /\ payment \in [Creators -> PaymentRow]
           /\ \A i \in Installments : inst[i].paid <= Due[i]
<1>1. IdentityMap.loan = loan /\ IdentityMap.inst = inst /\ IdentityMap.payment = payment
  BY DEF IdentityMap
<1>2. \A view : Sound(view) =>
         /\ view.loan \in LoanRow
         /\ view.inst \in [Installments -> InstallmentRow]
         /\ view.payment \in [Creators -> PaymentRow]
         /\ \A i \in Installments : view.inst[i].paid <= Due[i]
  BY DEF Sound, View
<1> QED BY <1>1, <1>2

SoundRest ==
    /\ allocation \in [Repayments -> [Installments -> Nat]]
    /\ voided \subseteq Repayments
    /\ stamped \in Seq(Repayments)
    /\ overlapped \in BOOLEAN /\ overpaid \in BOOLEAN

LEMMA SoundSame ==
    ASSUME SoundInv, UNCHANGED <<rows, stamped>>, overlapped' \in BOOLEAN, overpaid' \in BOOLEAN,
           \A q \in Requests : SoundSession(session'[q])
    PROVE  SoundInv'
<1>1. IdentityMap' = IdentityMap
  BY DEF rows, IdentityMap
<1>2. UNCHANGED <<allocation, voided, stamped>>
  BY DEF rows
<1>3. Sound(IdentityMap')
  BY <1>1 DEF SoundInv
<1> QED BY <1>1, <1>2, <1>3 DEF SoundInv, Sound

LEMMA SoundWrite ==
    ASSUME KeysInv, SoundInv, NEW r \in Requests, Finish(r),
           loan' \in LoanRow, inst' \in [Installments -> InstallmentRow],
           payment' \in [Creators -> PaymentRow],
           \A i \in Installments : inst'[i].paid <= Due[i],
           SoundRest'
    PROVE  SoundInv'
<1>1. \A q \in Requests : SoundSession(session'[q])
  BY SessionBecomes, EndsSound DEF Finish
<1>2. Sound(IdentityMap)'
  BY DEF Sound, IdentityMap, View
<1> QED BY <1>1, <1>2 DEF SoundInv, SoundRest

LEMMA SoundInit == Init => SoundInv
<1> SUFFICES ASSUME Init PROVE SoundInv
  OBVIOUS
<1>1. [status |-> "approved", amountPaid |-> 0, balance |-> TotalRepayable] \in LoanRow
  BY TotalIsNat DEF LoanRow
<1>2. [paid |-> 0, status |-> "pending"] \in InstallmentRow /\ [status |-> "none", amount |-> 0] \in PaymentRow
  BY DEF InstallmentRow, PaymentRow
<1>3. loan \in LoanRow /\ inst \in [Installments -> InstallmentRow] /\ payment \in [Creators -> PaymentRow]
  BY <1>1, <1>2 DEF Init
<1>4. \A i \in Installments : inst[i].paid <= Due[i]
  BY DueIsNat DEF Init
<1>5. Sound(IdentityMap)
  BY <1>3, <1>4, SoundRows
<1>6. \A r \in Requests : SoundSession(session[r])
  BY EndsSound DEF Init
<1>7. SoundRest
  <2>1. stamped \in Seq(Repayments) /\ voided \subseteq Repayments
    BY DEF Init
  <2>2. [i \in Installments |-> 0] \in [Installments -> Nat]
    OBVIOUS
  <2>3. allocation \in [Repayments -> [Installments -> Nat]]
    BY <2>2 DEF Init
  <2>4. overlapped \in BOOLEAN /\ overpaid \in BOOLEAN
    BY DEF Init
  <2> QED BY <2>1, <2>3, <2>4 DEF SoundRest
<1> QED BY <1>5, <1>6, <1>7 DEF SoundInv, SoundRest

LEMMA LoadSound == ASSUME KeysInv, SoundInv, NEW r \in Requests, Load(r) PROVE SoundInv'
<1>1. \A q \in Requests : SoundSession(session'[q])
  <2>1. Sound(IdentityMap)
    BY DEF SoundInv
  <2>2. CASE r \in Creators /\ session' = [session EXCEPT ![r] = [stage |-> "loaded", view |-> IdentityMap]]
    <3>1. SoundSession([stage |-> "loaded", view |-> IdentityMap])
      BY <2>1 DEF SoundSession, Begun
    <3> QED BY <2>2, <3>1, SessionBecomes
  <2>3. CASE \E p \in {q \in Repayments : Recorded(q)} : session' =
                [session EXCEPT ![r] = [stage |-> "loaded", view |-> IdentityMap, target |-> p]]
    <3>1. PICK p : session' = [session EXCEPT ![r] = [stage |-> "loaded", view |-> IdentityMap, target |-> p]]
      BY <2>3
    <3>2. SoundSession([stage |-> "loaded", view |-> IdentityMap, target |-> p])
      BY <2>1 DEF SoundSession, Begun
    <3> QED BY <3>1, <3>2, SessionBecomes
  <2> QED BY <2>2, <2>3 DEF Load
<1>2. overlapped' \in BOOLEAN /\ overpaid' \in BOOLEAN /\ UNCHANGED <<rows, stamped>>
  BY DEF Load, SoundInv
<1> QED BY <1>1, <1>2, SoundSame

LEMMA NothingSound ==
    ASSUME KeysInv, SoundInv, NEW r \in Requests,
           DisburseNothing(r) \/ RefuseRepayment(r) \/ RollBack(r) \/ RefuseReversal(r)
    PROVE  SoundInv'
<1>1. Finish(r) /\ UNCHANGED <<rows, stamped, history>>
  BY DEF DisburseNothing, RefuseRepayment, RollBack, RefuseReversal
<1>2. \A q \in Requests : SoundSession(session'[q])
  BY <1>1, SessionBecomes, EndsSound DEF Finish
<1>3. overlapped' \in BOOLEAN /\ overpaid' \in BOOLEAN
  BY <1>1 DEF history, SoundInv
<1> QED BY <1>1, <1>2, <1>3, SoundSame

LEMMA CheckSound == ASSUME KeysInv, SoundInv, NEW r \in Requests, CheckRepayment(r) PROVE SoundInv'
<1>1. r \in Repayments /\ Stage(r) = "loaded" /\ UNCHANGED <<rows, history>> /\ stamped' = Append(stamped, r)
  BY DEF CheckRepayment
<1>2. OpenIn(session[r].view.inst) # {} /\ Sound(session[r].view)
  BY <1>1, ViewOf DEF CheckRepayment, Begun
<1>3. PICK tendered \in Tenders, action \in {"give_change", "carry_forward"} :
        session' = [session EXCEPT ![r] = [stage |-> "checked", view |-> session[r].view,
                                           amount |-> Applied(session[r].view, tendered, action)]]
  BY DEF CheckRepayment
<1>4. Applied(session[r].view, tendered, action) \in Nat
  BY <1>2, AppliedNat
<1>5. SoundSession([stage |-> "checked", view |-> session[r].view,
                    amount |-> Applied(session[r].view, tendered, action)])
  BY <1>2, <1>4 DEF SoundSession, Begun
<1>6. \A q \in Requests : SoundSession(session'[q])
  BY <1>3, <1>5, SessionBecomes
<1>7. stamped' \in Seq(Repayments)
  BY <1>1 DEF SoundInv
<1>8. UNCHANGED <<loan, inst, payment, allocation, voided, overlapped, overpaid>>
  BY <1>1 DEF rows, history
<1>9. IdentityMap' = IdentityMap
  BY <1>8 DEF IdentityMap
<1>10. Sound(IdentityMap')
  BY <1>9 DEF SoundInv
<1> QED BY <1>6, <1>7, <1>8, <1>10 DEF SoundInv, Sound

LEMMA PostSound == ASSUME KeysInv, SoundInv, NEW r \in Requests, PostRepayment(r) PROVE SoundInv'
<1>1. r \in Repayments /\ Stage(r) = "checked" /\ UNCHANGED <<rows, stamped, history>>
  BY DEF PostRepayment
<1>2. session' = [session EXCEPT ![r] = [stage |-> "posted", view |-> session[r].view,
                                         amount |-> session[r].amount, open |-> OpenIn(inst)]]
  BY DEF PostRepayment, KeysInv
<1>3. Sound(session[r].view) /\ session[r].amount \in Nat
  BY <1>1, ViewOf DEF Begun, SoundInv, SoundSession, Stage
<1>4. OpenIn(inst) \subseteq Installments
  BY DEF OpenIn
<1>5. SoundSession([stage |-> "posted", view |-> session[r].view,
                    amount |-> session[r].amount, open |-> OpenIn(inst)])
  BY <1>3, <1>4 DEF SoundSession, Begun
<1>6. \A q \in Requests : SoundSession(session'[q])
  BY <1>2, <1>5, SessionBecomes
<1>7. overlapped' \in BOOLEAN /\ overpaid' \in BOOLEAN
  BY <1>1 DEF history, SoundInv
<1> QED BY <1>1, <1>6, <1>7, SoundSame

LEMMA DisburseSound == ASSUME KeysInv, SoundInv, NEW r \in Requests, DisburseCash(r) PROVE SoundInv'
<1>1. r \in Disbursements /\ Stage(r) = "loaded" /\ Finish(r)
      /\ UNCHANGED <<inst, allocation, voided, stamped, history>>
  BY DEF DisburseCash
<1>2. session[r].view.loan \in LoanRow /\ loan \in LoanRow /\ inst \in [Installments -> InstallmentRow]
      /\ payment \in [Creators -> PaymentRow] /\ \A i \in Installments : inst[i].paid <= Due[i]
  BY <1>1, ViewOf DEF Begun
<1>3. [session[r].view.loan EXCEPT !.status = "active"] \in LoanRow
  BY <1>2 DEF LoanRow
<1>4. loan' \in LoanRow
  BY <1>2, <1>3, LoanWritten DEF DisburseCash, WriteLoan
<1>5. [status |-> "succeeded", amount |-> Principal] \in PaymentRow
  BY ScheduleAssumption DEF PaymentRow
<1>6. payment' \in [Creators -> PaymentRow]
  BY <1>2, <1>5 DEF DisburseCash
<1>7. SoundRest'
  BY <1>1 DEF SoundRest, SoundInv, history
<1> QED BY <1>1, <1>2, <1>4, <1>6, <1>7, SoundWrite

LEMMA CommitRows ==
    ASSUME KeysInv, SoundInv, NEW r \in Requests, CommitRepayment(r)
    PROVE  \E new \in LoanRow :
             /\ loan' = Written(session[r].view.loan, new, loan)
             /\ new.amountPaid = session[r].view.loan.amountPaid + session[r].amount
             /\ new.balance = Monus(TotalRepayable, new.amountPaid)
             /\ new.status = IF new.balance = 0 THEN "completed" ELSE session[r].view.loan.status
<1> DEFINE was == session[r].view.loan
           credited == CreditedWith(was, was.amountPaid + session[r].amount)
           new == IF credited.balance = 0 THEN [credited EXCEPT !.status = "completed"] ELSE credited
<1>1. Stage(r) = "posted"
  BY DEF CommitRepayment
<1>2. was \in LoanRow /\ session[r].amount \in Nat
  BY <1>1, ViewOf DEF Begun, SoundInv, SoundSession, Stage
<1>3. was.amountPaid + session[r].amount \in Nat
  BY <1>2 DEF LoanRow
<1>4. /\ credited \in LoanRow
      /\ credited.amountPaid = was.amountPaid + session[r].amount
      /\ credited.balance = Monus(TotalRepayable, credited.amountPaid)
      /\ credited.status = was.status
  BY <1>2, <1>3, CreditTyped
<1>5. WriteLoan(r, new)
  BY DEF CommitRepayment
<1> HIDE DEF credited, was
<1>6. /\ new \in LoanRow /\ new.amountPaid = credited.amountPaid /\ new.balance = credited.balance
      /\ new.status = IF credited.balance = 0 THEN "completed" ELSE credited.status
  BY <1>4 DEF LoanRow
<1> QED BY <1>4, <1>5, <1>6 DEF WriteLoan, was

LEMMA CommitSound == ASSUME KeysInv, SoundInv, NEW r \in Requests, CommitRepayment(r) PROVE SoundInv'
<1>1. r \in Repayments /\ Stage(r) = "posted" /\ Finish(r) /\ UNCHANGED <<voided, stamped, overlapped>>
  BY DEF CommitRepayment
<1>2. /\ loan \in LoanRow /\ session[r].view.loan \in LoanRow /\ payment \in [Creators -> PaymentRow]
      /\ session[r].amount \in Nat
  BY <1>1, ViewOf DEF Begun, SoundInv, SoundSession, Stage
<1>3. loan' \in LoanRow
  BY <1>2, CommitRows, LoanWritten
<1> DEFINE new == [i \in Installments |-> AllocatedTo(r, i)]
<1>4. \A i \in Installments : new[i] \in InstallmentRow /\ new[i].paid <= Due[i]
  BY <1>1, AllocatedTyped
<1>5. WriteInstallments(r, new)
  BY DEF CommitRepayment
<1>6. Stage(r) \in Begun
  BY <1>1 DEF Begun
<1> HIDE DEF new
<1>7. inst' \in [Installments -> InstallmentRow] /\ \A i \in Installments : inst'[i].paid <= Due[i]
  BY <1>4, <1>5, <1>6, ScheduleWritten
<1>8. [status |-> "succeeded", amount |-> session[r].amount] \in PaymentRow
  BY <1>2 DEF PaymentRow
<1>9. payment' \in [Creators -> PaymentRow]
  BY <1>2, <1>8 DEF CommitRepayment
<1>10. [i \in Installments |-> Share(r, i)] \in [Installments -> Nat]
  BY <1>1, ShareNat
<1>11. allocation' \in [Repayments -> [Installments -> Nat]]
  BY <1>10 DEF CommitRepayment, SoundInv
<1>12. overpaid' \in BOOLEAN
  BY DEF CommitRepayment, SoundInv
<1>13. SoundRest'
  BY <1>1, <1>11, <1>12 DEF SoundRest, SoundInv
<1> QED BY <1>1, <1>3, <1>7, <1>9, <1>13, SoundWrite

LEMMA ReverseRows ==
    ASSUME KeysInv, SoundInv, NEW r \in Requests, ReverseLatest(r)
    PROVE  /\ session[r].target \in Repayments
           /\ \E new \in LoanRow :
                /\ loan' = Written(session[r].view.loan, new, loan)
                /\ new.amountPaid = Monus(session[r].view.loan.amountPaid, payment[session[r].target].amount)
                /\ new.balance = Monus(TotalRepayable, new.amountPaid)
                /\ new.status = IF session[r].view.loan.status = "completed" /\ new.balance > 0
                                THEN "active" ELSE session[r].view.loan.status
<1> DEFINE p == session[r].target
           was == session[r].view.loan
           debited == CreditedWith(was, Monus(was.amountPaid, payment[p].amount))
           new == IF was.status = "completed" /\ debited.balance > 0
                  THEN [debited EXCEPT !.status = "active"] ELSE debited
<1>1. r \in Reversals /\ Stage(r) = "loaded"
  BY DEF ReverseLatest
<1>2. p \in Repayments
  BY <1>1 DEF KeysInv
<1>3. was \in LoanRow /\ payment[p] \in PaymentRow
  BY <1>1, <1>2, ViewOf DEF Begun, Creators
<1>4. was.amountPaid \in Nat /\ payment[p].amount \in Nat
  BY <1>3 DEF LoanRow, PaymentRow
<1>5. Monus(was.amountPaid, payment[p].amount) \in Nat
  BY <1>4, MonusNat
<1>6. /\ debited \in LoanRow
      /\ debited.amountPaid = Monus(was.amountPaid, payment[p].amount)
      /\ debited.balance = Monus(TotalRepayable, debited.amountPaid)
      /\ debited.status = was.status
  BY <1>3, <1>5, CreditTyped
<1>7. WriteLoan(r, new)
  BY DEF ReverseLatest
<1> HIDE DEF debited, was
<1>8. /\ new \in LoanRow /\ new.amountPaid = debited.amountPaid /\ new.balance = debited.balance
      /\ new.status = IF was.status = "completed" /\ debited.balance > 0 THEN "active" ELSE debited.status
  BY <1>6 DEF LoanRow
<1> QED BY <1>2, <1>6, <1>7, <1>8 DEF WriteLoan, was

LEMMA ReverseSound == ASSUME KeysInv, SoundInv, NEW r \in Requests, ReverseLatest(r) PROVE SoundInv'
<1> DEFINE p == session[r].target
<1>1. r \in Reversals /\ Stage(r) = "loaded" /\ Finish(r) /\ UNCHANGED <<allocation, stamped, overlapped, overpaid>>
      /\ payment' = [payment EXCEPT ![p].status = "reversed"] /\ voided' = voided \cup {p}
  BY DEF ReverseLatest
<1>2. p \in Repayments
  BY ReverseRows
<1>3. loan \in LoanRow /\ session[r].view.loan \in LoanRow /\ payment \in [Creators -> PaymentRow]
  BY <1>1, ViewOf DEF Begun
<1>4. loan' \in LoanRow
  BY <1>3, ReverseRows, LoanWritten
<1> DEFINE new == [i \in Installments |-> TakenBack(r, i)]
<1>5. \A i \in Installments : new[i] \in InstallmentRow /\ new[i].paid <= Due[i]
  BY <1>1, <1>2, TakenBackTyped
<1>6. WriteInstallments(r, new)
  BY DEF ReverseLatest
<1>7. Stage(r) \in Begun
  BY <1>1 DEF Begun
<1> HIDE DEF new, p
<1>8. inst' \in [Installments -> InstallmentRow] /\ \A i \in Installments : inst'[i].paid <= Due[i]
  BY <1>5, <1>6, <1>7, ScheduleWritten
<1>9. payment' \in [Creators -> PaymentRow]
  <2>1. p \in Creators /\ payment[p] \in PaymentRow
    BY <1>2, <1>3 DEF Creators
  <2>2. [payment[p] EXCEPT !.status = "reversed"] \in PaymentRow
    BY <2>1 DEF PaymentRow
  <2> QED BY <1>1, <1>3, <2>1, <2>2
<1>10. SoundRest'
  BY <1>1, <1>2 DEF SoundRest, SoundInv
<1> QED BY <1>1, <1>4, <1>8, <1>9, <1>10, SoundWrite

LEMMA SoundStep == KeysInv /\ SoundInv /\ [Next]_vars => SoundInv'
<1> SUFFICES ASSUME KeysInv, SoundInv, [Next]_vars PROVE SoundInv'
  OBVIOUS
<1>1. CASE UNCHANGED vars
  <2>1. UNCHANGED <<rows, stamped>> /\ overlapped' \in BOOLEAN /\ overpaid' \in BOOLEAN
        /\ \A q \in Requests : SoundSession(session'[q])
    BY <1>1 DEF vars, rows, SoundInv
  <2> QED BY <2>1, SoundSame
<1> QED BY <1>1, LoadSound, NothingSound, CheckSound, PostSound, DisburseSound, CommitSound, ReverseSound
        DEF Next
-----------------------------------------------------------------------------
(* The type invariant: every column stays in its range, whatever the       *)
(* sessions had loaded (the floors of allocate_repayment and               *)
(* reverse_loan_payment).                                                  *)
THEOREM SessionsTyped == Spec => []TypeOK
<1>1. ASSUME UndoneWhenVoided, SoundInv PROVE TypeOK
  <2>1. loan \in LoanRow /\ inst \in [Installments -> InstallmentRow] /\ payment \in [Creators -> PaymentRow]
    BY <1>1, SoundRowsHold DEF SoundInv
  <2>2. \A r \in Requests :
          /\ Stage(r) \in {"idle", "loaded", "checked", "posted", "done"}
          /\ Stage(r) \in {"loaded", "checked", "posted"} => session[r].view \in View
          /\ Stage(r) \in {"checked", "posted"} => session[r].amount \in Nat
          /\ Stage(r) = "posted" => session[r].open \subseteq Installments
    BY <1>1 DEF SoundInv, SoundSession, Begun, Stage, Sound
  <2>3. undone \in [Repayments -> Nat]
    BY <1>1 DEF UndoneWhenVoided
  <2> QED BY <1>1, <2>1, <2>2, <2>3 DEF TypeOK, SoundInv
<1> QED BY UndoneInit, UndoneStep, KeysInit, KeysStep, SoundInit, SoundStep, <1>1, PTL DEF Spec

(* However stale the schedule a repayment is allocated from, no            *)
(* installment is credited with more than it is due: a session allocates   *)
(* at most what its loaded installment owes, and writes that whole amount  *)
(* (allocate_repayment).                                                   *)
THEOREM InstallmentsNotOverpaid == Spec => []NeverOverallocated
<1>1. SoundInv => NeverOverallocated
  BY SoundRowsHold DEF SoundInv, NeverOverallocated
<1> QED BY KeysInit, KeysStep, SoundInit, SoundStep, <1>1, PTL DEF Spec

-----------------------------------------------------------------------------
(* The two columns.  What a session has loaded added up, so it changes     *)
(* both columns or none, unless it credits more than is repayable.         *)
AddsInv ==
    ~overpaid =>
      /\ ColumnsAgree
      /\ \A r \in Requests : Stage(r) \in Begun => Adds(session[r].view)

LEMMA AddsInit == Init => AddsInv
<1> SUFFICES ASSUME Init PROVE AddsInv
  OBVIOUS
<1>1. \A n \in Nat : 0 + n = n
  OBVIOUS
<1>2. loan.amountPaid + loan.balance = TotalRepayable
  BY <1>1, TotalIsNat DEF Init
<1>3. \A r \in Requests : Stage(r) \notin Begun
  BY DEF Init, Stage, Idle, Begun
<1> QED BY <1>2, <1>3 DEF AddsInv, ColumnsAgree

LEMMA AddsKept ==
    ASSUME AddsInv, overpaid' = overpaid, loan' = loan,
           \A q \in Requests : session'[q].stage \in Begun =>
              \/ session'[q].view = IdentityMap
              \/ session[q].stage \in Begun /\ session'[q].view = session[q].view
    PROVE  AddsInv'
<1>1. ~overpaid => Adds(IdentityMap)
  BY DEF AddsInv, ColumnsAgree, Adds, IdentityMap
<1>2. ~overpaid => \A q \in Requests : session'[q].stage \in Begun => Adds(session'[q].view)
  BY <1>1 DEF AddsInv, Stage
<1> QED BY <1>2 DEF AddsInv, ColumnsAgree, Adds, Stage

(* A session that ends with a write of the loan.                           *)
LEMMA AddsWrite ==
    ASSUME KeysInv, AddsInv, NEW r \in Requests, Finish(r), overpaid' \in BOOLEAN,
           ~overpaid' => ~overpaid /\ loan'.amountPaid + loan'.balance = TotalRepayable
    PROVE  AddsInv'
<1>1. \A q \in Requests : session'[q] = IF q = r THEN Done ELSE session[q]
  BY DEF KeysInv, Finish
<1>2. \A q \in Requests : session'[q].stage \in Begun => session[q].stage \in Begun /\ session'[q] = session[q]
  BY <1>1 DEF Done, Begun
<1> QED BY <1>2 DEF AddsInv, ColumnsAgree, Adds, Stage

LEMMA BothOrNeither ==
    ASSUME NEW total \in Nat, NEW old \in Nat, NEW new \in Nat, NEW row \in Nat,
           NEW oldBalance \in Nat, NEW rowBalance \in Nat, NEW paid, NEW balance,
           old + oldBalance = total, row + rowBalance = total, new <= total,
           paid = IF new = old THEN row ELSE new,
           balance = IF Monus(total, new) = oldBalance THEN rowBalance ELSE Monus(total, new)
    PROVE  paid + balance = total
BY DEF Monus

(* One written from a loan that adds up, over one that does, adds up.      *)
LEMMA WrittenAdds ==
    ASSUME NEW old \in LoanRow, NEW new \in LoanRow, NEW row \in LoanRow, NEW result,
           result = Written(old, new, row),
           old.amountPaid + old.balance = TotalRepayable,
           row.amountPaid + row.balance = TotalRepayable,
           new.amountPaid <= TotalRepayable,
           new.balance = Monus(TotalRepayable, new.amountPaid)
    PROVE  result.amountPaid + result.balance = TotalRepayable
<1>1. /\ old.amountPaid \in Nat /\ new.amountPaid \in Nat /\ row.amountPaid \in Nat
      /\ old.balance \in Nat /\ row.balance \in Nat
  BY TotalIsNat DEF LoanRow
<1>2. /\ result.amountPaid = IF new.amountPaid = old.amountPaid THEN row.amountPaid ELSE new.amountPaid
      /\ result.balance = IF new.balance = old.balance THEN row.balance ELSE new.balance
  BY LoanWritten
<1>3. result.balance = IF Monus(TotalRepayable, new.amountPaid) = old.balance THEN row.balance
                       ELSE Monus(TotalRepayable, new.amountPaid)
  BY <1>2
<1> DEFINE a == old.amountPaid  b == old.balance  c == row.amountPaid  d == row.balance
           n == new.amountPaid  x == result.amountPaid  y == result.balance
<1>4. a \in Nat /\ b \in Nat /\ c \in Nat /\ d \in Nat /\ n \in Nat /\ TotalRepayable \in Nat
  BY <1>1, TotalIsNat
<1>5. a + b = TotalRepayable /\ c + d = TotalRepayable /\ n <= TotalRepayable
  OBVIOUS
<1>6. x = (IF n = a THEN c ELSE n)
      /\ y = (IF Monus(TotalRepayable, n) = b THEN d ELSE Monus(TotalRepayable, n))
  BY <1>2, <1>3
<1> HIDE DEF a, b, c, d, n, x, y
<1>7. x + y = TotalRepayable
  BY <1>4, <1>5, <1>6, BothOrNeither
<1> QED BY <1>7 DEF x, y

LEMMA AddsCommit == ASSUME KeysInv, SoundInv, AddsInv, NEW r \in Requests, CommitRepayment(r) PROVE AddsInv'
<1> DEFINE was == session[r].view.loan
<1>1. /\ Stage(r) = "posted" /\ Finish(r)
      /\ overpaid' = (overpaid \/ was.amountPaid + session[r].amount > TotalRepayable)
  BY DEF CommitRepayment
<1>2. loan \in LoanRow /\ was \in LoanRow /\ session[r].amount \in Nat
  BY <1>1, ViewOf DEF Begun, SoundInv, SoundSession, Stage
<1>3. PICK new \in LoanRow :
         /\ loan' = Written(was, new, loan)
         /\ new.amountPaid = was.amountPaid + session[r].amount
         /\ new.balance = Monus(TotalRepayable, new.amountPaid)
  BY CommitRows
<1>4. overpaid' \in BOOLEAN /\ (~overpaid' => ~overpaid)
  BY <1>1
<1>5. ASSUME ~overpaid' PROVE loan'.amountPaid + loan'.balance = TotalRepayable
  <2>1. was.amountPaid + was.balance = TotalRepayable /\ loan.amountPaid + loan.balance = TotalRepayable
    BY <1>1, <1>4, <1>5 DEF AddsInv, ColumnsAgree, Adds, Begun
  <2>2. new.amountPaid <= TotalRepayable
    <3>1. ~(new.amountPaid > TotalRepayable)
      BY <1>1, <1>3, <1>5
    <3>2. new.amountPaid \in Nat
      BY <1>3 DEF LoanRow
    <3>3. \A m, n \in Nat : ~(m > n) => m <= n
      OBVIOUS
    <3> QED BY <3>1, <3>2, <3>3, TotalIsNat
  <2> QED BY <1>2, <1>3, <2>1, <2>2, WrittenAdds
<1> QED BY <1>1, <1>4, <1>5, AddsWrite

LEMMA AddsReverse == ASSUME KeysInv, SoundInv, AddsInv, NEW r \in Requests, ReverseLatest(r) PROVE AddsInv'
<1> DEFINE was == session[r].view.loan
           p == session[r].target
<1>1. Stage(r) = "loaded" /\ Finish(r) /\ overpaid' = overpaid
  BY DEF ReverseLatest
<1>2. loan \in LoanRow /\ was \in LoanRow /\ payment \in [Creators -> PaymentRow]
  BY <1>1, ViewOf DEF Begun
<1>3. PICK new \in LoanRow :
         /\ loan' = Written(was, new, loan)
         /\ new.amountPaid = Monus(was.amountPaid, payment[p].amount)
         /\ new.balance = Monus(TotalRepayable, new.amountPaid)
  BY ReverseRows
<1>4. p \in Repayments /\ payment[p].amount \in Nat /\ was.amountPaid \in Nat
  BY <1>2, ReverseRows DEF PaymentRow, LoanRow, Creators
<1>5. overpaid' \in BOOLEAN
  BY <1>1 DEF SoundInv
<1>6. ASSUME ~overpaid' PROVE loan'.amountPaid + loan'.balance = TotalRepayable
  <2>1. was.amountPaid + was.balance = TotalRepayable /\ loan.amountPaid + loan.balance = TotalRepayable
    BY <1>1, <1>6 DEF AddsInv, ColumnsAgree, Adds, Begun
  <2>2. new.amountPaid <= TotalRepayable
    <3>1. new.amountPaid \in Nat /\ new.amountPaid <= was.amountPaid
      BY <1>3, <1>4, MonusNat
    <3>2. was.balance \in Nat
      BY <1>2, TotalIsNat DEF LoanRow
    <3>3. \A a, b, c \in Nat : a <= b => a <= b + c
      OBVIOUS
    <3> QED BY <1>4, <2>1, <3>1, <3>2, <3>3
  <2> QED BY <1>2, <1>3, <2>1, <2>2, WrittenAdds
<1> QED BY <1>1, <1>5, <1>6, AddsWrite

LEMMA LoadsRows ==
    ASSUME NEW r \in Requests, Load(r)
    PROVE  \E s : /\ session' = [session EXCEPT ![r] = s]
                  /\ s.stage = "loaded" /\ s.view = IdentityMap
<1>1. CASE session' = [session EXCEPT ![r] = [stage |-> "loaded", view |-> IdentityMap]]
  <2>1. PICK s : s = [stage |-> "loaded", view |-> IdentityMap]
    OBVIOUS
  <2>2. s.stage = "loaded" /\ s.view = IdentityMap
    BY <2>1
  <2>3. session' = [session EXCEPT ![r] = s]
    BY <1>1, <2>1
  <2> QED BY <2>2, <2>3
<1>2. CASE \E p \in {q \in Repayments : Recorded(q)} :
             session' = [session EXCEPT ![r] = [stage |-> "loaded", view |-> IdentityMap, target |-> p]]
  <2>1. PICK p : session' = [session EXCEPT ![r] = [stage |-> "loaded", view |-> IdentityMap, target |-> p]]
    BY <1>2
  <2>2. PICK s : s = [stage |-> "loaded", view |-> IdentityMap, target |-> p]
    OBVIOUS
  <2>3. s.stage = "loaded" /\ s.view = IdentityMap
    BY <2>2
  <2>4. session' = [session EXCEPT ![r] = s]
    BY <2>1, <2>2
  <2> QED BY <2>3, <2>4
<1> QED BY <1>1, <1>2 DEF Load

LEMMA AddsStep == KeysInv /\ SoundInv /\ AddsInv /\ [Next]_vars => AddsInv'
<1> SUFFICES ASSUME KeysInv, SoundInv, AddsInv, [Next]_vars PROVE AddsInv'
  OBVIOUS
<1>1. CASE UNCHANGED vars
  <2>1. overpaid' = overpaid /\ loan' = loan /\ session' = session
    BY <1>1 DEF vars
  <2> QED BY <2>1, AddsKept
<1>2. ASSUME NEW r \in Requests, Load(r) PROVE AddsInv'
  <2>1. overpaid' = overpaid /\ loan' = loan
    BY <1>2 DEF Load, rows
  <2>2. PICK s : session' = [session EXCEPT ![r] = s] /\ s.view = IdentityMap
    BY <1>2, LoadsRows
  <2>3. \A q \in Requests : session'[q] = IF q = r THEN s ELSE session[q]
    BY <2>2 DEF KeysInv
  <2> QED BY <2>1, <2>2, <2>3, AddsKept
<1>3. ASSUME NEW r \in Requests, DisburseNothing(r) \/ RefuseRepayment(r) \/ RollBack(r) \/ RefuseReversal(r)
      PROVE  AddsInv'
  <2>1. Finish(r) /\ overpaid' = overpaid /\ loan' = loan
    BY <1>3 DEF DisburseNothing, RefuseRepayment, RollBack, RefuseReversal, rows, history
  <2>2. overpaid' \in BOOLEAN /\ (~overpaid' => ~overpaid /\ loan'.amountPaid + loan'.balance = TotalRepayable)
    BY <2>1 DEF AddsInv, ColumnsAgree, SoundInv
  <2> QED BY <2>1, <2>2, AddsWrite
<1>4. ASSUME NEW r \in Requests, CheckRepayment(r) \/ PostRepayment(r) PROVE AddsInv'
  <2>1. overpaid' = overpaid /\ loan' = loan /\ Stage(r) \in Begun
    BY <1>4 DEF CheckRepayment, PostRepayment, rows, history, Begun
  <2>2. PICK s : session' = [session EXCEPT ![r] = s] /\ s.view = session[r].view
    BY <1>4 DEF CheckRepayment, PostRepayment, KeysInv
  <2>3. \A q \in Requests : session'[q] = IF q = r THEN s ELSE session[q]
    BY <2>2 DEF KeysInv
  <2> QED BY <2>1, <2>2, <2>3, AddsKept DEF Stage
<1>5. ASSUME NEW r \in Requests, DisburseCash(r) PROVE AddsInv'
  <2> DEFINE was == session[r].view.loan
             new == [was EXCEPT !.status = "active"]
  <2>1. Stage(r) = "loaded" /\ Finish(r) /\ overpaid' = overpaid /\ loan' = Written(was, new, loan)
    BY <1>5 DEF DisburseCash, history, WriteLoan
  <2>2. was \in LoanRow /\ loan \in LoanRow
    BY <2>1, ViewOf DEF Begun
  <2>3. new \in LoanRow /\ new.amountPaid = was.amountPaid /\ new.balance = was.balance
    BY <2>2 DEF LoanRow
  <2> HIDE DEF new, was
  <2>4. loan'.amountPaid = loan.amountPaid /\ loan'.balance = loan.balance
    BY <2>1, <2>2, <2>3, LoanWritten
  <2>5. overpaid' \in BOOLEAN /\ (~overpaid' => ~overpaid /\ loan'.amountPaid + loan'.balance = TotalRepayable)
    BY <2>1, <2>4 DEF AddsInv, ColumnsAgree, SoundInv
  <2> QED BY <2>1, <2>5, AddsWrite
<1> QED BY <1>1, <1>2, <1>3, <1>4, <1>5, AddsCommit, AddsReverse DEF Next

(* However sessions overlap, amount_paid and balance add up until more is  *)
(* credited than is repayable (allocate_repayment, reverse_loan_payment:   *)
(* two attributes of one loaded row, written each where it changed).       *)
THEOREM ColumnsAddUp == Spec => []ColumnsAgree
<1>1. AddsInv => ColumnsAgree
  BY DEF AddsInv, ColumnsAgree
<1> QED BY KeysInit, KeysStep, SoundInit, SoundStep, AddsInit, AddsStep, <1>1, PTL DEF Spec

-----------------------------------------------------------------------------
(* Oldest first.                                                           *)

LEMMA SummandFits ==
    ASSUME NEW S, IsFiniteSet(S), NEW f, \A x \in S : f[x] \in Nat, NEW e \in S
    PROVE  f[e] <= SumFunctionOnSet(f, S)
<1>1. IsFiniteSet(S \ {e})
  BY FS_Subset
<1>2. SumFunctionOnSet(f, S \ {e}) \in Nat
  BY <1>1, SumNat
<1>3. SumFunctionOnSet(f, S) = f[e] + SumFunctionOnSet(f, S \ {e})
  BY SumTakesOut
<1>4. \A a \in Nat, b \in Nat : a <= a + b
  OBVIOUS
<1> QED BY <1>2, <1>3, <1>4

LEMMA FiniteIsBounded ==
    ASSUME NEW S, IsFiniteSet(S), S \subseteq Nat
    PROVE  \E n \in Nat : \A x \in S : x < n
<1> DEFINE Good == {T \in SUBSET S : \E n \in Nat : \A x \in T : x < n}
<1>1. ASSUME NEW T \in SUBSET S, \A x \in T : T \ {x} \in Good PROVE T \in Good
  <2>1. CASE T = {}
    <3>1. 0 \in Nat /\ \A x \in T : x < 0
      BY <2>1
    <3> QED BY <3>1
  <2>2. CASE T # {}
    <3>1. PICK y \in T : TRUE
      BY <2>2
    <3>2. PICK n \in Nat : \A x \in T \ {y} : x < n
      BY <1>1
    <3>3. y \in Nat
      OBVIOUS
    <3>4. PICK m \in Nat : n <= m /\ y < m
      <4>1. n <= n + y + 1 /\ y < n + y + 1 /\ n + y + 1 \in Nat
        BY <3>3
      <4> QED BY <4>1
    <3>5. \A x \in T : x < m
      <4> SUFFICES ASSUME NEW x \in T PROVE x < m
        OBVIOUS
      <4>1. CASE x = y
        BY <3>4, <4>1
      <4>2. CASE x # y
        <5>1. x < n /\ x \in Nat
          BY <3>2, <4>2
        <5> QED BY <3>4, <5>1
      <4> QED BY <4>1, <4>2
    <3> QED BY <3>5
  <2> QED BY <2>1, <2>2
<1> HIDE DEF Good
<1>2. S \in Good
  BY <1>1, SubsetInduction
<1> QED BY <1>2 DEF Good

LEMMA GreedyNumbers ==
    ASSUME NEW a \in Nat, NEW before \in Nat, NEW here \in Nat
    PROVE  Least(a, before) + Least(here, Monus(a, before)) = Least(a, before + here)
BY DEF Least, Monus

LEMMA BelowNone ==
    ASSUME NEW T, T \subseteq Nat
    PROVE  {j \in T : j < 0} = {}
<1>1. \A j \in T : ~(j < 0)
  OBVIOUS
<1> QED BY <1>1

LEMMA BelowNext ==
    ASSUME NEW T, T \subseteq Nat, NEW n \in Nat
    PROVE  /\ n \notin {j \in T : j < n}
           /\ n \in T => {j \in T : j < n + 1} = {j \in T : j < n} \cup {n}
           /\ n \notin T => {j \in T : j < n + 1} = {j \in T : j < n}
<1>1. ~(n < n)
  OBVIOUS
<1>2. \A j \in T : j < n + 1 <=> j < n \/ j = n
  OBVIOUS
<1> QED BY <1>1, <1>2

LEMMA GreedyStep ==
    ASSUME NEW B, IsFiniteSet(B), NEW n, n \notin B, NEW f, NEW share,
           \A x \in B \cup {n} : f[x] \in Nat /\ share[x] \in Nat,
           NEW a \in Nat, share[n] = Least(f[n], Monus(a, SumFunctionOnSet(f, B))),
           SumFunctionOnSet(share, B) = Least(a, SumFunctionOnSet(f, B))
    PROVE  SumFunctionOnSet(share, B \cup {n}) = Least(a, SumFunctionOnSet(f, B \cup {n}))
<1>1. \A x \in B \cup {n} : f[x] \in Int /\ share[x] \in Int
  OBVIOUS
<1>2. SumFunctionOnSet(f, B \cup {n}) = SumFunctionOnSet(f, B) + f[n]
  BY <1>1, SumJoins
<1>3. SumFunctionOnSet(share, B \cup {n}) = SumFunctionOnSet(share, B) + share[n]
  BY <1>1, SumJoins
<1>4. SumFunctionOnSet(f, B) \in Nat
  BY SumNat
<1>5. f[n] \in Nat
  OBVIOUS
<1>6. Least(a, SumFunctionOnSet(f, B)) + Least(f[n], Monus(a, SumFunctionOnSet(f, B)))
        = Least(a, SumFunctionOnSet(f, B) + f[n])
  BY <1>4, <1>5, GreedyNumbers
<1> QED BY <1>2, <1>3, <1>6

(* Each takes what is left of the amount, at most its own: together they   *)
(* take the amount, at most all there is.                                  *)
LEMMA OldestFirst ==
    ASSUME NEW T, IsFiniteSet(T), T \subseteq Nat, NEW f, \A j \in T : f[j] \in Nat,
           NEW a \in Nat, NEW share,
           \A i \in T : share[i] = Least(f[i], Monus(a, SumFunctionOnSet(f, {j \in T : j < i})))
    PROVE  SumFunctionOnSet(share, T) = Least(a, SumFunctionOnSet(f, T))
<1> DEFINE Below(n) == {j \in T : j < n}
           sum(n) == SumFunctionOnSet(f, Below(n))
           taken(n) == SumFunctionOnSet(share, Below(n))
           Bad == {n \in Nat : taken(n) # Least(a, sum(n))}
<1>1. \A n \in Nat : IsFiniteSet(Below(n))
  BY FS_Subset
<1>2. \A n \in Nat : sum(n) \in Nat
  BY <1>1, SumNat
<1>3. \A i \in T : share[i] = Least(f[i], Monus(a, sum(i))) /\ share[i] \in Nat
  BY <1>2, MonusNat, LeastNat
<1>4. taken(0) = Least(a, sum(0))
  <2>1. Below(0) = {}
    BY BelowNone
  <2>2. taken(0) = 0 /\ sum(0) = 0
    BY <2>1, SumEmpty
  <2> HIDE DEF taken, sum
  <2> QED BY <2>2 DEF Least
<1>5. ASSUME NEW n \in Nat, taken(n) = Least(a, sum(n)) PROVE taken(n + 1) = Least(a, sum(n + 1))
  <2> HIDE DEF Below, taken, sum
  <2>1. CASE n \in T
    <3>1. Below(n + 1) = Below(n) \cup {n} /\ n \notin Below(n)
      BY <2>1, BelowNext DEF Below
    <3>2. IsFiniteSet(Below(n)) /\ Below(n) \cup {n} \subseteq T
      BY <1>1, <2>1 DEF Below
    <3>3. \A x \in Below(n) \cup {n} : f[x] \in Nat /\ share[x] \in Nat
      BY <1>3, <3>2
    <3>4. share[n] = Least(f[n], Monus(a, SumFunctionOnSet(f, Below(n))))
      BY <1>3, <2>1 DEF sum
    <3>5. SumFunctionOnSet(share, Below(n)) = Least(a, SumFunctionOnSet(f, Below(n)))
      BY <1>5 DEF taken, sum
    <3>6. SumFunctionOnSet(share, Below(n) \cup {n}) = Least(a, SumFunctionOnSet(f, Below(n) \cup {n}))
      BY <3>1, <3>2, <3>3, <3>4, <3>5, GreedyStep
    <3> QED BY <3>1, <3>6 DEF taken, sum
  <2>2. CASE n \notin T
    <3>1. Below(n + 1) = Below(n)
      BY <2>2, BelowNext DEF Below
    <3> QED BY <1>5, <3>1 DEF taken, sum
  <2> QED BY <2>1, <2>2
<1>6. PICK n \in Nat : \A x \in T : x < n
  BY FiniteIsBounded
<1>7. Below(n) = T
  BY <1>6
<1> HIDE DEF taken, sum
<1>8. Bad = {}
  <2> SUFFICES ASSUME Bad # {} PROVE FALSE
    OBVIOUS
  <2>1. PICK m \in Bad : \A k \in Bad : m <= k
    <3>1. Bad \subseteq Nat
      OBVIOUS
    <3> HIDE DEF Bad
    <3> QED BY <3>1, LeastNumber
  <2>2. m \in Nat /\ m # 0
    BY <1>4, <2>1
  <2>3. PICK k \in Nat : m = k + 1
    BY <2>2
  <2>4. k \notin Bad
    <3>1. ~(m <= k)
      BY <2>3
    <3> QED BY <2>1, <3>1
  <2>5. taken(k) = Least(a, sum(k))
    BY <2>4
  <2>6. taken(k + 1) = Least(a, sum(k + 1))
    BY <1>5, <2>5
  <2> QED BY <2>1, <2>3, <2>6
<1>9. taken(n) = Least(a, sum(n))
  BY <1>8
<1> QED BY <1>7, <1>9 DEF taken, sum

-----------------------------------------------------------------------------
(* Requests that do not overlap.  The one in progress has loaded the rows  *)
(* as they are, so what it writes is what is there afterwards.             *)

Credit == [p \in Repayments |-> IF Standing(p) THEN payment[p].amount ELSE 0]
Part(i) == [p \in Repayments |-> IF Standing(p) THEN allocation[p][i] ELSE 0]
Paid == [i \in Installments |-> inst[i].paid]

Books ==
    /\ loan.amountPaid = SumFunctionOnSet(Credit, Repayments)
    /\ \A i \in Installments : inst[i].paid = SumFunctionOnSet(Part(i), Repayments)
    /\ loan.amountPaid = SumFunctionOnSet(Paid, Installments)
    /\ \A p \in Repayments :
          Standing(p) => payment[p].amount = SumFunctionOnSet(allocation[p], Installments)
    /\ \A i \in Installments : inst[i].status = "paid" => inst[i].paid = Due[i]

PaidOutOnce ==
    /\ loan.status = "approved" => \A p \in Disbursements : ~Standing(p)
    /\ \A p, q \in Disbursements : Standing(p) /\ Standing(q) => p = q

OneAtATime ==
    /\ \A q, r \in Requests : Stage(q) \in Begun /\ Stage(r) \in Begun => q = r
    /\ \A r \in Requests : Stage(r) \in Begun => session[r].view = IdentityMap
    /\ \A r \in Requests : Stage(r) \in {"checked", "posted"} => session[r].amount <= loan.balance
    /\ \A r \in Requests : Stage(r) = "posted" => session[r].open = OpenIn(inst)

AloneInv == ~overlapped => Books /\ PaidOutOnce /\ ~overpaid /\ OneAtATime

AllInv == KeysInv /\ SoundInv /\ AddsInv

LEMMA AloneInit == Init => AloneInv
<1> SUFFICES ASSUME Init PROVE AloneInv
  OBVIOUS
<1>1. \A p \in Creators : ~Standing(p)
  BY DEF Init, Standing
<1>2. \A p \in Repayments : Credit[p] = 0
  BY <1>1 DEF Credit, Creators
<1>3. \A i \in Installments, p \in Repayments : Part(i)[p] = 0
  BY <1>1 DEF Part, Creators
<1>4. \A i \in Installments : Paid[i] = 0
  BY DEF Init, Paid
<1>5. SumFunctionOnSet(Credit, Repayments) = 0
  BY <1>2, SumZero, RequestsAssumption
<1>6. \A i \in Installments : SumFunctionOnSet(Part(i), Repayments) = 0
  BY <1>3, SumZero, RequestsAssumption
<1>7. SumFunctionOnSet(Paid, Installments) = 0
  BY <1>4, SumZero, ScheduleAssumption
<1>8. loan.amountPaid = 0 /\ \A i \in Installments : inst[i].paid = 0 /\ inst[i].status = "pending"
  BY DEF Init
<1>9. Books
  BY <1>1, <1>5, <1>6, <1>7, <1>8 DEF Books, Creators
<1>10. PaidOutOnce
  BY <1>1 DEF PaidOutOnce, Creators
<1>11. \A r \in Requests : Stage(r) = "idle"
  BY DEF Init, Stage, Idle
<1>12. OneAtATime
  BY <1>11 DEF OneAtATime, Begun
<1> QED BY <1>9, <1>10, <1>12 DEF Init, AloneInv

LEMMA CurrentView ==
    ASSUME AloneInv, ~overlapped, NEW r \in Requests, Stage(r) \in Begun
    PROVE  session[r].view.loan = loan /\ session[r].view.inst = inst /\ session[r].view.payment = payment
<1>1. session[r].view = IdentityMap
  BY DEF AloneInv, OneAtATime
<1> QED BY <1>1 DEF IdentityMap

(* What stays when no row changes.                                         *)
LEMMA BooksStay ==
    ASSUME UNCHANGED rows, Books /\ PaidOutOnce PROVE (Books /\ PaidOutOnce)'
BY DEF rows, Books, PaidOutOnce, Credit, Part, Paid, Standing

(* The one request in progress ends.                                       *)
LEMMA AloneEnds ==
    ASSUME KeysInv, AloneInv, NEW r \in Requests, Stage(r) \in Begun, Finish(r), overlapped' = overlapped,
           ~overlapped => (Books /\ PaidOutOnce)' /\ ~overpaid'
    PROVE  AloneInv'
<1>1. \A q \in Requests : session'[q] = IF q = r THEN Done ELSE session[q]
  BY DEF KeysInv, Finish
<1>2. ASSUME ~overlapped, NEW q \in Requests PROVE session'[q].stage \notin Begun
  <2>1. CASE q = r
    BY <1>1, <2>1 DEF Done, Begun
  <2>2. CASE q # r
    BY <1>1, <1>2, <2>2 DEF AloneInv, OneAtATime, Stage
  <2> QED BY <2>1, <2>2
<1>3. ~overlapped => OneAtATime'
  BY <1>2 DEF OneAtATime, Stage, Begun
<1> QED BY <1>3 DEF AloneInv

LEMMA AloneNothing ==
    ASSUME AllInv, AloneInv, NEW r \in Requests,
           DisburseNothing(r) \/ RefuseRepayment(r) \/ RollBack(r) \/ RefuseReversal(r)
    PROVE  AloneInv'
<1>1. Finish(r) /\ UNCHANGED <<rows, stamped, history>> /\ Stage(r) \in Begun
  BY DEF DisburseNothing, RefuseRepayment, RollBack, RefuseReversal, Begun
<1>2. overlapped' = overlapped /\ overpaid' = overpaid /\ UNCHANGED rows
  BY <1>1 DEF history
<1>3. ~overlapped => (Books /\ PaidOutOnce)' /\ ~overpaid'
  BY <1>2, BooksStay DEF AloneInv
<1> QED BY <1>1, <1>2, <1>3, AloneEnds DEF AllInv

LEMMA AloneLoad == ASSUME AllInv, AloneInv, NEW r \in Requests, Load(r) PROVE AloneInv'
<1>1. /\ UNCHANGED rows /\ overpaid' = overpaid /\ session[r] = Idle
      /\ overlapped' = (overlapped \/ \E q \in Requests : Stage(q) \notin {"idle", "done"})
  BY DEF Load
<1>2. PICK s : session' = [session EXCEPT ![r] = s] /\ s.stage = "loaded" /\ s.view = IdentityMap
  BY LoadsRows
<1>3. \A q \in Requests : session'[q] = IF q = r THEN s ELSE session[q]
  BY <1>2 DEF AllInv, KeysInv
<1>4. ASSUME ~overlapped' PROVE (Books /\ PaidOutOnce)' /\ ~overpaid' /\ OneAtATime'
  <2>1. ~overlapped /\ \A q \in Requests : Stage(q) \notin Begun
    BY <1>1, <1>4 DEF Begun
  <2>2. (Books /\ PaidOutOnce)' /\ ~overpaid'
    BY <1>1, <2>1, BooksStay DEF AloneInv
  <2>3. \A q \in Requests : session'[q].stage \in Begun => q = r
    BY <1>3, <2>1 DEF Stage
  <2>4. session'[r].stage = "loaded" /\ session'[r].view = IdentityMap
    BY <1>2, <1>3
  <2>5. IdentityMap' = IdentityMap
    BY <1>1 DEF rows, IdentityMap
  <2>6. \A q \in Requests : session'[q].stage \in Begun => session'[q].view = IdentityMap'
    BY <2>3, <2>4, <2>5
  <2>7. \A q \in Requests : session'[q].stage \notin {"checked", "posted"}
    BY <2>3, <2>4 DEF Begun
  <2> QED BY <2>2, <2>3, <2>6, <2>7 DEF OneAtATime, Stage
<1> QED BY <1>4 DEF AloneInv

LEMMA AlonePost == ASSUME AllInv, AloneInv, NEW r \in Requests, PostRepayment(r) PROVE AloneInv'
<1>1. Stage(r) = "checked" /\ UNCHANGED <<rows, stamped, history>>
  BY DEF PostRepayment
<1>2. UNCHANGED rows /\ overpaid' = overpaid /\ overlapped' = overlapped
  BY <1>1 DEF history
<1>3. PICK s : /\ session' = [session EXCEPT ![r] = s] /\ s.view = session[r].view
               /\ s.amount = session[r].amount /\ s.open = OpenIn(inst) /\ s.stage = "posted"
  <2>1. PICK s : s = [stage |-> "posted", view |-> session[r].view, amount |-> session[r].amount,
                      open |-> OpenIn(inst)]
    OBVIOUS
  <2>2. session' = [session EXCEPT ![r] = s]
    BY <2>1 DEF PostRepayment, AllInv, KeysInv
  <2>3. /\ s.view = session[r].view /\ s.amount = session[r].amount /\ s.open = OpenIn(inst)
        /\ s.stage = "posted"
    BY <2>1
  <2> QED BY <2>2, <2>3
<1>4. \A q \in Requests : session'[q] = IF q = r THEN s ELSE session[q]
  BY <1>3 DEF AllInv, KeysInv
<1>5. ASSUME ~overlapped PROVE (Books /\ PaidOutOnce)' /\ ~overpaid' /\ OneAtATime'
  <2>1. (Books /\ PaidOutOnce)' /\ ~overpaid'
    BY <1>2, <1>5, BooksStay DEF AloneInv
  <2>2. IdentityMap' = IdentityMap /\ loan' = loan /\ inst' = inst
    BY <1>2 DEF rows, IdentityMap
  <2>3. \A q \in Requests : session'[q].stage \in Begun => q = r
    BY <1>1, <1>4, <1>5 DEF AloneInv, OneAtATime, Stage, Begun
  <2>4. session[r].view = IdentityMap /\ session[r].amount <= loan.balance
    BY <1>1, <1>5 DEF AloneInv, OneAtATime, Begun
  <2>5. session'[r] = s
    BY <1>4
  <2>6. \A q \in Requests : session'[q].stage \in Begun =>
           /\ session'[q].view = IdentityMap' /\ session'[q].amount <= loan'.balance
           /\ session'[q].open = OpenIn(inst)
    BY <1>3, <2>2, <2>3, <2>4, <2>5
  <2>7. OpenIn(inst') = OpenIn(inst)
    BY <2>2
  <2>8. \A q \in Requests : session'[q].stage \in {"checked", "posted"} => session'[q].stage \in Begun
    BY DEF Begun
  <2> QED BY <2>1, <2>3, <2>6, <2>7, <2>8 DEF OneAtATime, Stage
<1> QED BY <1>2, <1>5 DEF AloneInv

(* What is outstanding.                                                    *)
Owed == [i \in Installments |-> Due[i] - inst[i].paid]

LEMMA PaidNumbers ==
    ASSUME SoundInv
    PROVE  \A i \in Installments : /\ Paid[i] = inst[i].paid /\ Paid[i] \in Nat
                                   /\ Owed[i] \in Nat /\ Due[i] = Owed[i] + Paid[i]
<1>1. \A i \in Installments : inst[i].paid \in Nat /\ inst[i].paid <= Due[i]
  BY SoundRowsHold DEF SoundInv, InstallmentRow
<1>2. \A a \in Nat, b \in Nat : b <= a => a - b \in Nat /\ a = (a - b) + b
  OBVIOUS
<1> QED BY <1>1, <1>2, DueIsNat DEF Paid, Owed

LEMMA BalanceIsOwed ==
    ASSUME SoundInv, ColumnsAgree, ~overpaid, Books
    PROVE  /\ loan.balance = SumFunctionOnSet(Owed, Installments)
           /\ SumFunctionOnSet(Owed, OpenIn(inst)) = loan.balance
<1>1. \A i \in Installments : Owed[i] \in Int /\ Paid[i] \in Int /\ Due[i] = Owed[i] + Paid[i]
  BY PaidNumbers
<1>2. TotalRepayable = SumFunctionOnSet(Owed, Installments) + SumFunctionOnSet(Paid, Installments)
  BY <1>1, SumPlus, ScheduleAssumption DEF TotalRepayable
<1>3. SumFunctionOnSet(Owed, Installments) \in Int
  BY <1>1, SumInt, ScheduleAssumption
<1>4. loan.amountPaid + loan.balance = TotalRepayable /\ loan.amountPaid = SumFunctionOnSet(Paid, Installments)
  BY DEF ColumnsAgree, Books
<1>5. loan.amountPaid \in Nat /\ loan.balance \in Nat
  BY SoundRowsHold, TotalIsNat DEF SoundInv, LoanRow
<1>6. \A a \in Int, b \in Int, c \in Int : a + b = c + a => b = c
  OBVIOUS
<1>7. loan.balance = SumFunctionOnSet(Owed, Installments)
  BY <1>2, <1>3, <1>4, <1>5, <1>6
<1>8. ASSUME NEW i \in Installments \ OpenIn(inst) PROVE Owed[i] = 0
  <2>1. inst[i].status = "paid"
    BY DEF OpenIn
  <2>2. inst[i].paid = Due[i]
    BY <2>1 DEF Books
  <2>3. \A n \in Nat : n - n = 0
    OBVIOUS
  <2> QED BY <2>2, <2>3, DueIsNat DEF Owed
<1>9. OpenIn(inst) \subseteq Installments
  BY DEF OpenIn
<1>10. SumFunctionOnSet(Owed, Installments) = SumFunctionOnSet(Owed, OpenIn(inst))
  BY <1>1, <1>8, <1>9, SumOnPart, ScheduleAssumption
<1> QED BY <1>7, <1>10

LEMMA AppliedFits ==
    ASSUME SoundInv, ColumnsAgree, ~overpaid, Books, OpenIn(inst) # {},
           NEW tendered \in Tenders, NEW action, NEW view, view.loan = loan, view.inst = inst
    PROVE  Applied(view, tendered, action) <= loan.balance
<1> DEFINE current == Min(OpenIn(view.inst))
<1>1. current \in Installments
  BY LeastOpen DEF OpenIn
<1>2. \A i \in Installments : Owed[i] \in Nat
  BY PaidNumbers
<1>3. Owed[current] <= loan.balance
  BY <1>1, <1>2, SummandFits, BalanceIsOwed, ScheduleAssumption
<1>4. Outstanding(view, current) = Owed[current]
  BY <1>1 DEF Outstanding, Owed
<1>5. tendered \in Nat /\ loan.balance \in Nat
  BY ScheduleAssumption, SoundRowsHold, TotalIsNat DEF SoundInv, LoanRow
<1>6. Least(tendered, view.loan.balance) <= loan.balance
  BY <1>5, LeastNat
<1>7. Applied(view, tendered, action) =
        IF tendered <= Outstanding(view, current) THEN tendered
        ELSE IF action = "give_change" THEN Outstanding(view, current)
        ELSE Least(tendered, view.loan.balance)
  BY DEF Applied
<1>8. Owed[current] \in Nat
  BY <1>1, <1>2
<1> HIDE DEF current
<1>9. \A a, b, c \in Nat : a <= b /\ b <= c => a <= c
  OBVIOUS
<1> QED BY <1>3, <1>4, <1>5, <1>6, <1>7, <1>8, <1>9

LEMMA AloneCheck == ASSUME AllInv, AloneInv, NEW r \in Requests, CheckRepayment(r) PROVE AloneInv'
<1> DEFINE view == session[r].view
<1>1. Stage(r) = "loaded" /\ UNCHANGED <<rows, history>> /\ OpenIn(view.inst) # {}
  BY DEF CheckRepayment
<1>2. UNCHANGED rows /\ overpaid' = overpaid /\ overlapped' = overlapped
  BY <1>1 DEF history
<1>3. PICK tendered \in Tenders, action \in {"give_change", "carry_forward"} :
        session' = [session EXCEPT ![r] = [stage |-> "checked", view |-> view,
                                           amount |-> Applied(view, tendered, action)]]
  BY DEF CheckRepayment
<1>4. PICK s : s = [stage |-> "checked", view |-> view, amount |-> Applied(view, tendered, action)]
  OBVIOUS
<1>5. session' = [session EXCEPT ![r] = s] /\ s.stage = "checked" /\ s.view = view
      /\ s.amount = Applied(view, tendered, action)
  BY <1>3, <1>4
<1>6. \A q \in Requests : session'[q] = IF q = r THEN s ELSE session[q]
  BY <1>5 DEF AllInv, KeysInv
<1>7. ASSUME ~overlapped PROVE (Books /\ PaidOutOnce)' /\ ~overpaid' /\ OneAtATime'
  <2>1. (Books /\ PaidOutOnce)' /\ ~overpaid'
    BY <1>2, <1>7, BooksStay DEF AloneInv
  <2>2. IdentityMap' = IdentityMap /\ loan' = loan
    BY <1>2 DEF rows, IdentityMap
  <2>3. \A q \in Requests : session'[q].stage \in Begun => q = r
    BY <1>1, <1>6, <1>7 DEF AloneInv, OneAtATime, Stage, Begun
  <2>4. view = IdentityMap /\ view.loan = loan /\ view.inst = inst
    BY <1>1, <1>7, CurrentView DEF AloneInv, OneAtATime, Begun
  <2>5. SoundInv /\ ColumnsAgree /\ ~overpaid /\ Books
    BY <1>7 DEF AllInv, AddsInv, AloneInv
  <2>6. OpenIn(inst) # {}
    BY <1>1, <2>4
  <2>7. Applied(view, tendered, action) <= loan.balance
    <3> HIDE DEF view
    <3> QED BY <2>4, <2>5, <2>6, AppliedFits
  <2>8. session'[r] = s
    BY <1>6
  <2>9. \A q \in Requests : session'[q].stage \in Begun =>
           /\ session'[q].view = IdentityMap' /\ session'[q].amount <= loan'.balance
           /\ session'[q].stage # "posted"
    BY <1>5, <2>2, <2>3, <2>4, <2>7, <2>8
  <2>10. \A q \in Requests : session'[q].stage \in {"checked", "posted"} => session'[q].stage \in Begun
    BY DEF Begun
  <2> QED BY <2>1, <2>3, <2>9, <2>10 DEF OneAtATime, Stage
<1> QED BY <1>2, <1>7 DEF AloneInv

LEMMA WrittenOver ==
    ASSUME NEW row \in LoanRow, NEW new \in LoanRow, NEW result, result = Written(row, new, row)
    PROVE  result.amountPaid = new.amountPaid /\ result.balance = new.balance /\ result.status = new.status
BY LoanWritten

LEMMA AloneDisburse == ASSUME AllInv, AloneInv, NEW r \in Requests, DisburseCash(r) PROVE AloneInv'
<1> DEFINE was == session[r].view.loan
           new == [was EXCEPT !.status = "active"]
<1>1. /\ r \in Disbursements /\ Stage(r) = "loaded" /\ Finish(r) /\ UNCHANGED <<inst, allocation, history>>
      /\ was.status = "approved" /\ loan' = Written(was, new, loan)
      /\ payment' = [payment EXCEPT ![r] = [status |-> "succeeded", amount |-> Principal]]
  BY DEF DisburseCash, WriteLoan
<1>2. was \in LoanRow /\ loan \in LoanRow /\ payment \in [Creators -> PaymentRow]
  BY <1>1, ViewOf DEF Begun, AllInv
<1>3. new \in LoanRow /\ new.amountPaid = was.amountPaid /\ new.status = "active"
  BY <1>2 DEF LoanRow
<1>4. r \notin Repayments
  BY <1>1, RequestsAssumption
<1>5. \A p \in Repayments \cup Disbursements : p # r => payment'[p] = payment[p]
  BY <1>1, <1>2 DEF Creators
<1>6. ASSUME ~overlapped PROVE (Books /\ PaidOutOnce)' /\ ~overpaid'
  <2>1. was = loan
    BY <1>1, <1>6, CurrentView DEF Begun
  <2>2. Books /\ PaidOutOnce /\ ~overpaid
    BY <1>6 DEF AloneInv
  <2> HIDE DEF was, new
  <2>3. loan'.amountPaid = loan.amountPaid /\ loan'.status = "active"
    BY <1>1, <1>2, <1>3, <2>1, WrittenOver
  <2>4. \A p \in Repayments : Standing(p)' = Standing(p) /\ payment'[p].amount = payment[p].amount
    BY <1>4, <1>5 DEF Standing
  <2>5. Credit' = Credit /\ \A i \in Installments : Part(i)' = Part(i)
    BY <1>1, <2>4 DEF Credit, Part
  <2>6. Paid' = Paid
    BY <1>1 DEF Paid
  <2>7. Books'
    BY <1>1, <2>2, <2>3, <2>4, <2>5, <2>6 DEF Books
  <2>8. \A p \in Disbursements : ~Standing(p)
    BY <1>1, <2>1, <2>2 DEF PaidOutOnce, was
  <2>9. \A p \in Disbursements : Standing(p)' => p = r
    BY <1>5, <2>8 DEF Standing
  <2>10. PaidOutOnce'
    BY <2>3, <2>9 DEF PaidOutOnce
  <2> QED BY <1>1, <2>2, <2>7, <2>10 DEF history
<1>7. Stage(r) \in Begun /\ overlapped' = overlapped
  BY <1>1 DEF Begun, history
<1> QED BY <1>1, <1>6, <1>7, AloneEnds DEF AllInv

(* A repayment alone is allocated in full.                                 *)
LEMMA AllocatedInFull ==
    ASSUME AllInv, AloneInv, ~overlapped, NEW r \in Requests, Stage(r) = "posted"
    PROVE  SumFunctionOnSet([i \in Installments |-> Share(r, i)], Installments) = session[r].amount
<1> DEFINE open == session[r].open
           amount == session[r].amount
           share == [i \in Installments |-> Share(r, i)]
<1>1. SoundInv /\ ColumnsAgree /\ ~overpaid /\ Books
  BY DEF AllInv, AddsInv, AloneInv
<1>2. open = OpenIn(inst) /\ amount <= loan.balance /\ session[r].view.inst = inst
  BY CurrentView DEF AloneInv, OneAtATime, Begun
<1>3. amount \in Nat /\ loan.balance \in Nat
  BY <1>1, SoundRowsHold, TotalIsNat DEF SoundInv, SoundSession, Stage, LoanRow
<1>4. open \subseteq Installments /\ IsFiniteSet(open) /\ open \subseteq Nat
  <2>1. open \subseteq Installments
    BY <1>2 DEF OpenIn
  <2> HIDE DEF open
  <2> QED BY <2>1, FS_Subset, ScheduleAssumption
<1>5. \A i \in Installments : Owed[i] \in Nat
  BY <1>1, PaidNumbers
<1>6. \A i \in Installments : Outstanding(session[r].view, i) = Owed[i]
  BY <1>2 DEF Outstanding, Owed
<1>7. [j \in Installments |-> Outstanding(session[r].view, j)] = Owed
  BY <1>6 DEF Owed
<1>8. \A i \in Installments : Share(r, i) =
         IF i \in open THEN Least(Owed[i], Monus(amount, SumFunctionOnSet(Owed, {j \in open : j < i}))) ELSE 0
  <2>1. ASSUME NEW i \in open PROVE Share(r, i) = Least(Owed[i], Monus(amount, OutstandingBefore(r, i)))
    BY <1>1, <1>4, <1>6, ShareIsLeast
  <2>2. \A i \in Installments : OutstandingBefore(r, i) = SumFunctionOnSet(Owed, {j \in open : j < i})
    BY <1>7 DEF OutstandingBefore
  <2>3. \A i \in Installments \ open : Share(r, i) = 0
    BY DEF Share, Reached
  <2> QED BY <1>4, <2>1, <2>2, <2>3
<1> HIDE DEF open, amount
<1>9. \A i \in open : share[i] = Least(Owed[i], Monus(amount, SumFunctionOnSet(Owed, {j \in open : j < i})))
  BY <1>4, <1>8
<1>10. \A i \in Installments : share[i] \in Int
  BY <1>1, ShareNat
<1>11. \A i \in Installments \ open : share[i] = 0
  BY <1>8
<1> HIDE DEF share
<1>12. SumFunctionOnSet(share, Installments) = SumFunctionOnSet(share, open)
  BY <1>4, <1>10, <1>11, SumOnPart, ScheduleAssumption
<1>13. \A i \in open : Owed[i] \in Nat
  BY <1>4, <1>5
<1>14. SumFunctionOnSet(share, open) = Least(amount, SumFunctionOnSet(Owed, open))
  BY <1>3, <1>4, <1>9, <1>13, OldestFirst
<1>15. SumFunctionOnSet(Owed, open) = loan.balance
  BY <1>1, <1>2, BalanceIsOwed
<1>16. Least(amount, loan.balance) = amount
  BY <1>2, <1>3 DEF Least
<1> QED BY <1>12, <1>14, <1>15, <1>16 DEF share, amount

LEMMA AloneCommit == ASSUME AllInv, AloneInv, NEW r \in Requests, CommitRepayment(r) PROVE AloneInv'
<1> DEFINE amount == session[r].amount
           share == [i \in Installments |-> Share(r, i)]
           new == [i \in Installments |-> AllocatedTo(r, i)]
<1>1. /\ r \in Repayments /\ Stage(r) = "posted" /\ Finish(r) /\ overlapped' = overlapped
      /\ overpaid' = (overpaid \/ session[r].view.loan.amountPaid + amount > TotalRepayable)
      /\ payment' = [payment EXCEPT ![r] = [status |-> "succeeded", amount |-> amount]]
      /\ allocation' = [allocation EXCEPT ![r] = share]
      /\ WriteInstallments(r, new)
  BY DEF CommitRepayment
<1>2. SoundInv /\ KeysInv /\ amount \in Nat /\ loan \in LoanRow /\ payment \in [Creators -> PaymentRow]
  BY <1>1, ViewOf DEF Begun, AllInv, SoundInv, SoundSession, Stage
<1>3. PICK row \in LoanRow :
         /\ loan' = Written(session[r].view.loan, row, loan)
         /\ row.amountPaid = session[r].view.loan.amountPaid + amount
         /\ row.status = IF row.balance = 0 THEN "completed" ELSE session[r].view.loan.status
  BY <1>2, CommitRows
<1>4. ~Recorded(r)
  BY <1>1, <1>2 DEF KeysInv, Sharing, Creators
<1>5. \A i \in Installments : Share(r, i) \in Nat
  BY <1>1, <1>2, ShareNat
<1>6. Stage(r) \in Begun
  BY <1>1 DEF Begun
<1>7. ASSUME ~overlapped PROVE (Books /\ PaidOutOnce)' /\ ~overpaid'
  <2>1. session[r].view.loan = loan /\ session[r].view.inst = inst
    BY <1>6, <1>7, CurrentView
  <2>2. Books /\ PaidOutOnce /\ ~overpaid /\ amount <= loan.balance /\ ColumnsAgree
    BY <1>1, <1>7 DEF AloneInv, OneAtATime, AllInv, AddsInv
  <2>3. SumFunctionOnSet(share, Installments) = amount
    BY <1>1, <1>7, AllocatedInFull
  <2>4. loan'.amountPaid = loan.amountPaid + amount
        /\ (loan'.status = "approved" => loan.status = "approved")
    BY <1>2, <1>3, <2>1, WrittenOver
  <2>5. \A i \in Installments :
           /\ new[i] \in InstallmentRow /\ new[i].paid <= Due[i] /\ inst[i] \in InstallmentRow
           /\ new[i].paid = inst[i].paid + Share(r, i)
    BY <1>1, <1>2, <1>6, <2>1, AllocatedTyped, ViewOf
  <2>6. \A i \in Installments : new[i].status = "paid" => new[i].paid = Due[i]
    <3> SUFFICES ASSUME NEW i \in Installments, AllocatedTo(r, i).status = "paid"
                 PROVE  AllocatedTo(r, i).paid = Due[i]
      OBVIOUS
    <3>1. CASE ~Reached(r, i)
      <4>1. AllocatedTo(r, i) = inst[i]
        BY <2>1, <3>1 DEF AllocatedTo
      <4> QED BY <2>2, <4>1 DEF Books
    <3>2. CASE Reached(r, i)
      <4> DEFINE n == inst[i].paid + Share(r, i)
      <4>1. AllocatedTo(r, i) = [paid |-> n, status |-> IF n >= Due[i] THEN "paid" ELSE "partial"]
        BY <2>1, <3>2 DEF AllocatedTo
      <4>2. AllocatedTo(r, i).paid = n /\ (AllocatedTo(r, i).status = "paid" => n >= Due[i])
        BY <4>1
      <4>3. n <= Due[i] /\ n \in Nat
        BY <1>5, <2>5 DEF InstallmentRow
      <4> HIDE DEF n
      <4>4. \A a, b \in Nat : a <= b /\ a >= b => a = b
        OBVIOUS
      <4> QED BY <4>2, <4>3, <4>4, DueIsNat
    <3> QED BY <3>1, <3>2
  <2> HIDE DEF new
  <2>7. \A i \in Installments : inst'[i].paid = new[i].paid /\ inst'[i].status = new[i].status
    <3>1. \A i \in Installments :
            /\ inst'[i].paid = IF new[i].paid = inst[i].paid THEN inst[i].paid ELSE new[i].paid
            /\ inst'[i].status = IF new[i].status = inst[i].status THEN inst[i].status ELSE new[i].status
      BY <1>1, <1>2, <1>6, <2>1, <2>5, ScheduleWritten
    <3> QED BY <2>5, <3>1
  <2>8. \A i \in Installments : inst[i].paid \in Nat
    BY <2>5 DEF InstallmentRow
  <2>9. ~Standing(r) /\ Standing(r)' /\ payment'[r].amount = amount
    BY <1>1, <1>2, <1>4 DEF Recorded, Standing, Creators
  <2>10. \A p \in Repayments \cup Disbursements : p # r =>
           Standing(p)' = Standing(p) /\ payment'[p] = payment[p]
    BY <1>1, <1>2 DEF Standing, Creators
  <2>11. /\ allocation \in [Repayments -> [Installments -> Nat]]
         /\ allocation'[r] = share /\ \A p \in Repayments : p # r => allocation'[p] = allocation[p]
    BY <1>1, <1>2 DEF SoundInv
  <2>12. \A i \in Installments : share[i] = Share(r, i)
    OBVIOUS
  <2> HIDE DEF share, amount
  <2>13. loan'.amountPaid = SumFunctionOnSet(Credit', Repayments)
    <3>1. \A p \in Repayments : Credit[p] \in Int /\ Credit'[p] \in Int
      <4>1. \A p \in Repayments : payment[p].amount \in Nat
        BY <1>2 DEF Creators, PaymentRow
      <4>2. \A p \in Repayments : payment'[p].amount \in Nat
        BY <1>2, <2>9, <2>10, <4>1
      <4> QED BY <4>1, <4>2 DEF Credit
    <3>2. \A p \in Repayments \ {r} : Credit'[p] = Credit[p]
      BY <2>10 DEF Credit
    <3>3. Credit[r] = 0 /\ Credit'[r] = amount
      BY <1>1, <2>9 DEF Credit
    <3>4. SumFunctionOnSet(Credit', Repayments) = SumFunctionOnSet(Credit, Repayments) + (Credit'[r] - Credit[r])
      BY <1>1, <3>1, <3>2, SumChanges, RequestsAssumption
    <3>5. amount - 0 = amount
      BY <1>2
    <3> QED BY <2>2, <2>4, <3>3, <3>4, <3>5 DEF Books
  <2>14. ASSUME NEW i \in Installments PROVE inst'[i].paid = SumFunctionOnSet(Part(i)', Repayments)
    <3> DEFINE f == Part(i)
               g == Part(i)'
    <3>1. \A p \in Repayments : f[p] \in Int /\ g[p] \in Int
      <4>1. \A p \in Repayments : allocation[p][i] \in Nat
        BY <2>11
      <4>2. \A p \in Repayments : allocation'[p][i] \in Nat
        BY <1>5, <2>11, <2>12, <4>1
      <4> QED BY <4>1, <4>2 DEF Part
    <3>2. \A p \in Repayments \ {r} : g[p] = f[p]
      BY <2>10, <2>11 DEF Part
    <3>3. f[r] = 0 /\ g[r] = Share(r, i)
      BY <1>1, <2>9, <2>11, <2>12 DEF Part
    <3>4. SumFunctionOnSet(f, Repayments) = inst[i].paid
      BY <2>2 DEF Books
    <3> HIDE DEF f, g
    <3>5. SumFunctionOnSet(g, Repayments) = SumFunctionOnSet(f, Repayments) + (g[r] - f[r])
      BY <1>1, <3>1, <3>2, SumChanges, RequestsAssumption
    <3>6. Share(r, i) - 0 = Share(r, i)
      BY <1>5
    <3> QED BY <2>5, <2>7, <3>3, <3>4, <3>5, <3>6 DEF g
  <2>15. loan'.amountPaid = SumFunctionOnSet(Paid', Installments)
    <3>1. \A i \in Installments : /\ Paid[i] \in Int /\ share[i] \in Int
                                  /\ Paid'[i] = Paid[i] + share[i]
      BY <1>5, <2>5, <2>7, <2>8, <2>12 DEF Paid
    <3>2. SumFunctionOnSet(Paid', Installments)
             = SumFunctionOnSet(Paid, Installments) + SumFunctionOnSet(share, Installments)
      BY <3>1, SumPlus, ScheduleAssumption
    <3> QED BY <2>2, <2>3, <2>4, <3>2 DEF Books
  <2>16. ASSUME NEW p \in Repayments, Standing(p)'
         PROVE  payment'[p].amount = SumFunctionOnSet(allocation'[p], Installments)
    BY <2>2, <2>3, <2>9, <2>10, <2>11, <2>16 DEF Books
  <2>17. \A i \in Installments : inst'[i].status = "paid" => inst'[i].paid = Due[i]
    BY <2>6, <2>7
  <2>18. Books'
    BY <2>13, <2>14, <2>15, <2>16, <2>17 DEF Books
  <2>19. PaidOutOnce'
    BY <1>1, <2>2, <2>4, <2>10, RequestsAssumption DEF PaidOutOnce
  <2>20. ~overpaid'
    <3>1. loan.amountPaid + loan.balance = TotalRepayable /\ loan.amountPaid \in Nat /\ loan.balance \in Nat
      BY <1>2, <2>2, TotalIsNat DEF ColumnsAgree, LoanRow
    <3>2. \A a, b, c \in Nat : c <= b => ~(a + c > a + b)
      OBVIOUS
    <3>3. ~(loan.amountPaid + amount > TotalRepayable)
      BY <1>2, <2>2, <3>1, <3>2
    <3> QED BY <1>1, <2>1, <2>2, <3>3
  <2> QED BY <2>18, <2>19, <2>20
<1> QED BY <1>1, <1>2, <1>6, <1>7, AloneEnds

LEMMA MonusExact ==
    ASSUME NEW a \in Nat, NEW b \in Nat, b <= a
    PROVE  Monus(a, b) = a - b /\ Monus(a, b) + b = a
BY DEF Monus

(* What of a repayment is credited: everything that stands is on the books. *)
LEMMA OnTheBooks ==
    ASSUME SoundInv, Books, NEW p \in Repayments, Standing(p)
    PROVE  /\ payment[p].amount \in Nat /\ loan.amountPaid \in Nat
           /\ payment[p].amount <= loan.amountPaid
           /\ \A i \in Installments : allocation[p][i] \in Nat /\ allocation[p][i] <= inst[i].paid
<1>1. payment \in [Creators -> PaymentRow] /\ allocation \in [Repayments -> [Installments -> Nat]] /\ loan \in LoanRow
  BY SoundRowsHold DEF SoundInv
<1>2. \A q \in Repayments : payment[q].amount \in Nat
  BY <1>1 DEF Creators, PaymentRow
<1>3. \A q \in Repayments : Credit[q] \in Nat
  BY <1>2 DEF Credit
<1>4. Credit[p] <= SumFunctionOnSet(Credit, Repayments)
  BY <1>3, SummandFits, RequestsAssumption
<1>5. Credit[p] = payment[p].amount
  BY DEF Credit
<1>6. ASSUME NEW i \in Installments PROVE allocation[p][i] \in Nat /\ allocation[p][i] <= inst[i].paid
  <2> DEFINE f == Part(i)
  <2>1. \A q \in Repayments : f[q] \in Nat
    BY <1>1 DEF Part
  <2>2. f[p] = allocation[p][i]
    BY DEF Part
  <2>3. SumFunctionOnSet(f, Repayments) = inst[i].paid
    BY DEF Books
  <2> HIDE DEF f
  <2>4. f[p] <= SumFunctionOnSet(f, Repayments)
    BY <2>1, SummandFits, RequestsAssumption
  <2> QED BY <1>1, <2>2, <2>3, <2>4
<1>7. loan.amountPaid \in Nat
  BY <1>1 DEF LoanRow
<1> QED BY <1>2, <1>4, <1>5, <1>6, <1>7 DEF Books

(* What a reversal takes from an installment.                              *)
LEMMA TakenBackAlone ==
    ASSUME AllInv, AloneInv, ~overlapped, NEW r \in Requests, Stage(r) = "loaded",
           session[r].target \in Repayments, Standing(session[r].target), NEW i \in Installments
    PROVE  /\ TakenBack(r, i).paid + allocation[session[r].target][i] = inst[i].paid
           /\ TakenBack(r, i).paid = inst[i].paid - allocation[session[r].target][i]
           /\ TakenBack(r, i).status = "paid" => TakenBack(r, i).paid = Due[i]
<1> DEFINE share == allocation[session[r].target][i]
           n == Monus(inst[i].paid, share)
<1>1. SoundInv /\ Books /\ session[r].view.inst = inst
  BY CurrentView DEF AllInv, AloneInv, Begun
<1>2. share \in Nat /\ share <= inst[i].paid
  BY <1>1, OnTheBooks
<1>3. inst[i].paid \in Nat /\ inst[i].paid <= Due[i]
  BY <1>1, ViewOf DEF Begun
<1>4. n = inst[i].paid - share /\ n + share = inst[i].paid
  BY <1>2, <1>3, MonusExact
<1>5. TakenBack(r, i).paid = n
  BY <1>1, TakenBackTyped
<1>6. TakenBack(r, i).status = "paid" => TakenBack(r, i).paid = Due[i]
  <2>1. CASE share = 0
    <3>1. TakenBack(r, i) = inst[i]
      BY <1>1, <2>1 DEF TakenBack
    <3> QED BY <1>1, <3>1 DEF Books
  <2>2. CASE share # 0
    <3>1. \A a, b, c, d \in Nat : a + b = c /\ b # 0 /\ c <= d => a < d
      OBVIOUS
    <3>2. n \in Nat
      BY <1>2, <1>3, MonusNat
    <3>3. n < Due[i]
      BY <1>2, <1>3, <1>4, <2>2, <3>1, <3>2, DueIsNat
    <3>4. TakenBack(r, i).status = IF n = 0 THEN "pending" ELSE IF n < Due[i] THEN "partial" ELSE inst[i].status
      BY <1>1, <2>2 DEF TakenBack
    <3> HIDE DEF n
    <3> QED BY <3>3, <3>4
  <2> QED BY <2>1, <2>2
<1> QED BY <1>4, <1>5, <1>6

(* One repayment changes what it adds to a sum.                            *)
LEMMA OneCreditChanges ==
    ASSUME NEW p \in Repayments, NEW f, NEW g,
           \A q \in Repayments : f[q] \in Int /\ g[q] \in Int,
           \A q \in Repayments \ {p} : g[q] = f[q]
    PROVE  SumFunctionOnSet(g, Repayments) = SumFunctionOnSet(f, Repayments) + (g[p] - f[p])
<1>1. IsFiniteSet(Repayments) /\ IsFiniteSet(Repayments \ {p})
  BY RequestsAssumption, FS_Subset
<1>2. SumFunctionOnSet(f, Repayments \ {p}) = SumFunctionOnSet(g, Repayments \ {p})
  BY <1>1, SumSame
<1>3. SumFunctionOnSet(f, Repayments) = f[p] + SumFunctionOnSet(f, Repayments \ {p})
  BY <1>1, SumTakesOut
<1>4. SumFunctionOnSet(g, Repayments) = g[p] + SumFunctionOnSet(g, Repayments \ {p})
  BY <1>1, SumTakesOut
<1>5. SumFunctionOnSet(f, Repayments \ {p}) \in Int
  BY <1>1, SumInt
<1>6. \A a, b, c \in Int : b + c = (a + c) + (b - a)
  OBVIOUS
<1> QED BY <1>2, <1>3, <1>4, <1>5, <1>6

LEMMA AloneReverse == ASSUME AllInv, AloneInv, NEW r \in Requests, ReverseLatest(r) PROVE AloneInv'
<1> DEFINE new == [i \in Installments |-> TakenBack(r, i)]
<1>0. PICK p \in Repayments : p = session[r].target
  BY ReverseRows DEF AllInv
<1>1. /\ Stage(r) = "loaded" /\ Finish(r) /\ UNCHANGED <<allocation, overlapped, overpaid>>
      /\ session[r].view.payment[p].status = "succeeded"
      /\ payment' = [payment EXCEPT ![p].status = "reversed"]
      /\ WriteInstallments(r, new)
  BY <1>0 DEF ReverseLatest, MayReverse
<1>2. SoundInv /\ KeysInv /\ p \in Repayments /\ Stage(r) \in Begun
  BY <1>1 DEF AllInv, Begun
<1>3. PICK row \in LoanRow :
         /\ loan' = Written(session[r].view.loan, row, loan)
         /\ row.amountPaid = Monus(session[r].view.loan.amountPaid, payment[p].amount)
         /\ row.status = IF session[r].view.loan.status = "completed" /\ row.balance > 0
                         THEN "active" ELSE session[r].view.loan.status
  BY <1>0, <1>2, ReverseRows
<1>4. loan \in LoanRow /\ payment \in [Creators -> PaymentRow]
      /\ allocation \in [Repayments -> [Installments -> Nat]]
  BY <1>2, ViewOf DEF SoundInv
<1>5. /\ \A q \in Creators : q # p => payment'[q] = payment[q]
      /\ payment'[p].status = "reversed" /\ payment'[p].amount = payment[p].amount
  <2>1. p \in Creators /\ payment[p] \in PaymentRow
    BY <1>2, <1>4 DEF Creators
  <2>2. payment'[p] = [payment[p] EXCEPT !.status = "reversed"] /\ \A q \in Creators : q # p => payment'[q] = payment[q]
    BY <1>1, <1>4, <2>1
  <2> QED BY <2>1, <2>2 DEF PaymentRow
<1>6. ASSUME ~overlapped PROVE (Books /\ PaidOutOnce)' /\ ~overpaid'
  <2>1. session[r].view.loan = loan /\ session[r].view.inst = inst /\ session[r].view.payment = payment
    BY <1>2, <1>6, CurrentView
  <2>2. Books /\ PaidOutOnce /\ ~overpaid
    BY <1>6 DEF AloneInv
  <2>3. Standing(p)
    BY <1>1, <2>1 DEF Standing
  <2>4. /\ payment[p].amount \in Nat /\ loan.amountPaid \in Nat /\ payment[p].amount <= loan.amountPaid
        /\ \A i \in Installments : allocation[p][i] \in Nat
    BY <1>2, <2>2, <2>3, OnTheBooks
  <2>5. loan'.amountPaid = loan.amountPaid - payment[p].amount
        /\ (loan'.status = "approved" => loan.status = "approved")
    <3>1. loan'.amountPaid = row.amountPaid /\ loan'.status = row.status
      BY <1>3, <1>4, <2>1, WrittenOver
    <3>2. row.amountPaid = loan.amountPaid - payment[p].amount
      BY <1>3, <2>1, <2>4, MonusExact
    <3> QED BY <1>3, <2>1, <3>1, <3>2
  <2>6. \A i \in Installments :
           /\ new[i] \in InstallmentRow /\ new[i].paid <= Due[i] /\ inst[i] \in InstallmentRow
    BY <1>0, <1>1, <1>2, <2>1, TakenBackTyped, ViewOf
  <2>7. \A i \in Installments :
           /\ new[i].paid + allocation[p][i] = inst[i].paid
           /\ new[i].paid = inst[i].paid - allocation[p][i]
           /\ new[i].status = "paid" => new[i].paid = Due[i]
    BY <1>1, <1>2, <1>6, <2>3, <1>0, TakenBackAlone
  <2> HIDE DEF new
  <2>8. \A i \in Installments : inst'[i].paid = new[i].paid /\ inst'[i].status = new[i].status
    <3>1. \A i \in Installments :
            /\ inst'[i].paid = IF new[i].paid = inst[i].paid THEN inst[i].paid ELSE new[i].paid
            /\ inst'[i].status = IF new[i].status = inst[i].status THEN inst[i].status ELSE new[i].status
      BY <1>1, <1>2, <2>1, <2>6, ScheduleWritten
    <3> QED BY <2>6, <3>1
  <2>9. \A i \in Installments : inst[i].paid \in Nat /\ new[i].paid \in Nat
    BY <2>6 DEF InstallmentRow
  <2>10. ~Standing(p)' /\ \A q \in Creators : q # p => Standing(q)' = Standing(q)
    BY <1>5 DEF Standing
  <2>11. loan'.amountPaid = SumFunctionOnSet(Credit', Repayments)
    <3>1. \A q \in Repayments : Credit[q] \in Int /\ Credit'[q] \in Int
      <4>1. \A q \in Repayments : payment[q].amount \in Nat
        BY <1>4 DEF Creators, PaymentRow
      <4>2. \A q \in Repayments : payment'[q].amount \in Nat
        BY <1>5, <4>1 DEF Creators
      <4> QED BY <4>1, <4>2 DEF Credit
    <3>2. \A q \in Repayments \ {p} : Credit'[q] = Credit[q]
      BY <1>5, <2>10 DEF Credit, Creators
    <3>3. Credit[p] = payment[p].amount /\ Credit'[p] = 0
      BY <1>2, <2>3, <2>10 DEF Credit
    <3>4. SumFunctionOnSet(Credit', Repayments) = SumFunctionOnSet(Credit, Repayments) + (Credit'[p] - Credit[p])
      BY <3>1, <3>2, SumChanges, RequestsAssumption
    <3>5. \A a, b \in Nat : a + (0 - b) = a - b
      OBVIOUS
    <3> QED BY <2>2, <2>4, <2>5, <3>3, <3>4, <3>5 DEF Books
  <2>12. ASSUME NEW i \in Installments PROVE inst'[i].paid = SumFunctionOnSet(Part(i)', Repayments)
    <3> DEFINE f == Part(i)
               g == Part(i)'
    <3>1. \A q \in Repayments : f[q] \in Int /\ g[q] \in Int
      <4>1. \A q \in Repayments : allocation[q][i] \in Nat /\ allocation'[q][i] \in Nat
        BY <1>1, <1>4
      <4> QED BY <4>1 DEF Part
    <3>2. \A q \in Repayments \ {p} : g[q] = f[q]
      BY <1>1, <2>10 DEF Part, Creators
    <3>3. f[p] = allocation[p][i] /\ g[p] = 0
      BY <1>2, <2>3, <2>10 DEF Part
    <3>4. SumFunctionOnSet(f, Repayments) = inst[i].paid
      BY <2>2 DEF Books
    <3> HIDE DEF f, g
    <3>5. SumFunctionOnSet(g, Repayments) = SumFunctionOnSet(f, Repayments) + (g[p] - f[p])
      BY <3>1, <3>2, OneCreditChanges
    <3>6. \A a, b \in Nat : a + (0 - b) = a - b
      OBVIOUS
    <3>7. inst'[i].paid = inst[i].paid - allocation[p][i]
      BY <2>7, <2>8
    <3>8. inst[i].paid \in Nat /\ allocation[p][i] \in Nat
      BY <2>4, <2>9
    <3>9. inst[i].paid + (0 - allocation[p][i]) = inst[i].paid - allocation[p][i]
      BY <3>6, <3>8
    <3> QED BY <3>3, <3>4, <3>5, <3>7, <3>9 DEF g
  <2>13. loan'.amountPaid = SumFunctionOnSet(Paid', Installments)
    <3> DEFINE back == allocation[p]
    <3>1. \A i \in Installments : /\ Paid'[i] \in Int /\ back[i] \in Int
                                  /\ Paid[i] = Paid'[i] + back[i]
      BY <2>4, <2>7, <2>8, <2>9 DEF Paid
    <3>2. SumFunctionOnSet(back, Installments) = payment[p].amount
      BY <1>2, <2>2, <2>3 DEF Books
    <3> HIDE DEF back
    <3>3. SumFunctionOnSet(Paid, Installments)
             = SumFunctionOnSet(Paid', Installments) + SumFunctionOnSet(back, Installments)
      BY <3>1, SumPlus, ScheduleAssumption
    <3>4. SumFunctionOnSet(Paid', Installments) \in Int
      BY <3>1, SumInt, ScheduleAssumption
    <3>5. \A a, b \in Nat, c \in Int : a = c + b => a - b = c
      OBVIOUS
    <3>6. loan.amountPaid = SumFunctionOnSet(Paid', Installments) + payment[p].amount
      BY <2>2, <3>2, <3>3 DEF Books
    <3> QED BY <2>4, <2>5, <3>4, <3>5, <3>6
  <2>14. ASSUME NEW q \in Repayments, Standing(q)'
         PROVE  payment'[q].amount = SumFunctionOnSet(allocation'[q], Installments)
    BY <1>1, <1>5, <2>2, <2>10, <2>14 DEF Books, Creators
  <2>15. \A i \in Installments : inst'[i].status = "paid" => inst'[i].paid = Due[i]
    BY <2>7, <2>8
  <2>16. Books'
    BY <2>11, <2>12, <2>13, <2>14, <2>15 DEF Books
  <2>17. \A q \in Disbursements : Standing(q)' = Standing(q)
    BY <1>2, <2>10, RequestsAssumption DEF Creators
  <2>18. PaidOutOnce'
    BY <2>2, <2>5, <2>17 DEF PaidOutOnce
  <2> QED BY <1>1, <2>2, <2>16, <2>18
<1> QED BY <1>1, <1>2, <1>6, AloneEnds

LEMMA AloneStep == AllInv /\ AloneInv /\ [Next]_vars => AloneInv'
<1> SUFFICES ASSUME AllInv, AloneInv, [Next]_vars PROVE AloneInv'
  OBVIOUS
<1>1. CASE UNCHANGED vars
  <2>1. UNCHANGED rows /\ overpaid' = overpaid /\ overlapped' = overlapped /\ session' = session
    BY <1>1 DEF vars, rows
  <2>2. IdentityMap' = IdentityMap /\ loan' = loan /\ inst' = inst
    BY <2>1 DEF IdentityMap, rows
  <2>3. OneAtATime => OneAtATime'
    BY <2>1, <2>2 DEF OneAtATime, Stage, OpenIn
  <2> QED BY <2>1, <2>3, BooksStay DEF AloneInv
<1> QED BY <1>1, AloneLoad, AloneDisburse, AloneNothing, AloneCheck, AlonePost, AloneCommit, AloneReverse
        DEF Next

(* The sums over the repayments that stand.                                *)
LEMMA SumOfStanding ==
    ASSUME NEW T, T \subseteq Repayments, NEW f, NEW g, \A q \in Repayments : f[q] \in Nat,
           \A q \in Repayments : g[q] = IF q \in T THEN f[q] ELSE 0
    PROVE  SumFunctionOnSet(g, Repayments) = SumFunctionOnSet(f, T)
<1>1. \A q \in Repayments : g[q] \in Int
  OBVIOUS
<1>2. \A q \in Repayments \ T : g[q] = 0
  OBVIOUS
<1>3. SumFunctionOnSet(g, Repayments) = SumFunctionOnSet(g, T)
  BY <1>1, <1>2, SumOnPart, RequestsAssumption
<1>4. IsFiniteSet(T) /\ \A q \in T : g[q] \in Int /\ g[q] = f[q]
  BY <1>1, FS_Subset, RequestsAssumption
<1>5. SumFunctionOnSet(g, T) = SumFunctionOnSet(f, T)
  BY <1>4, SumSame
<1> QED BY <1>3, <1>5

(* As long as no two requests have overlapped, the loan and its schedule   *)
(* are what the standing repayments make of them, nothing is credited      *)
(* beyond what is repayable and the loan is paid out once                  *)
(* (record_cash_repayment, disburse_cash_loan and                          *)
(* reverse_latest_cash_repayment, one after the other).                    *)
THEOREM AloneLoanAddsUp == Spec => []AloneLoanMatches
<1>1. ASSUME AllInv, AloneInv PROVE AloneLoanMatches
  <2> SUFFICES ASSUME ~overlapped PROVE
        LET standing == {p \in Repayments : Standing(p)}
        IN  /\ loan.amountPaid = SumFunctionOnSet([p \in Repayments |-> payment[p].amount], standing)
            /\ \A i \in Installments :
                  inst[i].paid = SumFunctionOnSet([p \in Repayments |-> allocation[p][i]], standing)
            /\ loan.amountPaid = SumFunctionOnSet([i \in Installments |-> inst[i].paid], Installments)
            /\ \A p, q \in Disbursements : Standing(p) /\ Standing(q) => p = q
            /\ ~overpaid
    BY DEF AloneLoanMatches
  <2> DEFINE standing == {p \in Repayments : Standing(p)}
  <2>1. Books /\ PaidOutOnce /\ ~overpaid
    BY <1>1 DEF AloneInv
  <2>2. payment \in [Creators -> PaymentRow] /\ allocation \in [Repayments -> [Installments -> Nat]]
    BY <1>1, SoundRowsHold DEF AllInv, SoundInv
  <2>3. loan.amountPaid = SumFunctionOnSet([p \in Repayments |-> payment[p].amount], standing)
    <3> DEFINE f == [p \in Repayments |-> payment[p].amount]
    <3>1. \A q \in Repayments : f[q] \in Nat
      BY <2>2 DEF Creators, PaymentRow
    <3>2. \A q \in Repayments : Credit[q] = IF q \in standing THEN f[q] ELSE 0
      BY DEF Credit
    <3>3. standing \subseteq Repayments
      OBVIOUS
    <3> HIDE DEF f, standing
    <3>4. SumFunctionOnSet(Credit, Repayments) = SumFunctionOnSet(f, standing)
      BY <3>1, <3>2, <3>3, SumOfStanding
    <3> QED BY <2>1, <3>4 DEF Books, f
  <2>4. ASSUME NEW i \in Installments
        PROVE  inst[i].paid = SumFunctionOnSet([p \in Repayments |-> allocation[p][i]], standing)
    <3> DEFINE f == [p \in Repayments |-> allocation[p][i]]
               g == Part(i)
    <3>1. \A q \in Repayments : f[q] \in Nat
      BY <2>2
    <3>2. \A q \in Repayments : g[q] = IF q \in standing THEN f[q] ELSE 0
      BY DEF Part
    <3>3. standing \subseteq Repayments /\ inst[i].paid = SumFunctionOnSet(g, Repayments)
      BY <2>1 DEF Books
    <3> HIDE DEF f, g, standing
    <3>4. SumFunctionOnSet(g, Repayments) = SumFunctionOnSet(f, standing)
      BY <3>1, <3>2, <3>3, SumOfStanding
    <3> QED BY <3>3, <3>4 DEF f
  <2>5. loan.amountPaid = SumFunctionOnSet([i \in Installments |-> inst[i].paid], Installments)
    BY <2>1 DEF Books, Paid
  <2> QED BY <2>1, <2>3, <2>4, <2>5 DEF PaidOutOnce
<1>2. KeysInv /\ SoundInv /\ AddsInv <=> AllInv
  BY DEF AllInv
<1> QED BY KeysInit, KeysStep, SoundInit, SoundStep, AddsInit, AddsStep, AloneInit, AloneStep, <1>1, <1>2,
        PTL DEF Spec
=============================================================================
