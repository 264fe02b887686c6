------------------------ MODULE LoanPayments_proofs -------------------------
(* Theorems about LoanPayments, for every set of payments, adjustments and *)
(* users and every schedule.  The last four suppose an orderly gateway,    *)
(* the others none.                                                        *)
EXTENDS LoanPayments, FiniteSums_proofs, TLAPS

LedgerTypeOK ==
    /\ loan \in [status : {"approved", "active", "completed"}, amountPaid : Nat, balance : Nat]
    /\ paid \in [Installments -> Nat]
    /\ payment \in [Payments -> PaymentRow]
    /\ allocation \in [Payments -> [Installments -> Nat]]
    /\ journal \in [Payments -> {"none", "posted", "reversed"}]
    /\ treasury \in [Payments -> {"none", "posted", "voided"}]

LEMMA MonusType == ASSUME NEW a \in Nat, NEW b \in Nat PROVE Monus(a, b) \in Nat
BY DEF Monus

LEMMA MarkType ==
    ASSUME TypeOK, NEW p \in Payments, NEW status \in PaymentStatus, NEW day \in Nat,
           Mark(p, status, day)
    PROVE  payment' \in [Payments -> PaymentRow]
<1> DEFINE row == [payment[p] EXCEPT !.status = status, !.day = day, !.pending = FALSE]
<1>1. row \in PaymentRow
  <2>1. PICK r \in PaymentRow : payment[p] = r
    BY DEF TypeOK
  <2>2. [r EXCEPT !.status = status, !.day = day, !.pending = FALSE] \in PaymentRow
    BY DEF PaymentRow
  <2>3. QED
    BY <2>1, <2>2
<1>2. payment' = [payment EXCEPT ![p] = row]
  BY DEF Mark
<1>3. QED
  BY <1>1, <1>2 DEF TypeOK

LEMMA RowType == ASSUME TypeOK, NEW p \in Payments
    PROVE payment[p].status \in PaymentStatus /\ payment[p].day \in Nat /\ payment[p].amount \in Nat
BY DEF TypeOK, PaymentRow

LEMMA DecidedAdjustmentType ==
    ASSUME NEW r \in AdjustmentRow, r.status # "absent",
           NEW status \in ActiveAdjustment \cup {"rejected"}
    PROVE  /\ r.payment \in Payments
           /\ [r EXCEPT !.status = status] \in AdjustmentRow
<1> r \in [status : ActiveAdjustment \cup {"rejected"}, payment : Payments,
           kind : {"reversal", "chargeback"}, maker : Users]
  BY DEF AdjustmentRow, NoAdjustment
<1> QED
  BY DEF AdjustmentRow

LEMMA EventType ==
    ASSUME TypeOK, NEW p \in Payments, NEW s \in {"processing", "succeeded", "failed", "reversed"},
           Enter(p, s)
    PROVE  /\ (gateway \in [Payments -> {"none", "processing", "succeeded", "failed", "reversed"}])'
           /\ (sent \subseteq WebhookEvent)' /\ sent \subseteq sent'
<1>1. [payment |-> p, status |-> s] \in WebhookEvent
  BY DEF WebhookEvent
<1>2. QED
  BY <1>1 DEF Enter, TypeOK

LEMMA DayType == TypeOK => today \in Nat
BY AmountsAssumption DEF TypeOK

(* What the shared ledger operators leave behind is well typed.            *)
LEMMA AllocateType ==
    ASSUME TypeOK, NEW p \in Payments, NEW amount \in Nat, AllocateRepayment(p, amount)
    PROVE  /\ loan' \in [status : {"approved", "active", "completed"}, amountPaid : Nat, balance : Nat]
           /\ paid' \in [Installments -> Nat]
           /\ allocation' \in [Payments -> [Installments -> Nat]]
<1>1. PICK share \in [Installments -> 0 .. amount] :
        /\ paid' = [i \in Installments |-> paid[i] + share[i]]
        /\ allocation' = [allocation EXCEPT ![p] = share]
        /\ loan' = [status |-> IF Monus(TotalRepayable, loan.amountPaid + amount) = 0
                               THEN "completed" ELSE loan.status,
                    amountPaid |-> loan.amountPaid + amount,
                    balance |-> Monus(TotalRepayable, loan.amountPaid + amount)]
  BY DEF AllocateRepayment
<1>2. share \in [Installments -> Nat]
  OBVIOUS
<1>3. loan.amountPaid + amount \in Nat
  BY DEF TypeOK
<1>4. Monus(TotalRepayable, loan.amountPaid + amount) \in Nat
  BY <1>3, AmountsAssumption, MonusType
<1>5. QED
  BY <1>1, <1>2, <1>3, <1>4 DEF TypeOK

LEMMA FinalizeLoanType ==
    ASSUME TypeOK, NEW p \in Payments, NEW purpose, NEW amount \in Nat,
           FinalizeLoanPayment(p, purpose, amount)
    PROVE  /\ loan' \in [status : {"approved", "active", "completed"}, amountPaid : Nat, balance : Nat]
           /\ paid' \in [Installments -> Nat]
           /\ allocation' \in [Payments -> [Installments -> Nat]]
<1>1. CASE AllocateRepayment(p, amount)
  BY <1>1, AllocateType
<1>2. CASE loan' = [loan EXCEPT !.status = "active"] /\ UNCHANGED <<paid, allocation>>
  BY <1>2 DEF TypeOK
<1>3. CASE UNCHANGED <<loan, paid, allocation>>
  BY <1>3 DEF TypeOK
<1>4. QED
  BY <1>1, <1>2, <1>3 DEF FinalizeLoanPayment

LEMMA PostBooksType ==
    ASSUME TypeOK, NEW p \in Payments, PostBooks(p)
    PROVE  /\ journal' \in [Payments -> {"none", "posted", "reversed"}]
           /\ treasury' \in [Payments -> {"none", "posted", "voided"}]
BY DEF TypeOK, PostBooks

LEMMA FinalizeGatewayType ==
    ASSUME TypeOK, NEW p \in Payments, FinalizeGatewayPayment(p)
    PROVE  LedgerTypeOK'
<1>1. payment[p].amount \in Nat
  BY DEF TypeOK, PaymentRow
<1>2. payment' \in [Payments -> PaymentRow]
  BY DayType, MarkType DEF FinalizeGatewayPayment, PaymentStatus
<1>3. FinalizeLoanPayment(p, payment[p].purpose, payment[p].amount) /\ PostBooks(p)
  BY DEF FinalizeGatewayPayment
<1>4. QED
  BY <1>1, <1>2, <1>3, FinalizeLoanType, PostBooksType DEF LedgerTypeOK

LEMMA ReverseLoanType ==
    ASSUME TypeOK, NEW p \in Payments, ReverseLoanPayment(p)
    PROVE  /\ loan' \in [status : {"approved", "active", "completed"}, amountPaid : Nat, balance : Nat]
           /\ paid' \in [Installments -> Nat]
<1>1. CASE payment[p].purpose = "repayment"
  <2> DEFINE nowPaid == Monus(loan.amountPaid, payment[p].amount)
             balance == Monus(TotalRepayable, nowPaid)
  <2>1. nowPaid \in Nat
    <3>1. loan.amountPaid \in Nat /\ payment[p].amount \in Nat
      BY DEF TypeOK, PaymentRow
    <3>2. QED
      BY <3>1, MonusType
  <2>2. balance \in Nat
    BY <2>1, AmountsAssumption, MonusType
  <2>3. ASSUME NEW i \in Installments PROVE Monus(paid[i], allocation[p][i]) \in Nat
    <3>1. paid[i] \in Nat /\ allocation[p][i] \in Nat
      BY DEF TypeOK
    <3>2. QED
      BY <3>1, MonusType
  <2>4. /\ paid' = [i \in Installments |-> Monus(paid[i], allocation[p][i])]
        /\ loan' = [status |-> IF loan.status = "completed" /\ balance > 0
                               THEN "active" ELSE loan.status,
                    amountPaid |-> nowPaid, balance |-> balance]
    BY <1>1 DEF ReverseLoanPayment
  <2>5. QED
    BY <2>1, <2>2, <2>3, <2>4 DEF TypeOK
<1>2. CASE payment[p].purpose = "disbursement"
  BY <1>2 DEF ReverseLoanPayment, TypeOK
<1>3. QED
  BY <1>1, <1>2 DEF ReverseLoanPayment

LEMMA ReverseType ==
    ASSUME TypeOK, NEW p \in Payments, ReversePayment(p)
    PROVE  LedgerTypeOK'
<1>1. journal' \in [Payments -> {"none", "posted", "reversed"}]
  BY DEF ReversePayment, ReverseJournal, TypeOK
<1>2. payment' \in [Payments -> PaymentRow]
  BY DayType, MarkType DEF ReversePayment, PaymentStatus
<1>3. ReverseLoanPayment(p) /\ UNCHANGED <<allocation, treasury>>
  BY DEF ReversePayment
<1>4. QED
  BY <1>1, <1>2, <1>3, ReverseLoanType DEF LedgerTypeOK, TypeOK

LEMMA CreateSucceededType ==
    ASSUME TypeOK, NEW p \in Payments, NEW purpose \in {"disbursement", "repayment"},
           NEW amount \in Nat, NEW day \in Nat, CreateSucceeded(p, purpose, amount, day)
    PROVE  LedgerTypeOK'
<1>1. payment' \in [Payments -> PaymentRow]
  BY DEF CreateSucceeded, TypeOK, PaymentRow, PaymentStatus
<1>2. FinalizeLoanPayment(p, purpose, amount) /\ PostBooks(p)
  BY DEF CreateSucceeded
<1>3. QED
  BY <1>1, <1>2, FinalizeLoanType, PostBooksType DEF LedgerTypeOK

LEMMA CreateProcessingType ==
    ASSUME TypeOK, NEW p \in Payments, NEW purpose \in {"disbursement", "repayment"},
           NEW amount \in Nat, CreateProcessing(p, purpose, amount)
    PROVE  LedgerTypeOK'
<1>1. Never \in Nat
  BY AmountsAssumption DEF Never
<1>2. payment' \in [Payments -> PaymentRow]
  BY <1>1 DEF CreateProcessing, TypeOK, PaymentRow, PaymentStatus
<1>3. QED
  BY <1>2 DEF CreateProcessing, LedgerTypeOK, TypeOK

LEMMA ApplyType ==
    ASSUME TypeOK, NEW p \in Payments, NEW view \in PaymentStatus,
           NEW status \in {"processing", "succeeded", "failed", "reversed"},
           ApplyGatewayResource(p, view, status)
    PROVE  LedgerTypeOK' /\ adjustment' \in [Adjustments -> AdjustmentRow]
<1>1. CASE FinalizeGatewayPayment(p) /\ UNCHANGED adjustment
  BY <1>1, FinalizeGatewayType DEF TypeOK
<1>2. CASE ReversePayment(p) /\ CompleteAdjustments(p)
  <2>1. adjustment' \in [Adjustments -> AdjustmentRow]
    <3>1. ASSUME NEW a \in Adjustments,
                 adjustment[a].status \in {"processing", "under_investigation"}
          PROVE  [adjustment[a] EXCEPT !.status = "completed"] \in AdjustmentRow
      BY <3>1, DecidedAdjustmentType DEF TypeOK, ActiveAdjustment
    <3>2. QED
      BY <1>2, <3>1 DEF CompleteAdjustments, TypeOK
  <2>2. QED
    BY <1>2, <2>1, ReverseType
<1>3. CASE /\ Mark(p, payment[p].status, payment[p].day)
           /\ UNCHANGED <<loan, paid, allocation, journal, treasury, adjustment>>
  <2>1. payment' \in [Payments -> PaymentRow]
    BY <1>3, RowType, MarkType
  <2>2. QED
    BY <1>3, <2>1 DEF LedgerTypeOK, TypeOK
<1>4. CASE /\ Mark(p, IF status = view THEN payment[p].status ELSE status, payment[p].day)
           /\ UNCHANGED <<loan, paid, allocation, journal, treasury, adjustment>>
  <2>1. payment[p].status \in PaymentStatus /\ payment[p].day \in Nat
    BY DEF TypeOK, PaymentRow
  <2>2. (IF status = view THEN payment[p].status ELSE status) \in PaymentStatus
    BY <2>1 DEF PaymentStatus
  <2>3. payment' \in [Payments -> PaymentRow]
    BY <1>4, <2>1, <2>2, MarkType
  <2>4. QED
    BY <1>4, <2>3 DEF LedgerTypeOK, TypeOK
<1>5. QED
  BY <1>1, <1>2, <1>3, <1>4 DEF ApplyGatewayResource

(* The rest of the state, when the ledger is known to be well typed.       *)
LEMMA CompleteTypeOK ==
    ASSUME LedgerTypeOK', (adjustment \in [Adjustments -> AdjustmentRow])',
           (today \in 0 .. LastDay)',
           (call \in [Payments -> {"none", "calling"} \cup Answers])',
           (refresh \in [Payments -> RefreshRequest])',
           (gateway \in [Payments -> {"none", "processing", "succeeded", "failed", "reversed"}])',
           (sent \subseteq WebhookEvent)', (recorded \subseteq sent)'
    PROVE  TypeOK'
BY DEF TypeOK, LedgerTypeOK

LEMMA PaymentStepType ==
    ASSUME TypeOK, NEW p \in Payments, PaymentStep(p)
    PROVE  TypeOK'
<1>1. CASE DisburseCash(p)
  <2>1. CreateSucceeded(p, "disbursement", Principal, today)
    BY <1>1 DEF DisburseCash
  <2>2. LedgerTypeOK'
    BY <2>1, AmountsAssumption, DayType, CreateSucceededType
  <2>3. QED
    BY <2>1, <2>2, CompleteTypeOK DEF CreateSucceeded, TypeOK
<1>2. CASE DisburseByGateway(p)
  <2>1. CreateProcessing(p, "disbursement", Principal)
    BY <1>2 DEF DisburseByGateway
  <2>2. LedgerTypeOK'
    BY <2>1, AmountsAssumption, CreateProcessingType
  <2>3. QED
    BY <2>1, <2>2, CompleteTypeOK DEF CreateProcessing, TypeOK
<1>3. ASSUME NEW t \in Tenders, NEW g \in BOOLEAN, NEW d \in 0 .. LastDay,
             RecordCashRepayment(p, t, g, d)
      PROVE  TypeOK'
  <2>1. PICK applied \in 1 .. t : CreateSucceeded(p, "repayment", applied, d)
    BY <1>3 DEF RecordCashRepayment
  <2>2. LedgerTypeOK'
    <3>1. applied \in Nat /\ d \in Nat
      BY AmountsAssumption
    <3>2. QED
      BY <2>1, <3>1, CreateSucceededType
  <2>3. QED
    BY <2>1, <2>2, CompleteTypeOK DEF CreateSucceeded, TypeOK
<1>4. ASSUME NEW t \in Tenders, StartGatewayRepayment(p, t)
      PROVE  TypeOK'
  <2>1. PICK applied \in 1 .. t : CreateProcessing(p, "repayment", applied)
    BY <1>4 DEF StartGatewayRepayment
  <2>2. LedgerTypeOK'
    <3>1. applied \in Nat
      BY AmountsAssumption
    <3>2. QED
      BY <2>1, <3>1, CreateProcessingType
  <2>3. QED
    BY <2>1, <2>2, CompleteTypeOK DEF CreateProcessing, TypeOK
<1>5. ASSUME NEW answer \in Answers, GatewayAnswers(p, answer)
      PROVE  TypeOK'
  <2>1. \/ Enter(p, "processing") \/ Enter(p, "succeeded") \/ Enter(p, "failed")
        \/ UNCHANGED externalVars
    BY <1>5 DEF GatewayAnswers, Answers
  <2>2. /\ (gateway \in [Payments -> {"none", "processing", "succeeded", "failed", "reversed"}])'
        /\ (sent \subseteq WebhookEvent)' /\ sent \subseteq sent'
    BY <2>1, EventType DEF externalVars, TypeOK
  <2>3. QED
    BY <1>5, <2>2 DEF GatewayAnswers, Answers, ledgerVars, TypeOK
<1>6. CASE GatewayMoves(p)
  <2>1. /\ (gateway \in [Payments -> {"none", "processing", "succeeded", "failed", "reversed"}])'
        /\ (sent \subseteq WebhookEvent)' /\ sent \subseteq sent'
    BY <1>6, EventType DEF GatewayMoves
  <2>2. QED
    BY <1>6, <2>1 DEF GatewayMoves, ledgerVars, TypeOK
<1>7. CASE FinishInitiation(p)
  <2>1. LedgerTypeOK'
    <3>1. CASE FinalizeGatewayPayment(p)
      BY <3>1, FinalizeGatewayType
    <3>2. CASE UNCHANGED ledgerVars
      BY <3>2 DEF ledgerVars, TypeOK, LedgerTypeOK
    <3>3. CASE /\ Mark(p, payment[p].status, payment[p].day) \/ Mark(p, "failed", payment[p].day)
               /\ UNCHANGED <<loan, paid, allocation, journal, treasury>>
      <4>1. "failed" \in PaymentStatus
        BY DEF PaymentStatus
      <4>2. QED
        BY <3>3, <4>1, RowType, MarkType DEF TypeOK, LedgerTypeOK
    <3>4. CASE /\ payment' = [payment EXCEPT ![p].status = "failed"]
               /\ UNCHANGED <<loan, paid, allocation, journal, treasury>>
      <4>1. PICK r \in PaymentRow : payment[p] = r
        BY DEF TypeOK
      <4>2. [r EXCEPT !.status = "failed"] \in PaymentRow
        BY DEF PaymentRow, PaymentStatus
      <4>3. payment' = [payment EXCEPT ![p] = [r EXCEPT !.status = "failed"]]
        BY <3>4, <4>1
      <4>4. payment' \in [Payments -> PaymentRow]
        BY <4>2, <4>3 DEF TypeOK
      <4>5. QED
        BY <3>4, <4>4 DEF TypeOK, LedgerTypeOK
    <3>5. QED
      BY <1>7, <3>1, <3>2, <3>3, <3>4 DEF FinishInitiation
  <2>2. QED
    BY <1>7, <2>1, CompleteTypeOK DEF FinishInitiation, TypeOK
<1>8. CASE CrashInitiation(p)
  BY <1>8 DEF CrashInitiation, ledgerVars, TypeOK
<1>9. CASE RefreshLoad(p)
  <2>1. refresh' \in [Payments -> RefreshRequest]
    BY <1>9 DEF RefreshLoad, TypeOK, RefreshRequest, PaymentRow
  <2>2. QED
    BY <1>9, <2>1 DEF RefreshLoad, ledgerVars, TypeOK
<1>10. CASE RefreshAnswer(p)
  <2>1. refresh' \in [Payments -> RefreshRequest]
    BY <1>10 DEF RefreshAnswer, TypeOK, RefreshRequest, NoRefresh
  <2>2. QED
    BY <1>10, <2>1 DEF RefreshAnswer, ledgerVars, TypeOK
<1>11. CASE RefreshApply(p)
  <2>1. /\ refresh[p].view \in PaymentStatus
        /\ refresh[p].answer \in {"processing", "succeeded", "failed", "reversed"}
    BY <1>11 DEF RefreshApply, TypeOK, RefreshRequest, NoRefresh
  <2>2. LedgerTypeOK' /\ adjustment' \in [Adjustments -> AdjustmentRow]
    <3>1. CASE ApplyGatewayResource(p, refresh[p].view, refresh[p].answer)
      BY <2>1, <3>1, ApplyType
    <3>2. CASE UNCHANGED <<ledgerVars, adjustment>>
      BY <3>2 DEF ledgerVars, TypeOK, LedgerTypeOK
    <3>3. QED
      BY <1>11, <3>1, <3>2 DEF RefreshApply
  <2>3. refresh' \in [Payments -> RefreshRequest]
    BY <1>11 DEF RefreshApply, TypeOK, RefreshRequest
  <2>4. QED
    BY <1>11, <2>2, <2>3, CompleteTypeOK DEF RefreshApply, TypeOK
<1>12. CASE ReverseLatestCashRepayment(p)
  <2>1. payment' \in [Payments -> PaymentRow]
    <3>1. payment[p].day \in Nat
      BY DEF TypeOK, PaymentRow
    <3>2. QED
      BY <1>12, <3>1, MarkType DEF ReverseLatestCashRepayment, PaymentStatus
  <2>2. LedgerTypeOK'
    BY <1>12, <2>1, ReverseLoanType
    DEF ReverseLatestCashRepayment, ReverseJournal, TypeOK, LedgerTypeOK
  <2>3. QED
    BY <1>12, <2>2, CompleteTypeOK DEF ReverseLatestCashRepayment, TypeOK
<1>13. QED
  BY <1>1, <1>2, <1>3, <1>4, <1>5, <1>6, <1>7, <1>8, <1>9, <1>10, <1>11, <1>12
  DEF PaymentStep

LEMMA AdjustmentStepType ==
    ASSUME TypeOK, NEW a \in Adjustments, AdjustmentStep(a)
    PROVE  TypeOK'
<1>1. ASSUME NEW p \in Payments, NEW kind \in {"reversal", "chargeback"}, NEW u \in Users,
             RequestAdjustment(a, p, kind, u)
      PROVE  TypeOK'
  <2>1. adjustment' \in [Adjustments -> AdjustmentRow]
    BY <1>1 DEF RequestAdjustment, TypeOK, AdjustmentRow, ActiveAdjustment
  <2>2. QED
    BY <1>1, <2>1 DEF RequestAdjustment, ledgerVars, TypeOK
<1>2. ASSUME NEW u \in Users, ApproveAdjustment(a, u)
      PROVE  TypeOK'
  <2>1. adjustment[a].payment \in Payments
    BY <1>2 DEF ApproveAdjustment, TypeOK, AdjustmentRow, NoAdjustment
  <2>2. adjustment' \in [Adjustments -> AdjustmentRow]
    <3>1. PICK status \in ActiveAdjustment \cup {"rejected"} :
               adjustment' = [adjustment EXCEPT ![a].status = status]
      BY <1>2 DEF ApproveAdjustment, ActiveAdjustment
    <3>2. [adjustment[a] EXCEPT !.status = status] \in AdjustmentRow
      BY <1>2, DecidedAdjustmentType DEF ApproveAdjustment, TypeOK
    <3>3. QED
      BY <3>1, <3>2 DEF TypeOK
  <2>3. LedgerTypeOK'
    <3>1. CASE ReversePayment(adjustment[a].payment)
      BY <2>1, <3>1, ReverseType
    <3>2. CASE UNCHANGED ledgerVars
      BY <3>2 DEF ledgerVars, TypeOK, LedgerTypeOK
    <3>3. QED
      BY <1>2, <3>1, <3>2 DEF ApproveAdjustment
  <2>4. QED
    BY <1>2, <2>2, <2>3, CompleteTypeOK DEF ApproveAdjustment, TypeOK
<1>3. ASSUME NEW u \in Users, RejectAdjustment(a, u)
      PROVE  TypeOK'
  <2>1. adjustment' \in [Adjustments -> AdjustmentRow]
    <3>1. PICK status \in ActiveAdjustment \cup {"rejected"} :
               adjustment' = [adjustment EXCEPT ![a].status = status]
      BY <1>3 DEF RejectAdjustment, ActiveAdjustment
    <3>2. [adjustment[a] EXCEPT !.status = status] \in AdjustmentRow
      BY <1>3, DecidedAdjustmentType DEF RejectAdjustment, TypeOK
    <3>3. QED
      BY <3>1, <3>2 DEF TypeOK
  <2>2. QED
    BY <1>3, <2>1 DEF RejectAdjustment, ledgerVars, TypeOK
<1>4. CASE ConfirmAdjustment(a)
  <2>1. adjustment[a].payment \in Payments
    BY <1>4 DEF ConfirmAdjustment, TypeOK, AdjustmentRow, NoAdjustment
  <2>2. adjustment' \in [Adjustments -> AdjustmentRow]
    <3>1. PICK status \in ActiveAdjustment \cup {"rejected"} :
               adjustment' = [adjustment EXCEPT ![a].status = status]
      BY <1>4 DEF ConfirmAdjustment, ActiveAdjustment
    <3>2. [adjustment[a] EXCEPT !.status = status] \in AdjustmentRow
      BY <1>4, DecidedAdjustmentType DEF ConfirmAdjustment, TypeOK
    <3>3. QED
      BY <3>1, <3>2 DEF TypeOK
  <2>3. LedgerTypeOK'
    BY <1>4, <2>1, ReverseType DEF ConfirmAdjustment
  <2>4. QED
    BY <1>4, <2>2, <2>3, CompleteTypeOK DEF ConfirmAdjustment, TypeOK
<1>5. QED
  BY <1>1, <1>2, <1>3, <1>4 DEF AdjustmentStep

LEMMA WebhookType ==
    ASSUME TypeOK, NEW e \in sent, ProcessGatewayWebhook(e)
    PROVE  TypeOK'
<1>1. /\ e.payment \in Payments
      /\ e.status \in {"processing", "succeeded", "failed", "reversed"}
      /\ payment[e.payment].status \in PaymentStatus
  BY DEF TypeOK, WebhookEvent, PaymentRow
<1>2. LedgerTypeOK' /\ adjustment' \in [Adjustments -> AdjustmentRow]
  BY <1>1, ApplyType DEF ProcessGatewayWebhook
<1>3. QED
  BY <1>2, CompleteTypeOK DEF ProcessGatewayWebhook, TypeOK

LEMMA InitType == Init => TypeOK
BY AmountsAssumption
DEF Init, TypeOK, PaymentRow, PaymentStatus, NoPayment, Never, NoAdjustment, AdjustmentRow,
    NoRefresh, RefreshRequest

LEMMA NextType == TypeOK /\ [Next]_vars => TypeOK'
<1> SUFFICES ASSUME TypeOK, [Next]_vars PROVE TypeOK'
  OBVIOUS
<1>1. CASE \E p \in Payments : PaymentStep(p)
  BY <1>1, PaymentStepType
<1>2. CASE \E e \in sent : ProcessGatewayWebhook(e)
  BY <1>2, WebhookType
<1>3. CASE \E a \in Adjustments : AdjustmentStep(a)
  BY <1>3, AdjustmentStepType
<1>4. CASE NextDay
  BY <1>4, AmountsAssumption DEF NextDay, ledgerVars, TypeOK
<1>5. CASE UNCHANGED vars
  BY <1>5 DEF vars, TypeOK
<1>6. QED
  BY <1>1, <1>2, <1>3, <1>4, <1>5 DEF Next

(* Every reachable state is well typed: amounts stay natural numbers       *)
(* through reversals and overpayments, and rows keep their shape.          *)
THEOREM TypeCorrect == Spec => []TypeOK
BY InitType, NextType, PTL DEF Spec

-----------------------------------------------------------------------------
(* No installment is overpaid.                                             *)

(* The steps that touch the schedule allocate a repayment or undo one.     *)
Allocates(p) == \E amount \in Nat : AllocateRepayment(p, amount)
Leaves == paid' = paid
MovesPaid == Leaves \/ \E p \in Payments : Allocates(p) \/ ReverseLoanPayment(p)

LEMMA FinalizeMoves ==
    ASSUME NEW p \in Payments, NEW purpose, NEW amount \in Nat,
           FinalizeLoanPayment(p, purpose, amount)
    PROVE  MovesPaid
BY DEF FinalizeLoanPayment, MovesPaid, Leaves, Allocates

LEMMA GatewayMovesPaid ==
    ASSUME TypeOK, NEW p \in Payments,
           FinalizeGatewayPayment(p) \/ ReversePayment(p) \/ UNCHANGED ledgerVars \/ paid' = paid
    PROVE  MovesPaid
<1>1. CASE FinalizeGatewayPayment(p)
  BY <1>1, RowType, FinalizeMoves DEF FinalizeGatewayPayment
<1>2. CASE ReversePayment(p)
  BY <1>2 DEF ReversePayment, MovesPaid
<1>3. CASE UNCHANGED ledgerVars \/ paid' = paid
  BY <1>3 DEF ledgerVars, MovesPaid, Leaves
<1> QED BY <1>1, <1>2, <1>3

LEMMA ApplyMoves ==
    ASSUME TypeOK, NEW p \in Payments, NEW view, NEW status, ApplyGatewayResource(p, view, status)
    PROVE  MovesPaid
BY GatewayMovesPaid DEF ApplyGatewayResource

LEMMA PaymentMoves ==
    ASSUME TypeOK, NEW p \in Payments, PaymentStep(p)
    PROVE  MovesPaid
<1>1. ASSUME NEW purpose, NEW amount \in Nat, NEW day, CreateSucceeded(p, purpose, amount, day)
      PROVE  MovesPaid
  BY <1>1, FinalizeMoves DEF CreateSucceeded
<1>2. CASE DisburseCash(p)
  BY <1>1, <1>2, AmountsAssumption DEF DisburseCash
<1>3. ASSUME NEW t \in Tenders, NEW g \in BOOLEAN, NEW d \in 0 .. LastDay,
             RecordCashRepayment(p, t, g, d)
      PROVE  MovesPaid
  <2>1. PICK applied \in 1 .. t : CreateSucceeded(p, "repayment", applied, d)
    BY <1>3 DEF RecordCashRepayment
  <2>2. applied \in Nat
    BY AmountsAssumption
  <2> QED BY <1>1, <2>1, <2>2
<1>4. CASE FinishInitiation(p)
  BY <1>4, GatewayMovesPaid DEF FinishInitiation
<1>5. CASE RefreshApply(p)
  <2>1. ApplyGatewayResource(p, refresh[p].view, refresh[p].answer) \/ UNCHANGED ledgerVars
    BY <1>5 DEF RefreshApply
  <2> QED BY <2>1, ApplyMoves, GatewayMovesPaid
<1>6. CASE ReverseLatestCashRepayment(p)
  BY <1>6 DEF ReverseLatestCashRepayment, MovesPaid
<1>7. CASE DisburseByGateway(p) \/ \E t \in Tenders : StartGatewayRepayment(p, t)
  BY <1>7 DEF DisburseByGateway, StartGatewayRepayment, CreateProcessing, MovesPaid, Leaves
<1>8. CASE \/ \E answer \in Answers : GatewayAnswers(p, answer)
           \/ GatewayMoves(p) \/ CrashInitiation(p) \/ RefreshLoad(p) \/ RefreshAnswer(p)
  <2>1. UNCHANGED ledgerVars
    BY <1>8 DEF GatewayAnswers, GatewayMoves, CrashInitiation, RefreshLoad, RefreshAnswer
  <2> QED BY <2>1, GatewayMovesPaid
<1> QED
  BY <1>2, <1>3, <1>4, <1>5, <1>6, <1>7, <1>8 DEF PaymentStep

LEMMA AdjustmentMoves ==
    ASSUME TypeOK, NEW a \in Adjustments, AdjustmentStep(a)
    PROVE  MovesPaid
<1>1. CASE \E p \in Payments, kind \in {"reversal", "chargeback"}, u \in Users :
             RequestAdjustment(a, p, kind, u)
  BY <1>1 DEF RequestAdjustment, ledgerVars, MovesPaid, Leaves
<1>2. ASSUME NEW u \in Users, ApproveAdjustment(a, u)
      PROVE  MovesPaid
  <2>1. adjustment[a].payment \in Payments
    BY <1>2 DEF ApproveAdjustment, TypeOK, AdjustmentRow, NoAdjustment
  <2>2. ReversePayment(adjustment[a].payment) \/ UNCHANGED ledgerVars
    BY <1>2 DEF ApproveAdjustment
  <2> QED BY <2>1, <2>2, GatewayMovesPaid
<1>3. ASSUME NEW u \in Users, RejectAdjustment(a, u)
      PROVE  MovesPaid
  BY <1>3 DEF RejectAdjustment, ledgerVars, MovesPaid, Leaves
<1>4. CASE ConfirmAdjustment(a)
  <2>1. adjustment[a].payment \in Payments
    BY <1>4 DEF ConfirmAdjustment, TypeOK, AdjustmentRow, NoAdjustment
  <2> QED BY <1>4, <2>1, GatewayMovesPaid DEF ConfirmAdjustment
<1> QED BY <1>1, <1>2, <1>3, <1>4 DEF AdjustmentStep

LEMMA StepMoves == TypeOK /\ [Next]_vars => MovesPaid
<1> SUFFICES ASSUME TypeOK, [Next]_vars PROVE MovesPaid
  OBVIOUS
<1>1. ASSUME NEW e \in sent, ProcessGatewayWebhook(e) PROVE MovesPaid
  <2>1. e.payment \in Payments
    BY DEF TypeOK, WebhookEvent
  <2> QED BY <1>1, <2>1, ApplyMoves DEF ProcessGatewayWebhook
<1>2. CASE NextDay \/ UNCHANGED vars
  BY <1>2 DEF NextDay, ledgerVars, vars, MovesPaid, Leaves
<1> QED BY <1>1, <1>2, PaymentMoves, AdjustmentMoves DEF Next

LEMMA OverallocatedStep == TypeOK /\ NeverOverallocated /\ [Next]_vars => NeverOverallocated'
<1> SUFFICES ASSUME TypeOK, NeverOverallocated, [Next]_vars, NEW i \in Installments
             PROVE  paid'[i] <= Due[i]
  BY DEF NeverOverallocated
<1>1. paid[i] \in Nat /\ Due[i] \in Nat /\ paid[i] <= Due[i]
  BY DueAssumption DEF TypeOK, NeverOverallocated
<1>2. ASSUME NEW p \in Payments, Allocates(p) PROVE paid'[i] <= Due[i]
  <2>1. PICK amount \in Nat : AllocateRepayment(p, amount)
    BY <1>2 DEF Allocates
  <2>2. PICK share \in [Installments -> 0 .. amount] :
          /\ paid' = [j \in Installments |-> paid[j] + share[j]]
          /\ share[i] <= Owed(i)
    BY <2>1 DEF AllocateRepayment, OldestFirst
  <2>3. share[i] \in Nat
    OBVIOUS
  <2> QED BY <1>1, <2>2, <2>3 DEF Owed, Monus
<1>3. ASSUME NEW p \in Payments, ReverseLoanPayment(p) PROVE paid'[i] <= Due[i]
  <2>1. allocation[p][i] \in Nat
    BY DEF TypeOK
  <2>2. paid'[i] = Monus(paid[i], allocation[p][i]) \/ paid' = paid
    BY <1>3 DEF ReverseLoanPayment
  <2> QED BY <1>1, <2>1, <2>2 DEF Monus
<1>4. CASE Leaves
  BY <1>1, <1>4 DEF Leaves
<1> QED BY <1>2, <1>3, <1>4, StepMoves DEF MovesPaid

(* Whatever is paid, reversed, delivered late or refreshed: no installment *)
(* ever counts more as paid than is due on it.                             *)
THEOREM NoInstallmentOverpaid == Spec => []NeverOverallocated
<1>1. Init => NeverOverallocated
  BY DueAssumption DEF Init, NeverOverallocated
<1> QED BY <1>1, InitType, NextType, OverallocatedStep, PTL DEF Spec

-----------------------------------------------------------------------------
(* Success means that the money moved.                                     *)
(*                                                                         *)
(* The invariant is not inductive by itself: what makes a payment succeed  *)
(* is an event, an answer or a refresh that was under way before.  So each *)
(* of those that says "succeeded" must already be evidence of it, and the  *)
(* evidence must last: a resource is created once, before which nothing is *)
(* known of the payment.                                                   *)
Evidence ==
    /\ \A e \in sent : e.status = "succeeded" => MoneyMoved(e.payment)
    /\ \A p \in Payments : call[p] = "succeeded" => MoneyMoved(p)
    /\ \A p \in Payments :
           refresh[p].stage = "answered" /\ refresh[p].answer = "succeeded" => MoneyMoved(p)

CreatedOnce ==
    \A p \in Payments :
        /\ payment[p].status = "absent" => call[p] = "none" /\ gateway[p] = "none"
        /\ call[p] = "calling" => gateway[p] = "none"

MoneyInv == Evidence /\ CreatedOnce /\ SuccessMeansMoneyMoved

LEMMA MarkedRow ==
    ASSUME TypeOK, NEW p \in Payments, NEW status, NEW day, Mark(p, status, day)
    PROVE  \A q \in Payments :
               /\ payment'[q].status = IF q = p THEN status ELSE payment[q].status
               /\ payment'[q].method = payment[q].method
               /\ payment'[q].purpose = payment[q].purpose
               /\ payment'[q].amount = payment[q].amount
BY DEF TypeOK, PaymentRow, Mark

(* Applying a status makes a payment succeed only on evidence, and makes   *)
(* no row disappear.                                                       *)
LEMMA ApplyMoney ==
    ASSUME TypeOK, SuccessMeansMoneyMoved, UNCHANGED gateway, NEW p \in Payments,
           NEW view \in PaymentStatus,
           NEW status \in {"processing", "succeeded", "failed", "reversed"},
           status = "succeeded" => MoneyMoved(p),
           ApplyGatewayResource(p, view, status)
    PROVE  /\ SuccessMeansMoneyMoved'
           /\ \A q \in Payments : payment'[q].status = "absent" => payment[q].status = "absent"
<1>1. \A q \in Payments : MoneyMoved(q)' <=> MoneyMoved(q)
  BY DEF MoneyMoved
<1>2. CASE status = "succeeded" /\ Mark(p, "succeeded", today)
  BY <1>1, <1>2, MarkedRow DEF SuccessMeansMoneyMoved
<1>3. CASE Mark(p, "reversed", today)
  BY <1>1, <1>3, MarkedRow DEF SuccessMeansMoneyMoved
<1>4. CASE Mark(p, payment[p].status, payment[p].day)
  BY <1>1, <1>4, MarkedRow DEF SuccessMeansMoneyMoved
<1>5. CASE /\ status # "succeeded"
           /\ Mark(p, IF status = view THEN payment[p].status ELSE status, payment[p].day)
  BY <1>1, <1>5, MarkedRow DEF SuccessMeansMoneyMoved
<1>6. QED
  BY <1>2, <1>3, <1>4, <1>5
  DEF ApplyGatewayResource, FinalizeGatewayPayment, ReversePayment

(* A step of the ledger that leaves the gateway and the requests alone and *)
(* lets payments succeed in cash only.                                     *)
LEMMA LocalMoney ==
    ASSUME MoneyInv, UNCHANGED <<call, refresh, gateway, sent>>, SuccessMeansMoneyMoved',
           \A q \in Payments : payment'[q].status = "absent" => payment[q].status = "absent"
    PROVE  MoneyInv'
BY DEF MoneyInv, Evidence, CreatedOnce, MoneyMoved

LEMMA ReverseMoney ==
    ASSUME TypeOK, MoneyInv, NEW p \in Payments, NEW day, Mark(p, "reversed", day),
           UNCHANGED <<call, refresh, gateway, sent>>
    PROVE  MoneyInv'
<1>1. SuccessMeansMoneyMoved'
  BY MarkedRow DEF MoneyInv, SuccessMeansMoneyMoved, MoneyMoved
<1>2. \A q \in Payments : payment'[q].status = "absent" => payment[q].status = "absent"
  BY MarkedRow
<1>3. QED
  BY <1>1, <1>2, LocalMoney

LEMMA CreateSucceededMoney ==
    ASSUME TypeOK, MoneyInv, NEW p \in Payments, NEW purpose, NEW amount, NEW day,
           CreateSucceeded(p, purpose, amount, day)
    PROVE  MoneyInv'
<1>1. payment' = [payment EXCEPT ![p] =
          [status |-> "succeeded", purpose |-> purpose, method |-> "cash",
           amount |-> amount, day |-> day, pending |-> FALSE]]
  BY DEF CreateSucceeded
<1>2. UNCHANGED <<call, refresh, gateway, sent>>
  BY DEF CreateSucceeded
<1>3. SuccessMeansMoneyMoved'
  BY <1>1, <1>2 DEF MoneyInv, SuccessMeansMoneyMoved, MoneyMoved, TypeOK
<1>4. \A q \in Payments : payment'[q].status = "absent" => payment[q].status = "absent"
  BY <1>1 DEF TypeOK
<1>5. QED
  BY <1>2, <1>3, <1>4, LocalMoney

LEMMA CreateProcessingMoney ==
    ASSUME TypeOK, MoneyInv, NEW p \in Payments, NEW purpose, NEW amount,
           CreateProcessing(p, purpose, amount)
    PROVE  MoneyInv'
<1>1. payment' = [payment EXCEPT ![p] =
          [status |-> "processing", purpose |-> purpose, method |-> "gateway",
           amount |-> amount, day |-> Never, pending |-> TRUE]]
  BY DEF CreateProcessing
<1>2. /\ payment[p].status = "absent" /\ call' = [call EXCEPT ![p] = "calling"]
      /\ UNCHANGED <<refresh, gateway, sent>>
  BY DEF CreateProcessing
<1>3. SuccessMeansMoneyMoved'
  BY <1>1, <1>2 DEF MoneyInv, SuccessMeansMoneyMoved, MoneyMoved, TypeOK
<1>4. CreatedOnce'
  BY <1>1, <1>2 DEF MoneyInv, CreatedOnce, TypeOK
<1>5. Evidence'
  BY <1>2 DEF MoneyInv, Evidence, MoneyMoved, TypeOK
<1>6. QED
  BY <1>3, <1>4, <1>5 DEF MoneyInv

(* The gateway moves a resource forward and says "succeeded" only of what  *)
(* has succeeded.                                                          *)
LEMMA EnterMoney ==
    ASSUME TypeOK, MoneyInv, NEW p \in Payments,
           NEW s \in {"processing", "succeeded", "failed", "reversed"},
           MoneyMoved(p) => s = "reversed", payment[p].status # "absent",
           UNCHANGED <<payment, refresh>>, Enter(p, s),
           \/ UNCHANGED call /\ call[p] # "calling"
           \/ call' = [call EXCEPT ![p] = s] /\ s \in {"processing", "succeeded", "failed"}
           \/ call' = [call EXCEPT ![p] = "timeout"]
    PROVE  MoneyInv'
<1>1. gateway' = [gateway EXCEPT ![p] = s] /\ sent' = sent \cup {[payment |-> p, status |-> s]}
  BY DEF Enter
<1>2. \A q \in Payments : MoneyMoved(q) => MoneyMoved(q)'
  BY <1>1 DEF MoneyMoved, TypeOK
<1>3. s = "succeeded" => MoneyMoved(p)'
  BY <1>1 DEF MoneyMoved, TypeOK
<1>4. ASSUME NEW e \in sent', e.status = "succeeded" PROVE MoneyMoved(e.payment)'
  <2>1. CASE e \in sent
    BY <1>2, <1>4, <2>1 DEF MoneyInv, Evidence, TypeOK, WebhookEvent
  <2>2. CASE e = [payment |-> p, status |-> s]
    BY <1>3, <1>4, <2>2
  <2>3. QED
    BY <1>1, <2>1, <2>2
<1>5. ASSUME NEW q \in Payments, call'[q] = "succeeded" PROVE MoneyMoved(q)'
  BY <1>2, <1>3, <1>5 DEF MoneyInv, Evidence, TypeOK
<1>6. Evidence'
  BY <1>2, <1>4, <1>5 DEF MoneyInv, Evidence
<1>7. CreatedOnce'
  BY <1>1 DEF MoneyInv, CreatedOnce, TypeOK
<1>8. SuccessMeansMoneyMoved'
  BY <1>2 DEF MoneyInv, SuccessMeansMoneyMoved
<1>9. QED
  BY <1>6, <1>7, <1>8 DEF MoneyInv

LEMMA RequestMoney ==
    ASSUME TypeOK, MoneyInv, UNCHANGED <<payment, gateway, sent>>,
           \A q \in Payments : call'[q] \in {call[q], "none", "rejected", "timeout"},
           \A q \in Payments : payment[q].status = "absent" => call'[q] = "none",
           \A q \in Payments : \/ refresh'[q] = refresh[q]
                               \/ refresh'[q] = NoRefresh
                               \/ refresh'[q].stage = "loaded"
                               \/ refresh'[q].answer = gateway[q]
    PROVE  MoneyInv'
<1>1. \A q \in Payments : MoneyMoved(q)' <=> MoneyMoved(q)
  BY DEF MoneyMoved
<1>2. Evidence'
  <2>1. \A e \in sent' : e.status = "succeeded" => MoneyMoved(e.payment)'
    BY <1>1 DEF MoneyInv, Evidence, TypeOK, WebhookEvent
  <2>2. \A q \in Payments : call'[q] = "succeeded" => MoneyMoved(q)'
    BY <1>1 DEF MoneyInv, Evidence
  <2>3. \A q \in Payments :
            refresh'[q].stage = "answered" /\ refresh'[q].answer = "succeeded" => MoneyMoved(q)'
    BY <1>1 DEF MoneyInv, Evidence, NoRefresh, MoneyMoved
  <2>4. QED
    BY <2>1, <2>2, <2>3 DEF Evidence
<1>3. CreatedOnce'
  BY DEF MoneyInv, CreatedOnce
<1>4. SuccessMeansMoneyMoved'
  BY <1>1 DEF MoneyInv, SuccessMeansMoneyMoved
<1>5. QED
  BY <1>2, <1>3, <1>4 DEF MoneyInv

LEMMA ApplyMoneyInv ==
    ASSUME TypeOK, MoneyInv, NEW p \in Payments, NEW view \in PaymentStatus,
           NEW status \in {"processing", "succeeded", "failed", "reversed"},
           status = "succeeded" => MoneyMoved(p),
           ApplyGatewayResource(p, view, status), UNCHANGED <<call, gateway, sent>>,
           \A q \in Payments : refresh'[q] = refresh[q] \/ refresh'[q] = NoRefresh
    PROVE  MoneyInv'
<1>1. SuccessMeansMoneyMoved'
  BY ApplyMoney DEF MoneyInv
<1>2. \A q \in Payments : payment'[q].status = "absent" => payment[q].status = "absent"
  BY ApplyMoney DEF MoneyInv
<1>3. Evidence' /\ CreatedOnce'
  BY <1>2 DEF MoneyInv, Evidence, CreatedOnce, MoneyMoved, NoRefresh
<1>4. QED
  BY <1>1, <1>3 DEF MoneyInv

LEMMA PaymentStepMoney ==
    ASSUME TypeOK, MoneyInv, NEW p \in Payments, PaymentStep(p)
    PROVE  MoneyInv'
<1>1. CASE DisburseCash(p)
  BY <1>1, CreateSucceededMoney DEF DisburseCash
<1>2. CASE DisburseByGateway(p)
  BY <1>2, CreateProcessingMoney DEF DisburseByGateway
<1>3. CASE \E t \in Tenders, g \in BOOLEAN, d \in 0 .. LastDay : RecordCashRepayment(p, t, g, d)
  BY <1>3, CreateSucceededMoney DEF RecordCashRepayment
<1>4. CASE \E t \in Tenders : StartGatewayRepayment(p, t)
  BY <1>4, CreateProcessingMoney DEF StartGatewayRepayment
<1>5. ASSUME NEW answer \in Answers, GatewayAnswers(p, answer) PROVE MoneyInv'
  <2>1. /\ call[p] = "calling" /\ call' = [call EXCEPT ![p] = answer]
        /\ UNCHANGED <<payment, refresh>>
    BY <1>5 DEF GatewayAnswers, ledgerVars
  <2>2. payment[p].status # "absent" /\ ~MoneyMoved(p)
    BY <2>1 DEF MoneyInv, CreatedOnce, MoneyMoved
  <2>3. CASE answer \in {"processing", "succeeded", "failed"} /\ Enter(p, answer)
    BY <2>1, <2>2, <2>3, EnterMoney
  <2>4. CASE answer = "timeout" /\ Enter(p, "processing")
    BY <2>1, <2>2, <2>4, EnterMoney
  <2>5. CASE answer \in {"timeout", "rejected"} /\ UNCHANGED externalVars
    <3>1. \A q \in Payments : call'[q] \in {call[q], "rejected", "timeout"}
      BY <2>1, <2>5 DEF TypeOK
    <3>2. \A q \in Payments : payment[q].status = "absent" => call'[q] = "none"
      BY <2>1, <2>2 DEF MoneyInv, CreatedOnce, TypeOK
    <3>3. QED
      BY <2>1, <2>5, <3>1, <3>2, RequestMoney DEF externalVars
  <2>6. QED
    BY <1>5, <2>3, <2>4, <2>5 DEF GatewayAnswers
<1>6. CASE GatewayMoves(p)
  <2>1. gateway[p] # "none" /\ UNCHANGED <<payment, refresh, call>>
    BY <1>6 DEF GatewayMoves, ledgerVars
  <2>2. payment[p].status # "absent" /\ call[p] # "calling"
    BY <2>1 DEF MoneyInv, CreatedOnce
  <2>3. PICK s \in {"succeeded", "failed", "reversed"} :
            Enter(p, s) /\ (MoneyMoved(p) => s = "reversed")
    BY <1>6 DEF GatewayMoves, MoneyMoved
  <2>4. QED
    BY <2>1, <2>2, <2>3, EnterMoney
<1>7. CASE FinishInitiation(p)
  <2>1. /\ call[p] # "none" /\ call' = [call EXCEPT ![p] = "none"]
        /\ UNCHANGED <<refresh, gateway, sent>>
    BY <1>7 DEF FinishInitiation
  <2>2. \A q \in Payments : MoneyMoved(q)' <=> MoneyMoved(q)
    BY <2>1 DEF MoneyMoved
  <2>3. /\ SuccessMeansMoneyMoved'
        /\ \A q \in Payments : payment'[q].status = "absent" => payment[q].status = "absent"
    <3>1. CASE call[p] = "succeeded" /\ Mark(p, "succeeded", today)
      BY <2>2, <3>1, MarkedRow DEF MoneyInv, Evidence, SuccessMeansMoneyMoved
    <3>2. CASE Mark(p, payment[p].status, payment[p].day) \/ Mark(p, "failed", payment[p].day)
      BY <2>2, <3>2, MarkedRow DEF MoneyInv, SuccessMeansMoneyMoved
    <3>3. CASE UNCHANGED payment
      BY <2>2, <3>3 DEF MoneyInv, SuccessMeansMoneyMoved
    <3>4. CASE payment' = [payment EXCEPT ![p].status = "failed"]
      BY <2>2, <3>4 DEF MoneyInv, SuccessMeansMoneyMoved, TypeOK, PaymentRow
    <3>5. QED
      BY <1>7, <3>1, <3>2, <3>3, <3>4
      DEF FinishInitiation, FinalizeGatewayPayment, ledgerVars
  <2>4. Evidence'
    BY <2>1, <2>2 DEF MoneyInv, Evidence, MoneyMoved, TypeOK
  <2>5. CreatedOnce'
    BY <2>1, <2>3 DEF MoneyInv, CreatedOnce, TypeOK
  <2>6. QED
    BY <2>3, <2>4, <2>5 DEF MoneyInv
<1>8. CASE CrashInitiation(p)
  <2>1. /\ call' = [call EXCEPT ![p] = "none"]
        /\ UNCHANGED <<payment, gateway, sent, refresh>>
    BY <1>8 DEF CrashInitiation, ledgerVars
  <2>2. \A q \in Payments : call'[q] \in {call[q], "none"}
    BY <2>1 DEF TypeOK
  <2>3. \A q \in Payments : payment[q].status = "absent" => call'[q] = "none"
    BY <2>2 DEF MoneyInv, CreatedOnce
  <2>4. QED
    BY <2>1, <2>2, <2>3, RequestMoney
<1>9. CASE RefreshLoad(p) \/ RefreshAnswer(p)
  <2>1. UNCHANGED <<payment, gateway, sent, call>>
    BY <1>9 DEF RefreshLoad, RefreshAnswer, ledgerVars
  <2>2. \A q \in Payments : \/ refresh'[q] = refresh[q]
                            \/ refresh'[q] = NoRefresh
                            \/ refresh'[q].stage = "loaded"
                            \/ refresh'[q].answer = gateway[q]
    BY <1>9 DEF RefreshLoad, RefreshAnswer, TypeOK
  <2>3. \A q \in Payments : payment[q].status = "absent" => call'[q] = "none"
    BY <2>1 DEF MoneyInv, CreatedOnce
  <2>4. QED
    BY <2>1, <2>2, <2>3, RequestMoney
<1>10. CASE RefreshApply(p)
  <2>1. /\ refresh[p].view \in PaymentStatus
        /\ refresh[p].answer \in {"processing", "succeeded", "failed", "reversed"}
    BY <1>10 DEF RefreshApply, TypeOK, RefreshRequest, NoRefresh
  <2>2. refresh[p].answer = "succeeded" => MoneyMoved(p)
    BY <1>10 DEF RefreshApply, MoneyInv, Evidence
  <2>3. /\ UNCHANGED <<call, gateway, sent>>
        /\ \A q \in Payments : refresh'[q] = refresh[q] \/ refresh'[q] = NoRefresh
    BY <1>10 DEF RefreshApply, TypeOK
  <2>4. CASE ApplyGatewayResource(p, refresh[p].view, refresh[p].answer)
    BY <2>1, <2>2, <2>3, <2>4, ApplyMoneyInv
  <2>5. CASE UNCHANGED ledgerVars
    <3>1. UNCHANGED payment
      BY <2>5 DEF ledgerVars
    <3>2. \A q \in Payments : payment[q].status = "absent" => call'[q] = "none"
      BY <2>3 DEF MoneyInv, CreatedOnce
    <3>3. QED
      BY <2>3, <3>1, <3>2, RequestMoney
  <2>6. QED
    BY <1>10, <2>4, <2>5 DEF RefreshApply
<1>11. CASE ReverseLatestCashRepayment(p)
  BY <1>11, ReverseMoney DEF ReverseLatestCashRepayment
<1>12. QED
  BY <1>1, <1>2, <1>3, <1>4, <1>5, <1>6, <1>7, <1>8, <1>9, <1>10, <1>11 DEF PaymentStep

LEMMA WebhookMoney ==
    ASSUME TypeOK, MoneyInv, NEW e \in sent, ProcessGatewayWebhook(e)
    PROVE  MoneyInv'
<1>1. /\ e.payment \in Payments
      /\ e.status \in {"processing", "succeeded", "failed", "reversed"}
      /\ payment[e.payment].status \in PaymentStatus
  BY DEF TypeOK, WebhookEvent, PaymentRow
<1>2. e.status = "succeeded" => MoneyMoved(e.payment)
  BY DEF MoneyInv, Evidence
<1>3. QED
  BY <1>1, <1>2, ApplyMoneyInv DEF ProcessGatewayWebhook

LEMMA StutterMoney ==
    ASSUME MoneyInv, UNCHANGED <<payment, call, refresh, gateway, sent>>
    PROVE  MoneyInv'
BY DEF MoneyInv, Evidence, CreatedOnce, SuccessMeansMoneyMoved, MoneyMoved

LEMMA AdjustmentStepMoney ==
    ASSUME TypeOK, MoneyInv, NEW a \in Adjustments, AdjustmentStep(a)
    PROVE  MoneyInv'
<1>1. UNCHANGED <<call, refresh, gateway, sent>>
  BY DEF AdjustmentStep, RequestAdjustment, ApproveAdjustment, RejectAdjustment, ConfirmAdjustment
<1>2. CASE UNCHANGED payment
  BY <1>1, <1>2, StutterMoney
<1>3. ASSUME adjustment[a].payment \in Payments, ReversePayment(adjustment[a].payment)
      PROVE  MoneyInv'
  BY <1>1, <1>3, ReverseMoney DEF ReversePayment
<1>4. adjustment[a].status # "absent" => adjustment[a].payment \in Payments
  BY DecidedAdjustmentType DEF TypeOK
<1>5. QED
  BY <1>2, <1>3, <1>4
  DEF AdjustmentStep, RequestAdjustment, ApproveAdjustment, RejectAdjustment, ConfirmAdjustment,
      ledgerVars

LEMMA MoneyInit == Init => MoneyInv
BY DEF Init, MoneyInv, Evidence, CreatedOnce, SuccessMeansMoneyMoved, NoPayment, NoRefresh

LEMMA MoneyNext == TypeOK /\ MoneyInv /\ [Next]_vars => MoneyInv'
<1> SUFFICES ASSUME TypeOK, MoneyInv, [Next]_vars PROVE MoneyInv'
  OBVIOUS
<1>1. CASE \E p \in Payments : PaymentStep(p)
  BY <1>1, PaymentStepMoney
<1>2. CASE \E e \in sent : ProcessGatewayWebhook(e)
  BY <1>2, WebhookMoney
<1>3. CASE \E a \in Adjustments : AdjustmentStep(a)
  BY <1>3, AdjustmentStepMoney
<1>4. CASE NextDay
  BY <1>4, StutterMoney DEF NextDay, ledgerVars
<1>5. CASE UNCHANGED vars
  BY <1>5, StutterMoney DEF vars
<1> QED
  BY <1>1, <1>2, <1>3, <1>4, <1>5 DEF Next

(* Whatever the order of answers, events, refreshes and crashes, a gateway *)
(* payment counts as succeeded only when the gateway has moved the money   *)
(* (finalize_gateway_payment: "only after gateway success").               *)
THEOREM SuccessAfterGateway == Spec => []SuccessMeansMoneyMoved
<1>1. MoneyInv => SuccessMeansMoneyMoved
  BY DEF MoneyInv
<1> QED
  BY <1>1, MoneyInit, MoneyNext, TypeCorrect, PTL DEF Spec

-----------------------------------------------------------------------------
(* Allocation rows are written once.                                       *)
WritesRows ==
    \/ allocation' = allocation
    \/ \E p \in Payments, amount \in Nat : ~Allocated(p) /\ AllocateRepayment(p, amount)

LEMMA FinalizeWrites ==
    ASSUME NEW p \in Payments, NEW purpose, NEW amount \in Nat,
           FinalizeLoanPayment(p, purpose, amount)
    PROVE  WritesRows
BY DEF FinalizeLoanPayment, WritesRows

LEMMA GatewayWrites ==
    ASSUME TypeOK, NEW p \in Payments,
           FinalizeGatewayPayment(p) \/ allocation' = allocation
    PROVE  WritesRows
BY RowType, FinalizeWrites DEF FinalizeGatewayPayment, WritesRows

LEMMA ApplyWrites ==
    ASSUME TypeOK, NEW p \in Payments, NEW view, NEW status, ApplyGatewayResource(p, view, status)
    PROVE  WritesRows
BY GatewayWrites DEF ApplyGatewayResource, ReversePayment

LEMMA PaymentWrites ==
    ASSUME TypeOK, NEW p \in Payments, PaymentStep(p)
    PROVE  WritesRows
<1>1. ASSUME NEW purpose, NEW amount \in Nat, NEW day, CreateSucceeded(p, purpose, amount, day)
      PROVE  WritesRows
  BY <1>1, FinalizeWrites DEF CreateSucceeded
<1>2. CASE DisburseCash(p)
  BY <1>1, <1>2, AmountsAssumption DEF DisburseCash
<1>3. ASSUME NEW t \in Tenders, NEW g \in BOOLEAN, NEW d \in 0 .. LastDay,
             RecordCashRepayment(p, t, g, d)
      PROVE  WritesRows
  <2>1. PICK applied \in 1 .. t : CreateSucceeded(p, "repayment", applied, d)
    BY <1>3 DEF RecordCashRepayment
  <2>2. applied \in Nat
    BY AmountsAssumption
  <2> QED BY <1>1, <2>1, <2>2
<1>4. CASE FinishInitiation(p)
  <2>1. FinalizeGatewayPayment(p) \/ allocation' = allocation
    BY <1>4 DEF FinishInitiation, ledgerVars
  <2> QED BY <2>1, GatewayWrites
<1>5. CASE RefreshApply(p)
  <2>1. ApplyGatewayResource(p, refresh[p].view, refresh[p].answer) \/ allocation' = allocation
    BY <1>5 DEF RefreshApply, ledgerVars
  <2> QED BY <2>1, ApplyWrites, GatewayWrites
<1>6. CASE \/ ReverseLatestCashRepayment(p) \/ DisburseByGateway(p)
           \/ \E t \in Tenders : StartGatewayRepayment(p, t)
  BY <1>6 DEF ReverseLatestCashRepayment, DisburseByGateway, StartGatewayRepayment,
              CreateProcessing, WritesRows
<1>7. CASE \/ \E answer \in Answers : GatewayAnswers(p, answer)
           \/ GatewayMoves(p) \/ CrashInitiation(p) \/ RefreshLoad(p) \/ RefreshAnswer(p)
  BY <1>7 DEF GatewayAnswers, GatewayMoves, CrashInitiation, RefreshLoad, RefreshAnswer,
              ledgerVars, WritesRows
<1> QED
  BY <1>2, <1>3, <1>4, <1>5, <1>6, <1>7 DEF PaymentStep

LEMMA StepWrites == TypeOK /\ [Next]_vars => WritesRows
<1> SUFFICES ASSUME TypeOK, [Next]_vars PROVE WritesRows
  OBVIOUS
<1>1. ASSUME NEW e \in sent, ProcessGatewayWebhook(e) PROVE WritesRows
  <2>1. e.payment \in Payments
    BY DEF TypeOK, WebhookEvent
  <2> QED BY <1>1, <2>1, ApplyWrites DEF ProcessGatewayWebhook
<1>2. ASSUME NEW a \in Adjustments, AdjustmentStep(a) PROVE WritesRows
  BY <1>2 DEF AdjustmentStep, RequestAdjustment, ApproveAdjustment, RejectAdjustment,
              ConfirmAdjustment, ReversePayment, ledgerVars, WritesRows
<1>3. CASE NextDay \/ UNCHANGED vars
  BY <1>3 DEF NextDay, ledgerVars, vars, WritesRows
<1> QED BY <1>1, <1>2, <1>3, PaymentWrites DEF Next

(* However often a success is reported, answered or refreshed: the rows    *)
(* that say where a repayment went are written once and never again, for   *)
(* every gateway, orderly or not (finalize_loan_payment asks for existing  *)
(* allocations first).                                                     *)
THEOREM RowsWrittenOnce == Spec => AllocatedOnce
<1>1. TypeOK /\ [Next]_vars
      => [\A p \in Payments : Allocated(p) => allocation'[p] = allocation[p]]_vars
  <2> SUFFICES ASSUME TypeOK, [Next]_vars, NEW p \in Payments, Allocated(p)
               PROVE  allocation'[p] = allocation[p]
    OBVIOUS
  <2>1. ASSUME NEW q \in Payments, NEW amount \in Nat, ~Allocated(q), AllocateRepayment(q, amount)
        PROVE  allocation'[p] = allocation[p]
    <3>1. p # q
      BY <2>1
    <3> QED BY <2>1, <3>1 DEF AllocateRepayment, TypeOK
  <2> QED BY <2>1, StepWrites DEF WritesRows
<1> QED BY <1>1, TypeCorrect, PTL DEF Spec, AllocatedOnce

-----------------------------------------------------------------------------
(* An orderly environment: the gateway reports the state its resource is   *)
(* in, and a payment does not change while a request about it waits for    *)
(* the gateway.  What a handler loaded before it called is then still true *)
(* when it writes.                                                         *)
Orderly == ~StaleEvents /\ ~Overlap

Fresh == {"absent", "processing", "failed"}   \* nothing was posted

OrderlyAt(p) ==
    /\ call[p] # "none" =>
           /\ payment[p].status = "processing" /\ payment[p].method = "gateway"
           /\ refresh[p] = NoRefresh
    /\ refresh[p] # NoRefresh =>
           payment[p].method = "gateway" /\ refresh[p].view = payment[p].status
    /\ refresh[p].stage = "answered" =>
           /\ payment[p].status = "reversed" => refresh[p].answer \in {"succeeded", "reversed"}
           /\ refresh[p].answer \in {"succeeded", "reversed"} => MoneyMoved(p)
    /\ payment[p].method = "gateway" /\ payment[p].status = "reversed" => MoneyMoved(p)
    /\ payment[p].method = "cash" => gateway[p] = "none"
    /\ payment[p].status = "absent" => payment[p].method = "cash"

OrderlyInv == \A p \in Payments : OrderlyAt(p)

(* What a step does to one payment and to the loan.                        *)
SameRow(q) ==
    /\ payment'[q].status = payment[q].status /\ payment'[q].purpose = payment[q].purpose
    /\ payment'[q].method = payment[q].method /\ payment'[q].amount = payment[q].amount
    /\ allocation'[q] = allocation[q] /\ journal'[q] = journal[q]

Others(p) == \A q \in Payments \ {p} : SameRow(q)

SameLoan == loan'.amountPaid = loan.amountPaid /\ paid' = paid

Stands == SameLoan /\ \A q \in Payments : SameRow(q)

(* It is created, refused, or reported in a state that moves no money.     *)
Wanders(p) ==
    /\ Others(p) /\ SameLoan
    /\ payment[p].status \in Fresh /\ payment'[p].status \in Fresh \cup {"reversed"}
    /\ allocation'[p] = allocation[p] /\ journal'[p] = journal[p]

Pays(p) ==
    \E share \in [Installments -> Nat] :
        /\ payment'[p].purpose = "repayment"
        /\ loan'.amountPaid = loan.amountPaid + payment'[p].amount
        /\ paid' = [i \in Installments |-> paid[i] + share[i]]
        /\ allocation'[p] = share

Succeeds(p) ==
    /\ Others(p)
    /\ payment[p].status \in Fresh /\ payment'[p].status = "succeeded"
    /\ journal'[p] = IF journal[p] = "none" THEN "posted" ELSE journal[p]
    /\ \/ payment'[p].purpose = "disbursement" /\ SameLoan
       \/ Allocated(p)
       \/ Pays(p)

TakesBack(p) ==
    /\ payment[p].purpose = "repayment"
    /\ loan'.amountPaid = Monus(loan.amountPaid, payment[p].amount)
    /\ paid' = [i \in Installments |-> Monus(paid[i], allocation[p][i])]

Reverses(p) ==
    /\ Others(p)
    /\ payment[p].status = "succeeded" /\ payment'[p].status = "reversed"
    /\ payment'[p].purpose = payment[p].purpose /\ payment'[p].amount = payment[p].amount
    /\ payment'[p].method = payment[p].method
    /\ allocation'[p] = allocation[p]
    /\ journal'[p] = IF journal[p] = "posted" THEN "reversed" ELSE journal[p]
    /\ (payment[p].purpose = "disbursement" /\ SameLoan) \/ TakesBack(p)

Effect == Stands \/ \E p \in Payments : Wanders(p) \/ Succeeds(p) \/ Reverses(p)

(* The operators of the handlers have these effects.                       *)
LEMMA UntouchedStands ==
    ASSUME UNCHANGED <<loan, paid, payment, allocation, journal>>
    PROVE  Stands
BY DEF Stands, SameLoan, SameRow

LEMMA MarkSame ==
    ASSUME TypeOK, NEW p \in Payments, NEW day, Mark(p, payment[p].status, day),
           UNCHANGED <<loan, paid, allocation, journal>>
    PROVE  Stands
BY MarkedRow DEF Stands, SameLoan, SameRow

LEMMA MarkWanders ==
    ASSUME TypeOK, NEW p \in Payments, NEW status \in Fresh \cup {"reversed"}, NEW day,
           payment[p].status \in Fresh, Mark(p, status, day),
           UNCHANGED <<loan, paid, allocation, journal>>
    PROVE  Wanders(p)
BY MarkedRow DEF Wanders, Others, SameLoan, SameRow

LEMMA AllocatePays ==
    ASSUME TypeOK, NEW p \in Payments, NEW amount \in Nat, AllocateRepayment(p, amount),
           payment'[p].purpose = "repayment", payment'[p].amount = amount
    PROVE  Pays(p) /\ \A q \in Payments \ {p} : allocation'[q] = allocation[q]
<1>1. PICK share \in [Installments -> 0 .. amount] :
        /\ paid' = [i \in Installments |-> paid[i] + share[i]]
        /\ allocation' = [allocation EXCEPT ![p] = share]
        /\ loan' = [status |-> IF Monus(TotalRepayable, loan.amountPaid + amount) = 0
                               THEN "completed" ELSE loan.status,
                    amountPaid |-> loan.amountPaid + amount,
                    balance |-> Monus(TotalRepayable, loan.amountPaid + amount)]
  BY DEF AllocateRepayment
<1>2. share \in [Installments -> Nat]
  OBVIOUS
<1>3. allocation'[p] = share /\ \A q \in Payments \ {p} : allocation'[q] = allocation[q]
  BY <1>1 DEF TypeOK
<1>4. loan'.amountPaid = loan.amountPaid + amount
  BY <1>1
<1> QED BY <1>1, <1>2, <1>3, <1>4 DEF Pays

LEMMA FinalizeSucceeds ==
    ASSUME TypeOK, NEW p \in Payments, NEW purpose, NEW amount \in Nat,
           FinalizeLoanPayment(p, purpose, amount), PostBooks(p),
           payment[p].status \in Fresh,
           payment'[p].status = "succeeded",
           payment'[p].purpose = purpose, payment'[p].amount = amount,
           \A q \in Payments \ {p} : payment'[q] = payment[q]
    PROVE  Succeeds(p)
<1>1. \A q \in Payments \ {p} : journal'[q] = journal[q]
  BY DEF PostBooks, TypeOK
<1>2. journal'[p] = IF journal[p] = "none" THEN "posted" ELSE journal[p]
  BY DEF PostBooks, TypeOK
<1>3. /\ \A q \in Payments \ {p} : allocation'[q] = allocation[q]
      /\ (payment'[p].purpose = "disbursement" /\ SameLoan) \/ Allocated(p) \/ Pays(p)
  <2>1. CASE purpose = "disbursement" /\ loan' = [loan EXCEPT !.status = "active"]
             /\ UNCHANGED <<paid, allocation>>
    BY <2>1 DEF SameLoan, TypeOK
  <2>2. CASE purpose = "repayment" /\ AllocateRepayment(p, amount)
    BY <2>2, AllocatePays
  <2>3. CASE Allocated(p) /\ UNCHANGED <<loan, paid, allocation>>
    BY <2>3
  <2> QED BY <2>1, <2>2, <2>3 DEF FinalizeLoanPayment
<1>4. Others(p)
  BY <1>1, <1>3 DEF Others, SameRow
<1> QED BY <1>2, <1>3, <1>4 DEF Succeeds

LEMMA GatewaySucceeds ==
    ASSUME TypeOK, NEW p \in Payments, payment[p].status \in Fresh, FinalizeGatewayPayment(p)
    PROVE  Succeeds(p)
<1>1. Mark(p, "succeeded", today)
  BY DEF FinalizeGatewayPayment
<1>2. \A q \in Payments \ {p} : payment'[q] = payment[q]
  BY <1>1 DEF Mark, TypeOK
<1>3. /\ payment'[p].status = "succeeded"
      /\ payment'[p].purpose = payment[p].purpose /\ payment'[p].amount = payment[p].amount
  BY <1>1, MarkedRow
<1>4. payment[p].amount \in Nat
  BY RowType
<1>5. FinalizeLoanPayment(p, payment[p].purpose, payment[p].amount) /\ PostBooks(p)
  BY DEF FinalizeGatewayPayment
<1> QED BY <1>2, <1>3, <1>4, <1>5, FinalizeSucceeds

LEMMA LoanReverses ==
    ASSUME TypeOK, NEW p \in Payments, ReverseLoanPayment(p)
    PROVE  (payment[p].purpose = "disbursement" /\ SameLoan) \/ TakesBack(p)
<1>1. CASE payment[p].purpose = "repayment"
  <2> DEFINE nowPaid == Monus(loan.amountPaid, payment[p].amount)
             balance == Monus(TotalRepayable, nowPaid)
  <2>1. /\ paid' = [i \in Installments |-> Monus(paid[i], allocation[p][i])]
        /\ loan' = [status |-> IF loan.status = "completed" /\ balance > 0
                               THEN "active" ELSE loan.status,
                    amountPaid |-> nowPaid, balance |-> balance]
    BY <1>1 DEF ReverseLoanPayment
  <2> QED BY <1>1, <2>1 DEF TakesBack
<1>2. CASE payment[p].purpose = "disbursement"
  BY <1>2 DEF ReverseLoanPayment, SameLoan, TypeOK
<1> QED BY <1>1, <1>2 DEF ReverseLoanPayment

LEMMA ReversalReverses ==
    ASSUME TypeOK, NEW p \in Payments, payment[p].status = "succeeded",
           ReverseLoanPayment(p), ReverseJournal(p), UNCHANGED allocation,
           NEW day, Mark(p, "reversed", day)
    PROVE  Reverses(p)
<1>1. /\ journal'[p] = IF journal[p] = "posted" THEN "reversed" ELSE journal[p]
      /\ \A q \in Payments \ {p} : journal'[q] = journal[q]
  BY DEF ReverseJournal, TypeOK
<1>2. Others(p)
  BY <1>1, MarkedRow DEF Others, SameRow
<1> QED BY <1>1, <1>2, MarkedRow, LoanReverses DEF Reverses

(* What it does to the adjustments with it.                                *)
Outcome(p) ==
    \/ (Stands \/ Wanders(p) \/ Succeeds(p)) /\ UNCHANGED adjustment
    \/ Reverses(p) /\ CompleteAdjustments(p)
    \/ Reverses(p) /\ UNCHANGED adjustment /\ payment[p].method = "cash" /\ treasury'[p] = "voided"

(* An answer applied to the row as it is, when it cannot be a reversal     *)
(* taken back.                                                             *)
LEMMA AppliedOutcome ==
    ASSUME TypeOK, NEW p \in Payments,
           NEW status \in {"processing", "succeeded", "failed", "reversed"},
           payment[p].status = "reversed" => status \in {"succeeded", "reversed"},
           ApplyGatewayResource(p, payment[p].status, status)
    PROVE  Outcome(p)
<1>0. payment[p].status \in {"absent", "processing", "succeeded", "failed", "reversed"}
  BY RowType DEF PaymentStatus
<1>1. CASE /\ status = "succeeded" /\ payment[p].status \notin {"succeeded", "reversed"}
           /\ FinalizeGatewayPayment(p) /\ UNCHANGED adjustment
  <2>1. payment[p].status \in Fresh
    BY <1>0, <1>1 DEF Fresh
  <2>2. Succeeds(p)
    BY <1>1, <2>1, GatewaySucceeds
  <2> QED BY <1>1, <2>2 DEF Outcome
<1>2. CASE /\ status = "reversed" /\ payment[p].status = "succeeded"
           /\ ReversePayment(p) /\ CompleteAdjustments(p)
  <2>1. Reverses(p)
    BY <1>2, ReversalReverses DEF ReversePayment
  <2> QED BY <1>2, <2>1 DEF Outcome
<1>3. CASE /\ Mark(p, payment[p].status, payment[p].day)
           /\ UNCHANGED <<loan, paid, allocation, journal, treasury, adjustment>>
  <2>1. Stands
    BY <1>3, MarkSame
  <2> QED BY <1>3, <2>1 DEF Outcome
<1>4. CASE /\ payment[p].status # "succeeded" /\ status # "succeeded"
           /\ Mark(p, IF status = payment[p].status THEN payment[p].status ELSE status, payment[p].day)
           /\ UNCHANGED <<loan, paid, allocation, journal, treasury, adjustment>>
  <2>1. CASE status = payment[p].status
    <3>1. Mark(p, payment[p].status, payment[p].day)
      BY <1>4, <2>1
    <3> QED BY <1>3, <1>4, <3>1
  <2>2. CASE status # payment[p].status
    <3>1. payment[p].status \in Fresh
      BY <1>0, <1>4, <2>2 DEF Fresh
    <3>2. status \in Fresh \cup {"reversed"}
      BY <1>4 DEF Fresh
    <3>3. Mark(p, status, payment[p].day)
      BY <1>4, <2>2
    <3>4. Wanders(p)
      BY <1>4, <3>1, <3>2, <3>3, MarkWanders
    <3> QED BY <1>4, <3>4 DEF Outcome
  <2> QED BY <2>1, <2>2
<1> QED BY <1>1, <1>2, <1>3, <1>4 DEF ApplyGatewayResource

(* The row takes the status applied or keeps its own.                      *)
LEMMA AppliedStatus ==
    ASSUME TypeOK, NEW p \in Payments,
           NEW status \in {"processing", "succeeded", "failed", "reversed"},
           ApplyGatewayResource(p, payment[p].status, status)
    PROVE  /\ payment'[p].status \in {payment[p].status, status}
           /\ payment'[p].method = payment[p].method
           /\ \A q \in Payments \ {p} :
                  payment'[q].status = payment[q].status /\ payment'[q].method = payment[q].method
<1>1. PICK s \in {payment[p].status, status} : \E day : Mark(p, s, day)
  BY DEF ApplyGatewayResource, FinalizeGatewayPayment, ReversePayment
<1>2. PICK day : Mark(p, s, day)
  BY <1>1
<1> QED BY <1>2, MarkedRow

-----------------------------------------------------------------------------
(* An orderly environment stays orderly, payment by payment.               *)
LEMMA OrderlyHolds == Init => OrderlyInv
BY DEF Init, OrderlyInv, OrderlyAt, NoPayment, NoRefresh

(* The rest of a payment's surroundings, when only p's change.             *)
Around(p) == \A q \in Payments \ {p} :
    /\ payment'[q].status = payment[q].status /\ payment'[q].method = payment[q].method
    /\ call'[q] = call[q] /\ refresh'[q] = refresh[q] /\ gateway'[q] = gateway[q]

LEMMA OrderlyLocal ==
    ASSUME OrderlyInv, NEW p \in Payments, Around(p), OrderlyAt(p)'
    PROVE  OrderlyInv'
<1> SUFFICES ASSUME NEW q \in Payments, q # p PROVE OrderlyAt(q)'
  BY DEF OrderlyInv
<1>1. OrderlyAt(q)
  BY DEF OrderlyInv
<1> QED BY <1>1 DEF Around, OrderlyAt, MoneyMoved

LEMMA OrderlyStays ==
    ASSUME OrderlyInv, UNCHANGED <<payment, call, refresh, gateway>>
    PROVE  OrderlyInv'
BY DEF OrderlyInv, OrderlyAt, MoneyMoved

LEMMA AbsentIsQuiet ==
    ASSUME MoneyInv, OrderlyInv, NEW p \in Payments, payment[p].status = "absent"
    PROVE  call[p] = "none" /\ gateway[p] = "none" /\ refresh[p] = NoRefresh
<1>1. OrderlyAt(p)
  BY DEF OrderlyInv
<1> QED BY <1>1 DEF OrderlyAt, MoneyInv, CreatedOnce

LEMMA CreateSucceededOrderly ==
    ASSUME TypeOK, MoneyInv, OrderlyInv, NEW p \in Payments, NEW purpose, NEW amount, NEW day,
           CreateSucceeded(p, purpose, amount, day)
    PROVE  OrderlyInv'
<1>1. /\ payment[p].status = "absent"
      /\ payment' = [payment EXCEPT ![p] =
          [status |-> "succeeded", purpose |-> purpose, method |-> "cash",
           amount |-> amount, day |-> day, pending |-> FALSE]]
      /\ UNCHANGED <<call, refresh, gateway>>
  BY DEF CreateSucceeded
<1>2. call[p] = "none" /\ gateway[p] = "none" /\ refresh[p] = NoRefresh
  BY <1>1, AbsentIsQuiet
<1>3. payment'[p].status = "succeeded" /\ payment'[p].method = "cash"
  BY <1>1 DEF TypeOK
<1>4. OrderlyAt(p)'
  BY <1>1, <1>2, <1>3 DEF OrderlyAt, NoRefresh
<1>5. Around(p)
  BY <1>1 DEF Around, TypeOK
<1> QED BY <1>4, <1>5, OrderlyLocal

LEMMA CreateProcessingOrderly ==
    ASSUME TypeOK, MoneyInv, OrderlyInv, NEW p \in Payments, NEW purpose, NEW amount,
           CreateProcessing(p, purpose, amount)
    PROVE  OrderlyInv'
<1>1. /\ payment[p].status = "absent"
      /\ payment' = [payment EXCEPT ![p] =
          [status |-> "processing", purpose |-> purpose, method |-> "gateway",
           amount |-> amount, day |-> Never, pending |-> TRUE]]
      /\ call' = [call EXCEPT ![p] = "calling"]
      /\ UNCHANGED <<refresh, gateway>>
  BY DEF CreateProcessing
<1>2. refresh[p] = NoRefresh
  BY <1>1, AbsentIsQuiet
<1>3. payment'[p].status = "processing" /\ payment'[p].method = "gateway"
  BY <1>1 DEF TypeOK
<1>4. OrderlyAt(p)'
  BY <1>1, <1>2, <1>3 DEF OrderlyAt, NoRefresh
<1>5. Around(p)
  BY <1>1 DEF Around, TypeOK
<1> QED BY <1>4, <1>5, OrderlyLocal

(* A payment changes status while nothing asks the gateway about it.       *)
LEMMA QuietOrderly ==
    ASSUME TypeOK, OrderlyInv, NEW p \in Payments,
           payment[p].status # "absent" => payment'[p].status # "absent",
           payment'[p].method = payment[p].method,
           payment'[p].method = "gateway" /\ payment'[p].status = "reversed" => MoneyMoved(p),
           \A q \in Payments \ {p} :
               payment'[q].status = payment[q].status /\ payment'[q].method = payment[q].method,
           UNCHANGED gateway,
           call' = [call EXCEPT ![p] = "none"] \/ (UNCHANGED call /\ call[p] = "none"),
           refresh' = [refresh EXCEPT ![p] = NoRefresh] \/ (UNCHANGED refresh /\ refresh[p] = NoRefresh)
    PROVE  OrderlyInv'
<1>1. OrderlyAt(p)
  BY DEF OrderlyInv
<1>2. call'[p] = "none" /\ refresh'[p] = NoRefresh
  BY DEF TypeOK
<1>3. MoneyMoved(p)' <=> MoneyMoved(p)
  BY DEF MoneyMoved
<1>4. OrderlyAt(p)'
  BY <1>1, <1>2, <1>3 DEF OrderlyAt, NoRefresh
<1>5. Around(p)
  BY DEF Around, TypeOK
<1> QED BY <1>4, <1>5, OrderlyLocal

LEMMA AnswersOrderly ==
    ASSUME TypeOK, MoneyInv, OrderlyInv, NEW p \in Payments, NEW answer \in Answers,
           GatewayAnswers(p, answer)
    PROVE  OrderlyInv'
<1>1. /\ call[p] = "calling" /\ call' = [call EXCEPT ![p] = answer]
      /\ UNCHANGED <<payment, refresh>>
  BY DEF GatewayAnswers, ledgerVars
<1>2. \A q \in Payments \ {p} : gateway'[q] = gateway[q] /\ call'[q] = call[q]
  <2>1. \A q \in Payments \ {p} : gateway'[q] = gateway[q]
    BY DEF GatewayAnswers, Enter, externalVars, TypeOK
  <2> QED BY <1>1, <2>1 DEF TypeOK
<1>3. OrderlyAt(p)
  BY DEF OrderlyInv
<1>4. OrderlyAt(p)'
  BY <1>1, <1>3 DEF OrderlyAt, NoRefresh
<1>5. Around(p)
  BY <1>1, <1>2 DEF Around
<1> QED BY <1>4, <1>5, OrderlyLocal

LEMMA MovesOrderly ==
    ASSUME TypeOK, MoneyInv, OrderlyInv, NEW p \in Payments, GatewayMoves(p)
    PROVE  OrderlyInv'
<1>1. gateway[p] # "none" /\ UNCHANGED <<payment, refresh, call>>
  BY DEF GatewayMoves, ledgerVars
<1>2. MoneyMoved(p) => MoneyMoved(p)'
  BY DEF GatewayMoves, Enter, MoneyMoved, TypeOK
<1>3. OrderlyAt(p)
  BY DEF OrderlyInv
<1>4. OrderlyAt(p)'
  BY <1>1, <1>2, <1>3 DEF OrderlyAt
<1>5. Around(p)
  BY <1>1 DEF Around, GatewayMoves, Enter, TypeOK
<1> QED BY <1>4, <1>5, OrderlyLocal

LEMMA FinishOrderly ==
    ASSUME TypeOK, MoneyInv, OrderlyInv, NEW p \in Payments, FinishInitiation(p)
    PROVE  OrderlyInv'
<1>1. OrderlyAt(p)
  BY DEF OrderlyInv
<1>2. /\ call[p] # "none" /\ call' = [call EXCEPT ![p] = "none"] /\ UNCHANGED <<refresh, gateway>>
  BY DEF FinishInitiation, Answers
<1>3. payment[p].status = "processing" /\ refresh[p] = NoRefresh
  BY <1>1, <1>2 DEF OrderlyAt
<1>4. /\ payment'[p].status \in {"processing", "succeeded", "failed"}
      /\ payment'[p].method = payment[p].method
      /\ \A q \in Payments \ {p} :
             payment'[q].status = payment[q].status /\ payment'[q].method = payment[q].method
  <2>1. CASE \/ Mark(p, payment[p].status, payment[p].day) \/ Mark(p, "failed", payment[p].day)
             \/ Mark(p, "succeeded", today)
    BY <1>3, <2>1, MarkedRow
  <2>2. CASE payment' = [payment EXCEPT ![p].status = "failed"]
    BY <2>2 DEF TypeOK, PaymentRow
  <2>3. CASE UNCHANGED payment
    BY <1>3, <2>3
  <2> QED BY <2>1, <2>2, <2>3 DEF FinishInitiation, FinalizeGatewayPayment, ledgerVars
<1> QED BY <1>2, <1>3, <1>4, QuietOrderly

LEMMA CrashOrderly ==
    ASSUME TypeOK, OrderlyInv, NEW p \in Payments, CrashInitiation(p)
    PROVE  OrderlyInv'
<1>1. OrderlyAt(p)
  BY DEF OrderlyInv
<1>2. /\ call[p] # "none" /\ call' = [call EXCEPT ![p] = "none"]
      /\ UNCHANGED <<payment, refresh, gateway>>
  BY DEF CrashInitiation, ledgerVars
<1>3. payment[p].status = "processing" /\ refresh[p] = NoRefresh
  BY <1>1, <1>2 DEF OrderlyAt
<1> QED BY <1>2, <1>3, QuietOrderly

LEMMA RefreshLoadOrderly ==
    ASSUME TypeOK, Orderly, OrderlyInv, NEW p \in Payments, RefreshLoad(p)
    PROVE  OrderlyInv'
<1>1. /\ refresh' = [refresh EXCEPT ![p] = [stage |-> "loaded", view |-> payment[p].status]]
      /\ payment[p].method = "gateway" /\ UNCHANGED <<payment, call, gateway>>
  BY DEF RefreshLoad, ledgerVars
<1>2. call[p] = "none"
  BY DEF RefreshLoad, Undisturbed, Waiting, Orderly
<1>3. refresh'[p] = [stage |-> "loaded", view |-> payment[p].status]
  BY <1>1 DEF TypeOK
<1>4. OrderlyAt(p)
  BY DEF OrderlyInv
<1>5. MoneyMoved(p)' <=> MoneyMoved(p)
  BY <1>1 DEF MoneyMoved
<1>6. OrderlyAt(p)'
  BY <1>1, <1>2, <1>3, <1>4, <1>5 DEF OrderlyAt
<1>7. Around(p)
  BY <1>1 DEF Around, TypeOK
<1> QED BY <1>6, <1>7, OrderlyLocal

LEMMA RefreshAnswerOrderly ==
    ASSUME TypeOK, OrderlyInv, NEW p \in Payments, RefreshAnswer(p)
    PROVE  OrderlyInv'
<1>1. refresh[p].stage = "loaded" /\ UNCHANGED <<payment, call, gateway>>
  BY DEF RefreshAnswer, ledgerVars
<1>2. OrderlyAt(p)
  BY DEF OrderlyInv
<1>3. refresh[p] # NoRefresh
  BY <1>1 DEF NoRefresh
<1>4. call[p] = "none" /\ payment[p].method = "gateway" /\ refresh[p].view = payment[p].status
  BY <1>2, <1>3 DEF OrderlyAt
<1>5. MoneyMoved(p)' <=> MoneyMoved(p)
  BY <1>1 DEF MoneyMoved
<1>6. \/ refresh'[p] = NoRefresh
      \/ refresh'[p] = [stage |-> "answered", view |-> refresh[p].view, answer |-> gateway[p]]
  BY DEF RefreshAnswer, TypeOK
<1>7. OrderlyAt(p)'
  <2>1. CASE refresh'[p] = NoRefresh
    BY <1>1, <1>2, <1>4, <1>5, <2>1 DEF OrderlyAt, NoRefresh
  <2>2. CASE refresh'[p] = [stage |-> "answered", view |-> refresh[p].view, answer |-> gateway[p]]
    <3>1. /\ refresh'[p].view = refresh[p].view /\ refresh'[p].answer = gateway[p]
      BY <2>2
    <3>2. payment[p].status = "reversed" => MoneyMoved(p)
      BY <1>2, <1>4 DEF OrderlyAt
    <3>3. gateway[p] \in {"succeeded", "reversed"} <=> MoneyMoved(p)
      BY DEF MoneyMoved
    <3> QED BY <1>1, <1>2, <1>4, <1>5, <3>1, <3>2, <3>3 DEF OrderlyAt
  <2> QED BY <1>6, <2>1, <2>2
<1>8. Around(p)
  BY <1>1 DEF Around, RefreshAnswer, TypeOK
<1> QED BY <1>7, <1>8, OrderlyLocal

(* An answer about p, applied to the row as it is, in an orderly           *)
(* environment.                                                            *)
LEMMA FitsAnswer ==
    ASSUME TypeOK, OrderlyInv, NEW p \in Payments, RefreshApply(p)
    PROVE  /\ refresh[p].view = payment[p].status /\ payment[p].method = "gateway"
           /\ call[p] = "none"
           /\ refresh[p].answer \in {"processing", "succeeded", "failed", "reversed"}
           /\ payment[p].status = "reversed" => refresh[p].answer \in {"succeeded", "reversed"}
           /\ refresh[p].answer = "reversed" => MoneyMoved(p)
<1>1. refresh[p].stage = "answered" /\ refresh[p] # NoRefresh
  BY DEF RefreshApply, NoRefresh
<1>2. OrderlyAt(p)
  BY DEF OrderlyInv
<1>3. refresh[p].answer \in {"processing", "succeeded", "failed", "reversed"}
  BY <1>1 DEF TypeOK, RefreshRequest
<1> QED BY <1>1, <1>2, <1>3 DEF OrderlyAt

LEMMA RefreshApplyOrderly ==
    ASSUME TypeOK, MoneyInv, OrderlyInv, NEW p \in Payments, RefreshApply(p)
    PROVE  OrderlyInv' /\ Outcome(p)
<1>1. /\ refresh[p].view = payment[p].status /\ payment[p].method = "gateway"
      /\ call[p] = "none"
      /\ refresh[p].answer \in {"processing", "succeeded", "failed", "reversed"}
      /\ payment[p].status = "reversed" => refresh[p].answer \in {"succeeded", "reversed"}
      /\ refresh[p].answer = "reversed" => MoneyMoved(p)
  BY FitsAnswer
<1>2. OrderlyAt(p)
  BY DEF OrderlyInv
<1>3. payment[p].status # "absent"
  BY <1>1, <1>2 DEF OrderlyAt
<1>4. /\ UNCHANGED <<call, gateway>> /\ refresh' = [refresh EXCEPT ![p] = NoRefresh]
  BY DEF RefreshApply
<1>5. CASE ApplyGatewayResource(p, payment[p].status, refresh[p].answer)
  <2>1. Outcome(p)
    BY <1>1, <1>5, AppliedOutcome
  <2>2. /\ payment'[p].status \in {payment[p].status, refresh[p].answer}
        /\ payment'[p].method = payment[p].method
        /\ \A q \in Payments \ {p} :
               payment'[q].status = payment[q].status /\ payment'[q].method = payment[q].method
    BY <1>1, <1>5, AppliedStatus
  <2>3. payment'[p].status # "absent"
    BY <1>1, <1>3, <2>2
  <2>4. payment'[p].status = "reversed" => MoneyMoved(p)
    BY <1>1, <1>2, <2>2 DEF OrderlyAt
  <2>5. OrderlyInv'
    BY <1>1, <1>3, <1>4, <2>2, <2>3, <2>4, QuietOrderly
  <2> QED BY <2>1, <2>5
<1>6. CASE UNCHANGED <<ledgerVars, adjustment>>
  <2>1. UNCHANGED <<loan, paid, payment, allocation, journal, adjustment>>
    BY <1>6 DEF ledgerVars
  <2>2. Outcome(p)
    BY <2>1, UntouchedStands DEF Outcome
  <2>3. OrderlyInv'
    <3>1. payment[p].status = "reversed" => MoneyMoved(p)
      BY <1>1, <1>2 DEF OrderlyAt
    <3> QED BY <1>1, <1>4, <2>1, <3>1, QuietOrderly
  <2> QED BY <2>2, <2>3
<1>7. \/ ApplyGatewayResource(p, payment[p].status, refresh[p].answer)
      \/ UNCHANGED <<ledgerVars, adjustment>>
  BY <1>1 DEF RefreshApply
<1> QED BY <1>5, <1>6, <1>7

LEMMA WebhookOrderly ==
    ASSUME TypeOK, Orderly, MoneyInv, OrderlyInv, NEW e \in sent, ProcessGatewayWebhook(e)
    PROVE  OrderlyInv' /\ e.payment \in Payments /\ Outcome(e.payment)
<1> DEFINE p == e.payment
<1>1. p \in Payments /\ e.status \in {"processing", "succeeded", "failed", "reversed"}
  BY DEF TypeOK, WebhookEvent
<1>2. /\ e.status = gateway[p] /\ call[p] = "none" /\ refresh[p] = NoRefresh
      /\ ApplyGatewayResource(p, payment[p].status, e.status)
      /\ UNCHANGED <<call, refresh, gateway>>
  BY DEF ProcessGatewayWebhook, Undisturbed, Waiting, Orderly
<1>3. OrderlyAt(p)
  BY <1>1 DEF OrderlyInv
<1> HIDE DEF p
<1>4. payment[p].method = "gateway"
  <2>1. payment[p].method \in {"cash", "gateway"}
    BY <1>1 DEF TypeOK, PaymentRow
  <2>2. gateway[p] # "none"
    BY <1>1, <1>2
  <2> QED BY <1>3, <2>1, <2>2 DEF OrderlyAt
<1>5. payment[p].status # "absent"
  BY <1>3, <1>4 DEF OrderlyAt
<1>6. e.status = "reversed" => MoneyMoved(p)
  BY <1>2 DEF MoneyMoved
<1>7. payment[p].status = "reversed" => e.status \in {"succeeded", "reversed"}
  BY <1>2, <1>3, <1>4 DEF OrderlyAt, MoneyMoved
<1>8. Outcome(p)
  BY <1>1, <1>2, <1>7, AppliedOutcome
<1>9. /\ payment'[p].status \in {payment[p].status, e.status}
      /\ payment'[p].method = payment[p].method
      /\ \A q \in Payments \ {p} :
             payment'[q].status = payment[q].status /\ payment'[q].method = payment[q].method
  BY <1>1, <1>2, AppliedStatus
<1>10. payment'[p].status # "absent"
  BY <1>1, <1>5, <1>9
<1>11. payment'[p].status = "reversed" => MoneyMoved(p)
  BY <1>3, <1>4, <1>6, <1>9 DEF OrderlyAt
<1>12. OrderlyInv'
  BY <1>1, <1>2, <1>9, <1>10, <1>11, QuietOrderly
<1> QED BY <1>1, <1>8, <1>12 DEF p

(* A cash payment is undone: no request about it ever waits.               *)
LEMMA CashIsQuiet ==
    ASSUME OrderlyInv, NEW p \in Payments, payment[p].method = "cash"
    PROVE  call[p] = "none" /\ refresh[p] = NoRefresh
<1>1. OrderlyAt(p)
  BY DEF OrderlyInv
<1> QED BY <1>1 DEF OrderlyAt

LEMMA ReverseMarkOrderly ==
    ASSUME TypeOK, MoneyInv, OrderlyInv, NEW p \in Payments, payment[p].status = "succeeded",
           call[p] = "none", refresh[p] = NoRefresh,
           NEW day, Mark(p, "reversed", day), UNCHANGED <<call, refresh, gateway>>
    PROVE  OrderlyInv'
<1>1. /\ payment'[p].status = "reversed" /\ payment'[p].method = payment[p].method
      /\ \A q \in Payments \ {p} :
             payment'[q].status = payment[q].status /\ payment'[q].method = payment[q].method
  BY MarkedRow
<1>2. payment[p].method = "gateway" => MoneyMoved(p)
  BY DEF MoneyInv, SuccessMeansMoneyMoved
<1> QED BY <1>1, <1>2, QuietOrderly

LEMMA ReverseLatestOrderly ==
    ASSUME TypeOK, MoneyInv, OrderlyInv, NEW p \in Payments, ReverseLatestCashRepayment(p)
    PROVE  OrderlyInv' /\ Outcome(p)
<1>1. /\ payment[p].status = "succeeded" /\ payment[p].method = "cash"
      /\ ReverseLoanPayment(p) /\ ReverseJournal(p) /\ Mark(p, "reversed", payment[p].day)
      /\ UNCHANGED <<allocation, adjustment, call, refresh, gateway>>
      /\ treasury' = [treasury EXCEPT ![p] = "voided"]
  BY DEF ReverseLatestCashRepayment
<1>2. OrderlyInv'
  BY <1>1, CashIsQuiet, ReverseMarkOrderly
<1>3. Reverses(p)
  BY <1>1, ReversalReverses
<1>4. treasury'[p] = "voided"
  BY <1>1 DEF TypeOK
<1> QED BY <1>1, <1>2, <1>3, <1>4 DEF Outcome

LEMMA ReversePaymentOrderly ==
    ASSUME TypeOK, Orderly, MoneyInv, OrderlyInv, NEW p \in Payments,
           payment[p].status = "succeeded", Undisturbed(p), ReversePayment(p),
           UNCHANGED <<call, refresh, gateway>>
    PROVE  OrderlyInv' /\ Reverses(p)
<1>1. call[p] = "none" /\ refresh[p] = NoRefresh
  BY DEF Undisturbed, Waiting, Orderly
<1>2. OrderlyInv'
  BY <1>1, ReverseMarkOrderly DEF ReversePayment
<1>3. Reverses(p)
  BY ReversalReverses DEF ReversePayment
<1> QED BY <1>2, <1>3

LEMMA CreateSucceededOutcome ==
    ASSUME TypeOK, NEW p \in Payments, NEW purpose, NEW amount \in Nat, NEW day,
           CreateSucceeded(p, purpose, amount, day)
    PROVE  Outcome(p)
<1>1. /\ payment[p].status = "absent"
      /\ payment' = [payment EXCEPT ![p] =
          [status |-> "succeeded", purpose |-> purpose, method |-> "cash",
           amount |-> amount, day |-> day, pending |-> FALSE]]
      /\ FinalizeLoanPayment(p, purpose, amount) /\ PostBooks(p) /\ UNCHANGED adjustment
  BY DEF CreateSucceeded
<1>2. /\ payment'[p].status = "succeeded" /\ payment'[p].purpose = purpose
      /\ payment'[p].amount = amount
      /\ \A q \in Payments \ {p} : payment'[q] = payment[q]
  BY <1>1 DEF TypeOK
<1>3. payment[p].status \in Fresh
  BY <1>1 DEF Fresh
<1>4. Succeeds(p)
  BY <1>1, <1>2, <1>3, FinalizeSucceeds
<1> QED BY <1>1, <1>4 DEF Outcome

LEMMA CreateProcessingOutcome ==
    ASSUME TypeOK, NEW p \in Payments, NEW purpose, NEW amount,
           CreateProcessing(p, purpose, amount)
    PROVE  Outcome(p)
<1>1. /\ payment[p].status = "absent"
      /\ payment' = [payment EXCEPT ![p] =
          [status |-> "processing", purpose |-> purpose, method |-> "gateway",
           amount |-> amount, day |-> Never, pending |-> TRUE]]
      /\ UNCHANGED <<loan, paid, allocation, journal, adjustment>>
  BY DEF CreateProcessing
<1>2. /\ payment'[p].status = "processing"
      /\ \A q \in Payments \ {p} : payment'[q] = payment[q]
  BY <1>1 DEF TypeOK
<1>3. Wanders(p)
  BY <1>1, <1>2 DEF Wanders, Others, SameRow, SameLoan, Fresh
<1> QED BY <1>1, <1>3 DEF Outcome

LEMMA FinishOutcome ==
    ASSUME TypeOK, OrderlyInv, NEW p \in Payments, FinishInitiation(p)
    PROVE  Outcome(p)
<1>1. OrderlyAt(p)
  BY DEF OrderlyInv
<1>2. call[p] # "none" /\ UNCHANGED adjustment
  BY DEF FinishInitiation, Answers
<1>3. payment[p].status = "processing"
  BY <1>1, <1>2 DEF OrderlyAt
<1>4. payment[p].status \in Fresh /\ "failed" \in Fresh \cup {"reversed"}
  BY <1>3 DEF Fresh
<1>5. CASE Mark(p, payment[p].status, payment[p].day) /\ UNCHANGED <<loan, paid, allocation, journal>>
  <2>1. Stands
    BY <1>5, MarkSame
  <2> QED BY <1>2, <2>1 DEF Outcome
<1>6. CASE Mark(p, "failed", payment[p].day) /\ UNCHANGED <<loan, paid, allocation, journal>>
  <2>1. Wanders(p)
    BY <1>4, <1>6, MarkWanders
  <2> QED BY <1>2, <2>1 DEF Outcome
<1>7. CASE FinalizeGatewayPayment(p)
  <2>1. Succeeds(p)
    BY <1>4, <1>7, GatewaySucceeds
  <2> QED BY <1>2, <2>1 DEF Outcome
<1>8. CASE UNCHANGED ledgerVars
  <2>1. Stands
    BY <1>8, UntouchedStands DEF ledgerVars
  <2> QED BY <1>2, <2>1 DEF Outcome
<1>9. CASE /\ payment' = [payment EXCEPT ![p].status = "failed"]
           /\ UNCHANGED <<loan, paid, allocation, journal>>
  <2>1. /\ payment'[p].status = "failed"
        /\ \A q \in Payments \ {p} : payment'[q] = payment[q]
    BY <1>9 DEF TypeOK, PaymentRow
  <2>2. Wanders(p)
    BY <1>4, <1>9, <2>1 DEF Wanders, Others, SameRow, SameLoan
  <2> QED BY <1>2, <2>2 DEF Outcome
<1> QED BY <1>5, <1>6, <1>7, <1>8, <1>9 DEF FinishInitiation

LEMMA LedgerKeptOutcome ==
    ASSUME NEW p \in Payments, UNCHANGED ledgerVars, UNCHANGED adjustment
    PROVE  Outcome(p)
BY UntouchedStands DEF Outcome, ledgerVars

LEMMA PaymentStepOrderly ==
    ASSUME TypeOK, Orderly, MoneyInv, OrderlyInv, NEW p \in Payments, PaymentStep(p)
    PROVE  OrderlyInv' /\ Outcome(p)
<1>1. CASE DisburseCash(p)
  <2>1. CreateSucceeded(p, "disbursement", Principal, today) /\ Principal \in Nat
    BY <1>1, AmountsAssumption DEF DisburseCash
  <2> QED BY <2>1, CreateSucceededOrderly, CreateSucceededOutcome
<1>2. CASE DisburseByGateway(p)
  BY <1>2, CreateProcessingOrderly, CreateProcessingOutcome DEF DisburseByGateway
<1>3. ASSUME NEW t \in Tenders, NEW g \in BOOLEAN, NEW d \in 0 .. LastDay,
             RecordCashRepayment(p, t, g, d)
      PROVE  OrderlyInv' /\ Outcome(p)
  <2>1. PICK applied \in 1 .. t : CreateSucceeded(p, "repayment", applied, d)
    BY <1>3 DEF RecordCashRepayment
  <2>2. applied \in Nat
    BY AmountsAssumption
  <2> QED BY <2>1, <2>2, CreateSucceededOrderly, CreateSucceededOutcome
<1>4. CASE \E t \in Tenders : StartGatewayRepayment(p, t)
  BY <1>4, CreateProcessingOrderly, CreateProcessingOutcome DEF StartGatewayRepayment
<1>5. CASE \E answer \in Answers : GatewayAnswers(p, answer)
  <2>1. UNCHANGED ledgerVars /\ UNCHANGED adjustment
    BY <1>5 DEF GatewayAnswers
  <2> QED BY <1>5, <2>1, AnswersOrderly, LedgerKeptOutcome
<1>6. CASE GatewayMoves(p)
  <2>1. UNCHANGED ledgerVars /\ UNCHANGED adjustment
    BY <1>6 DEF GatewayMoves
  <2> QED BY <1>6, <2>1, MovesOrderly, LedgerKeptOutcome
<1>7. CASE FinishInitiation(p)
  BY <1>7, FinishOrderly, FinishOutcome
<1>8. CASE CrashInitiation(p)
  <2>1. UNCHANGED ledgerVars /\ UNCHANGED adjustment
    BY <1>8 DEF CrashInitiation
  <2> QED BY <1>8, <2>1, CrashOrderly, LedgerKeptOutcome
<1>9. CASE RefreshLoad(p)
  <2>1. UNCHANGED ledgerVars /\ UNCHANGED adjustment
    BY <1>9 DEF RefreshLoad
  <2> QED BY <1>9, <2>1, RefreshLoadOrderly, LedgerKeptOutcome
<1>10. CASE RefreshAnswer(p)
  <2>1. UNCHANGED ledgerVars /\ UNCHANGED adjustment
    BY <1>10 DEF RefreshAnswer
  <2> QED BY <1>10, <2>1, RefreshAnswerOrderly, LedgerKeptOutcome
<1>11. CASE RefreshApply(p)
  BY <1>11, RefreshApplyOrderly
<1>12. CASE ReverseLatestCashRepayment(p)
  BY <1>12, ReverseLatestOrderly
<1> QED
  BY <1>1, <1>2, <1>3, <1>4, <1>5, <1>6, <1>7, <1>8, <1>9, <1>10, <1>11, <1>12 DEF PaymentStep

(* Adjustments: rows change by hand; only an approval or a confirmation    *)
(* undoes the payment.                                                     *)
Files(a) ==
    \E p \in Payments, kind \in {"reversal", "chargeback"}, user \in Users :
        /\ payment[p].status = "succeeded"
        /\ \A b \in Adjustments :
              ~(adjustment[b].status \in ActiveAdjustment /\ adjustment[b].payment = p)
        /\ adjustment' = [adjustment EXCEPT ![a] =
              [status |-> "pending_approval", payment |-> p, kind |-> kind, maker |-> user]]

Becomes(a, status) == adjustment' = [adjustment EXCEPT ![a].status = status]

Decides(a) ==
    /\ adjustment[a].status = "pending_approval"
    /\ \/ Becomes(a, "rejected")
       \/ /\ Becomes(a, "under_investigation") /\ adjustment[a].kind = "chargeback"
          /\ payment[adjustment[a].payment].status = "succeeded"
       \/ /\ Becomes(a, "processing") /\ payment[adjustment[a].payment].status = "succeeded"
          /\ payment[adjustment[a].payment].method = "gateway"

Undoes(a) ==
    /\ Becomes(a, "completed")
    /\ \/ /\ adjustment[a].status = "pending_approval"
          /\ payment[adjustment[a].payment].method = "cash"
       \/ adjustment[a].status \in {"processing", "under_investigation"}
    /\ Reverses(adjustment[a].payment)

LEMMA AdjustmentStepOrderly ==
    ASSUME TypeOK, Orderly, MoneyInv, OrderlyInv, NEW a \in Adjustments, AdjustmentStep(a)
    PROVE  OrderlyInv' /\ ((Stands /\ (Files(a) \/ Decides(a))) \/ Undoes(a))
<1>1. UNCHANGED <<call, refresh, gateway>>
  BY DEF AdjustmentStep, RequestAdjustment, ApproveAdjustment, RejectAdjustment, ConfirmAdjustment
<1>2. ASSUME UNCHANGED ledgerVars PROVE OrderlyInv' /\ Stands
  BY <1>1, <1>2, OrderlyStays, UntouchedStands DEF ledgerVars
<1>3. adjustment[a].status # "absent" => adjustment[a].payment \in Payments
  BY DecidedAdjustmentType DEF TypeOK
<1>4. ASSUME NEW p \in Payments, NEW kind \in {"reversal", "chargeback"}, NEW u \in Users,
             RequestAdjustment(a, p, kind, u)
      PROVE  OrderlyInv' /\ Stands /\ Files(a)
  <2>1. Files(a)
    BY <1>4 DEF RequestAdjustment, Files
  <2>2. UNCHANGED ledgerVars
    BY <1>4 DEF RequestAdjustment
  <2> QED BY <1>2, <2>1, <2>2
<1>5. ASSUME NEW u \in Users, ApproveAdjustment(a, u)
      PROVE  OrderlyInv' /\ ((Stands /\ Decides(a)) \/ Undoes(a))
  <2>1. /\ adjustment[a].status = "pending_approval"
        /\ payment[adjustment[a].payment].status = "succeeded"
        /\ Undisturbed(adjustment[a].payment)
    BY <1>5 DEF ApproveAdjustment
  <2>2. CASE /\ UNCHANGED ledgerVars /\ Becomes(a, "under_investigation")
             /\ adjustment[a].kind = "chargeback"
    BY <1>2, <2>1, <2>2 DEF Decides
  <2>3. CASE /\ UNCHANGED ledgerVars /\ Becomes(a, "processing")
             /\ payment[adjustment[a].payment].method = "gateway"
    BY <1>2, <2>1, <2>3 DEF Decides
  <2>4. CASE /\ ReversePayment(adjustment[a].payment) /\ Becomes(a, "completed")
             /\ payment[adjustment[a].payment].method = "cash"
    <3>1. OrderlyInv' /\ Reverses(adjustment[a].payment)
      BY <1>1, <1>3, <2>1, <2>4, ReversePaymentOrderly
    <3> QED BY <2>1, <2>4, <3>1 DEF Undoes
  <2> QED BY <1>5, <2>2, <2>3, <2>4 DEF ApproveAdjustment, Becomes
<1>6. ASSUME NEW u \in Users, RejectAdjustment(a, u)
      PROVE  OrderlyInv' /\ Stands /\ Decides(a)
  <2>1. Decides(a)
    BY <1>6 DEF RejectAdjustment, Decides, Becomes
  <2>2. UNCHANGED ledgerVars
    BY <1>6 DEF RejectAdjustment
  <2> QED BY <1>2, <2>1, <2>2
<1>7. ASSUME ConfirmAdjustment(a) PROVE OrderlyInv' /\ Undoes(a)
  <2>1. /\ adjustment[a].status \in {"processing", "under_investigation"}
        /\ payment[adjustment[a].payment].status = "succeeded"
        /\ Undisturbed(adjustment[a].payment) /\ ReversePayment(adjustment[a].payment)
        /\ Becomes(a, "completed")
    BY <1>7 DEF ConfirmAdjustment, Becomes
  <2>2. OrderlyInv' /\ Reverses(adjustment[a].payment)
    BY <1>1, <1>3, <2>1, ReversePaymentOrderly
  <2> QED BY <2>1, <2>2 DEF Undoes
<1> QED BY <1>4, <1>5, <1>6, <1>7 DEF AdjustmentStep

LEMMA StepOrderly ==
    ASSUME TypeOK, Orderly, MoneyInv, OrderlyInv, [Next]_vars
    PROVE  /\ OrderlyInv'
           /\ \/ Stands /\ UNCHANGED adjustment
              \/ \E p \in Payments : Outcome(p)
              \/ \E a \in Adjustments : (Stands /\ (Files(a) \/ Decides(a))) \/ Undoes(a)
<1>1. CASE \E p \in Payments : PaymentStep(p)
  BY <1>1, PaymentStepOrderly
<1>2. CASE \E e \in sent : ProcessGatewayWebhook(e)
  BY <1>2, WebhookOrderly
<1>3. CASE \E a \in Adjustments : AdjustmentStep(a)
  BY <1>3, AdjustmentStepOrderly
<1>4. CASE NextDay \/ UNCHANGED vars
  <2>1. UNCHANGED <<loan, paid, payment, allocation, journal, adjustment, call, refresh, gateway>>
    BY <1>4 DEF NextDay, ledgerVars, vars
  <2> QED BY <2>1, OrderlyStays, UntouchedStands
<1> QED BY <1>1, <1>2, <1>3, <1>4 DEF Next

-----------------------------------------------------------------------------
(* The books follow the payments.                                          *)
BooksAt(p) ==
    /\ payment[p].status \in Fresh => journal[p] = "none" /\ ~Allocated(p)
    /\ payment[p].status = "succeeded" => journal[p] = "posted"
    /\ payment[p].status = "reversed" => journal[p] # "posted"

BooksInv == \A p \in Payments : BooksAt(p)

LEMMA BooksInit == Init => BooksInv
BY DEF Init, BooksInv, BooksAt, Allocated, NoPayment

LEMMA BooksElsewhere ==
    ASSUME BooksInv, NEW p \in Payments, Others(p), BooksAt(p)'
    PROVE  BooksInv'
<1> SUFFICES ASSUME NEW q \in Payments, q # p PROVE BooksAt(q)'
  BY DEF BooksInv
<1>1. BooksAt(q) /\ SameRow(q)
  BY DEF BooksInv, Others
<1>2. Allocated(q)' <=> Allocated(q)
  BY <1>1 DEF SameRow, Allocated
<1> QED BY <1>1, <1>2 DEF BooksAt, SameRow

LEMMA BooksStand == ASSUME BooksInv, Stands PROVE BooksInv'
<1> SUFFICES ASSUME NEW q \in Payments PROVE BooksAt(q)'
  BY DEF BooksInv
<1>1. BooksAt(q) /\ SameRow(q)
  BY DEF BooksInv, Stands
<1>2. Allocated(q)' <=> Allocated(q)
  BY <1>1 DEF SameRow, Allocated
<1> QED BY <1>1, <1>2 DEF BooksAt, SameRow

LEMMA BooksWander == ASSUME BooksInv, NEW p \in Payments, Wanders(p) PROVE BooksInv'
<1>1. BooksAt(p)
  BY DEF BooksInv
<1>2. Allocated(p)' <=> Allocated(p)
  BY DEF Wanders, Allocated
<1>3. journal'[p] = "none" /\ ~Allocated(p)'
  BY <1>1, <1>2 DEF BooksAt, Wanders
<1>4. BooksAt(p)'
  BY <1>3 DEF BooksAt, Wanders, Fresh
<1> QED BY <1>4, BooksElsewhere DEF Wanders

LEMMA BooksSucceed == ASSUME BooksInv, NEW p \in Payments, Succeeds(p) PROVE BooksInv'
<1>1. BooksAt(p)
  BY DEF BooksInv
<1>2. payment'[p].status = "succeeded" /\ journal'[p] = "posted"
  BY <1>1 DEF BooksAt, Succeeds
<1>3. BooksAt(p)'
  BY <1>2 DEF BooksAt, Fresh
<1> QED BY <1>3, BooksElsewhere DEF Succeeds

LEMMA BooksReverse == ASSUME BooksInv, NEW p \in Payments, Reverses(p) PROVE BooksInv'
<1>1. BooksAt(p)
  BY DEF BooksInv
<1>2. payment'[p].status = "reversed" /\ journal'[p] = "reversed"
  BY <1>1 DEF BooksAt, Reverses
<1>3. BooksAt(p)'
  BY <1>2 DEF BooksAt, Fresh
<1> QED BY <1>3, BooksElsewhere DEF Reverses

-----------------------------------------------------------------------------
(* The loan and its schedule reconcile with the payments.                  *)
CreditedPayments == {p \in Payments : Credited(p)}
Amounts == [p \in Payments |-> payment[p].amount]
Parts(i) == [p \in Payments |-> allocation[p][i]]

LEMMA ReconcilesMeans ==
    LedgerReconciles <=>
        /\ loan.amountPaid = SumFunctionOnSet(Amounts, CreditedPayments)
        /\ \A i \in Installments : paid[i] = SumFunctionOnSet(Parts(i), CreditedPayments)
BY DEF LedgerReconciles, CreditedPayments, Amounts, Parts

LEMMA ReconcilesMeansNext ==
    LedgerReconciles' <=>
        /\ loan'.amountPaid = SumFunctionOnSet(Amounts', CreditedPayments')
        /\ \A i \in Installments : paid'[i] = SumFunctionOnSet(Parts(i)', CreditedPayments')
BY DEF LedgerReconciles, CreditedPayments, Amounts, Parts

LEMMA CreditsStay ==
    ASSUME NEW C, C \subseteq Payments, NEW f, NEW g, \A q \in C : f[q] \in Nat /\ g[q] = f[q]
    PROVE  SumFunctionOnSet(g, C) = SumFunctionOnSet(f, C)
<1>1. IsFiniteSet(C)
  BY PaymentsAssumption, FS_Subset
<1>2. \A q \in C : g[q] \in Int /\ g[q] = f[q]
  OBVIOUS
<1> QED BY <1>1, <1>2, SumSame

LEMMA CreditJoins ==
    ASSUME NEW C, C \subseteq Payments, NEW p \in Payments, p \notin C, NEW f, NEW g,
           g[p] \in Nat, \A q \in C : f[q] \in Nat, \A q \in C : g[q] = f[q]
    PROVE  SumFunctionOnSet(g, C \cup {p}) = SumFunctionOnSet(f, C) + g[p]
<1>1. IsFiniteSet(C)
  BY PaymentsAssumption, FS_Subset
<1>2. \A q \in C \cup {p} : g[q] \in Int
  OBVIOUS
<1>3. SumFunctionOnSet(g, C \cup {p}) = SumFunctionOnSet(g, C) + g[p]
  BY <1>1, <1>2, SumJoins
<1>4. SumFunctionOnSet(g, C) = SumFunctionOnSet(f, C)
  BY CreditsStay
<1> QED BY <1>3, <1>4

LEMMA CreditLeaves ==
    ASSUME NEW C, C \subseteq Payments, NEW p \in C, NEW f, NEW g,
           \A q \in C : f[q] \in Nat, \A q \in C \ {p} : g[q] = f[q]
    PROVE  SumFunctionOnSet(g, C \ {p}) = Monus(SumFunctionOnSet(f, C), f[p])
<1>1. IsFiniteSet(C) /\ IsFiniteSet(C \ {p})
  BY PaymentsAssumption, FS_Subset
<1>2. \A q \in C : f[q] \in Int
  OBVIOUS
<1>3. SumFunctionOnSet(f, C) = f[p] + SumFunctionOnSet(f, C \ {p})
  BY <1>1, <1>2, SumTakesOut
<1>4. SumFunctionOnSet(f, C \ {p}) \in Nat
  BY <1>1, SumNat
<1>5. C \ {p} \subseteq Payments /\ \A q \in C \ {p} : f[q] \in Nat /\ g[q] = f[q]
  OBVIOUS
<1>6. SumFunctionOnSet(g, C \ {p}) = SumFunctionOnSet(f, C \ {p})
  BY <1>5, CreditsStay
<1>7. \A a, b \in Nat : Monus(a + b, a) = b
  BY DEF Monus
<1>8. f[p] \in Nat
  OBVIOUS
<1> QED BY <1>3, <1>4, <1>6, <1>7, <1>8

LEMMA AmountNat ==
    ASSUME TypeOK
    PROVE  /\ \A q \in Payments : Amounts[q] \in Nat /\ Amounts[q] = payment[q].amount
           /\ \A i \in Installments, q \in Payments :
                  Parts(i)[q] \in Nat /\ Parts(i)[q] = allocation[q][i]
BY RowType DEF TypeOK, Amounts, Parts

LEMMA AmountNatNext ==
    ASSUME TypeOK'
    PROVE  /\ \A q \in Payments : (Amounts')[q] \in Nat /\ (Amounts')[q] = payment'[q].amount
           /\ \A i \in Installments, q \in Payments :
                  (Parts(i)')[q] \in Nat /\ (Parts(i)')[q] = allocation'[q][i]
<1>1. \A q \in Payments : payment'[q].amount \in Nat
  BY DEF TypeOK, PaymentRow
<1>2. \A q \in Payments, i \in Installments : allocation'[q][i] \in Nat
  BY DEF TypeOK
<1> QED BY <1>1, <1>2 DEF Amounts, Parts

(* The credited payments stay the same, or one joins or leaves.            *)
LEMMA NoneJoins ==
    ASSUME TypeOK, LedgerReconciles, SameLoan, CreditedPayments' = CreditedPayments,
           \A q \in CreditedPayments : SameRow(q)
    PROVE  LedgerReconciles'
<1> DEFINE C == CreditedPayments
           a == Amounts
           b == Amounts'
<1>1. C \subseteq Payments
  BY DEF CreditedPayments
<1>2. SumFunctionOnSet(b, C) = SumFunctionOnSet(a, C)
  <2>1. \A q \in C : a[q] \in Nat /\ b[q] = a[q]
    BY <1>1, AmountNat DEF SameRow, Amounts
  <2> HIDE DEF C, a, b
  <2> QED BY <1>1, <2>1, CreditsStay
<1>3. ASSUME NEW i \in Installments
      PROVE  SumFunctionOnSet(Parts(i)', C) = SumFunctionOnSet(Parts(i), C)
  <2> DEFINE f == Parts(i)
             g == Parts(i)'
  <2>1. \A q \in C : f[q] \in Nat /\ g[q] = f[q]
    BY <1>1, AmountNat DEF SameRow, Parts
  <2> HIDE DEF C, f, g
  <2>2. SumFunctionOnSet(g, C) = SumFunctionOnSet(f, C)
    BY <1>1, <2>1, CreditsStay
  <2> QED BY <2>2 DEF f, g
<1> QED BY <1>2, <1>3, ReconcilesMeans, ReconcilesMeansNext DEF SameLoan

LEMMA OneJoins ==
    ASSUME TypeOK, TypeOK', LedgerReconciles, NEW p \in Payments, Others(p), ~Credited(p), Credited(p)',
           Pays(p)
    PROVE  LedgerReconciles'
<1> DEFINE C == CreditedPayments
           a == Amounts
           b == Amounts'
<1>0. CreditedPayments' = C \cup {p} /\ p \notin C /\ C \subseteq Payments
  BY DEF CreditedPayments, Credited, Others, SameRow
<1>1. PICK share \in [Installments -> Nat] :
        /\ loan'.amountPaid = loan.amountPaid + payment'[p].amount
        /\ paid' = [i \in Installments |-> paid[i] + share[i]]
        /\ allocation'[p] = share
  BY DEF Pays
<1>2. loan'.amountPaid = SumFunctionOnSet(b, C \cup {p})
  <2>1. \A q \in C : a[q] \in Nat /\ b[q] = a[q]
    <3> SUFFICES ASSUME NEW q \in C PROVE a[q] \in Nat /\ b[q] = a[q]
      OBVIOUS
    <3>1. q \in Payments /\ q # p
      BY <1>0
    <3> QED BY <3>1, AmountNat, AmountNatNext DEF Others, SameRow
  <2>2. b[p] \in Nat /\ b[p] = payment'[p].amount
    BY AmountNatNext
  <2>3. loan.amountPaid = SumFunctionOnSet(a, C)
    BY ReconcilesMeans
  <2> HIDE DEF C, a, b
  <2>4. SumFunctionOnSet(b, C \cup {p}) = SumFunctionOnSet(a, C) + b[p]
    <3>1. C \subseteq Payments /\ p \notin C
      BY <1>0
    <3>2. (\A q \in C : a[q] \in Nat) /\ (\A q \in C : b[q] = a[q])
      BY <2>1
    <3>3. b[p] \in Nat
      BY <2>2
    <3> QED BY <3>1, <3>2, <3>3, CreditJoins
  <2> QED BY <1>1, <2>2, <2>3, <2>4
<1>3. ASSUME NEW i \in Installments
      PROVE  paid'[i] = SumFunctionOnSet(Parts(i)', C \cup {p})
  <2> DEFINE f == Parts(i)
             g == Parts(i)'
  <2>1. \A q \in C : f[q] \in Nat /\ g[q] = f[q]
    <3> SUFFICES ASSUME NEW q \in C PROVE f[q] \in Nat /\ g[q] = f[q]
      OBVIOUS
    <3>1. q \in Payments /\ q # p
      BY <1>0
    <3> QED BY <3>1, AmountNat, AmountNatNext DEF Others, SameRow
  <2>2. g[p] \in Nat /\ g[p] = share[i]
    BY <1>1, AmountNatNext
  <2>3. paid[i] = SumFunctionOnSet(f, C)
    BY ReconcilesMeans
  <2>4. paid'[i] = paid[i] + share[i]
    BY <1>1
  <2> HIDE DEF C, f, g
  <2>5. SumFunctionOnSet(g, C \cup {p}) = SumFunctionOnSet(f, C) + g[p]
    <3>1. C \subseteq Payments /\ p \notin C
      BY <1>0
    <3>2. (\A q \in C : f[q] \in Nat) /\ (\A q \in C : g[q] = f[q])
      BY <2>1
    <3>3. g[p] \in Nat
      BY <2>2
    <3> QED BY <3>1, <3>2, <3>3, CreditJoins
  <2>6. paid'[i] = SumFunctionOnSet(g, C \cup {p})
    BY <2>2, <2>3, <2>4, <2>5
  <2> QED BY <2>6 DEF g
<1> QED BY <1>0, <1>2, <1>3, ReconcilesMeansNext

LEMMA OneLeaves ==
    ASSUME TypeOK, TypeOK', LedgerReconciles, NEW p \in Payments, Others(p), Credited(p), ~Credited(p)',
           TakesBack(p)
    PROVE  LedgerReconciles'
<1> DEFINE C == CreditedPayments
           a == Amounts
           b == Amounts'
<1>0. CreditedPayments' = C \ {p} /\ p \in C /\ C \subseteq Payments
  BY DEF CreditedPayments, Credited, Others, SameRow
<1>2. loan'.amountPaid = SumFunctionOnSet(b, C \ {p})
  <2>1. \A q \in C : a[q] \in Nat
    BY <1>0, AmountNat
  <2>2. \A q \in C \ {p} : b[q] = a[q]
    <3> SUFFICES ASSUME NEW q \in C, q # p PROVE b[q] = a[q]
      OBVIOUS
    <3> QED BY <1>0, AmountNat, AmountNatNext DEF Others, SameRow
  <2>3. loan.amountPaid = SumFunctionOnSet(a, C) /\ a[p] = payment[p].amount
    BY ReconcilesMeans, AmountNat
  <2>4. loan'.amountPaid = Monus(loan.amountPaid, payment[p].amount)
    BY DEF TakesBack
  <2> HIDE DEF C, a, b
  <2>5. SumFunctionOnSet(b, C \ {p}) = Monus(SumFunctionOnSet(a, C), a[p])
    BY <1>0, <2>1, <2>2, CreditLeaves
  <2> QED BY <2>3, <2>4, <2>5
<1>3. ASSUME NEW i \in Installments
      PROVE  paid'[i] = SumFunctionOnSet(Parts(i)', C \ {p})
  <2> DEFINE f == Parts(i)
             g == Parts(i)'
  <2>1. \A q \in C : f[q] \in Nat
    BY <1>0, AmountNat
  <2>2. \A q \in C \ {p} : g[q] = f[q]
    <3> SUFFICES ASSUME NEW q \in C, q # p PROVE g[q] = f[q]
      OBVIOUS
    <3> QED BY <1>0, AmountNat, AmountNatNext DEF Others, SameRow
  <2>3. paid[i] = SumFunctionOnSet(f, C) /\ f[p] = allocation[p][i]
    BY ReconcilesMeans, AmountNat
  <2>4. paid'[i] = Monus(paid[i], allocation[p][i])
    BY DEF TakesBack
  <2> HIDE DEF C, f, g
  <2>5. SumFunctionOnSet(g, C \ {p}) = Monus(SumFunctionOnSet(f, C), f[p])
    BY <1>0, <2>1, <2>2, CreditLeaves
  <2>6. paid'[i] = SumFunctionOnSet(g, C \ {p})
    BY <2>3, <2>4, <2>5
  <2> QED BY <2>6 DEF g
<1> QED BY <1>0, <1>2, <1>3, ReconcilesMeansNext

LEMMA ReconcilesStep ==
    ASSUME TypeOK, TypeOK', BooksInv, LedgerReconciles,
           Stands \/ \E p \in Payments : Wanders(p) \/ Succeeds(p) \/ Reverses(p)
    PROVE  LedgerReconciles'
<1>1. CASE Stands
  <2>1. CreditedPayments' = CreditedPayments /\ \A q \in CreditedPayments : SameRow(q)
    BY <1>1 DEF Stands, SameRow, CreditedPayments, Credited
  <2> QED BY <1>1, <2>1, NoneJoins DEF Stands
<1>2. ASSUME NEW p \in Payments, Wanders(p) PROVE LedgerReconciles'
  <2>1. ~Credited(p) /\ ~Credited(p)'
    BY <1>2 DEF Credited, Wanders, Fresh
  <2>2. CreditedPayments' = CreditedPayments /\ \A q \in CreditedPayments : SameRow(q)
    BY <1>2, <2>1 DEF Wanders, Others, SameRow, CreditedPayments, Credited
  <2> QED BY <1>2, <2>2, NoneJoins DEF Wanders
<1>3. ASSUME NEW p \in Payments, Succeeds(p) PROVE LedgerReconciles'
  <2>1. ~Allocated(p) /\ ~Credited(p) /\ Others(p)
    BY <1>3 DEF BooksInv, BooksAt, Succeeds, Credited, Fresh
  <2>2. CASE payment'[p].purpose = "disbursement" /\ SameLoan
    <3>1. ~Credited(p)'
      BY <2>2 DEF Credited
    <3>2. CreditedPayments' = CreditedPayments /\ \A q \in CreditedPayments : SameRow(q)
      BY <2>1, <3>1 DEF Others, SameRow, CreditedPayments, Credited
    <3> QED BY <2>2, <3>2, NoneJoins
  <2>3. CASE Pays(p)
    <3>1. Credited(p)'
      BY <1>3, <2>3 DEF Credited, Succeeds, Pays
    <3> QED BY <2>1, <2>3, <3>1, OneJoins
  <2> QED BY <1>3, <2>1, <2>2, <2>3 DEF Succeeds
<1>4. ASSUME NEW p \in Payments, Reverses(p) PROVE LedgerReconciles'
  <2>1. ~Credited(p)' /\ Others(p)
    BY <1>4 DEF Reverses, Credited
  <2>2. CASE payment[p].purpose = "disbursement" /\ SameLoan
    <3>1. ~Credited(p)
      BY <2>2 DEF Credited
    <3>2. CreditedPayments' = CreditedPayments /\ \A q \in CreditedPayments : SameRow(q)
      BY <2>1, <3>1 DEF Others, SameRow, CreditedPayments, Credited
    <3> QED BY <2>2, <3>2, NoneJoins
  <2>3. CASE TakesBack(p)
    <3>1. Credited(p)
      BY <1>4, <2>3 DEF Credited, Reverses, TakesBack
    <3> QED BY <2>1, <2>3, <3>1, OneLeaves
  <2> QED BY <1>4, <2>2, <2>3 DEF Reverses
<1> QED BY <1>1, <1>2, <1>3, <1>4

LEMMA ReconcilesInit == Init => LedgerReconciles
<1> SUFFICES ASSUME Init PROVE LedgerReconciles
  OBVIOUS
<1>1. CreditedPayments = {}
  BY DEF Init, CreditedPayments, Credited, NoPayment
<1>2. \A f : SumFunctionOnSet(f, CreditedPayments) = 0
  BY <1>1, SumEmpty
<1>3. loan.amountPaid = 0 /\ \A i \in Installments : paid[i] = 0
  BY DEF Init
<1> QED BY <1>2, <1>3, ReconcilesMeans

-----------------------------------------------------------------------------
(* A voided treasury entry stays voided.                                   *)
VoidsStay == \A q \in Payments : treasury[q] = "voided" => treasury'[q] = "voided"

LEMMA PostedBooksKeepVoids == ASSUME TypeOK, NEW p \in Payments, PostBooks(p) PROVE VoidsStay
BY DEF TypeOK, PostBooks, VoidsStay

LEMMA AppliedKeepsVoids ==
    ASSUME TypeOK, NEW p \in Payments, NEW seen, NEW status, ApplyGatewayResource(p, seen, status)
    PROVE  VoidsStay
<1>1. CASE FinalizeGatewayPayment(p)
  BY <1>1, PostedBooksKeepVoids DEF FinalizeGatewayPayment
<1>2. CASE UNCHANGED treasury
  BY <1>2 DEF VoidsStay
<1> QED BY <1>1, <1>2 DEF ApplyGatewayResource, ReversePayment

LEMMA VoidsKept == ASSUME TypeOK, [Next]_vars PROVE VoidsStay
<1>1. CASE UNCHANGED treasury
  BY <1>1 DEF VoidsStay
<1>2. ASSUME NEW p \in Payments, PaymentStep(p) PROVE VoidsStay
  <2>1. CASE /\ ~FinishInitiation(p) /\ ~RefreshApply(p) /\ ~ReverseLatestCashRepayment(p)
             /\ ~DisburseCash(p)
             /\ ~\E t \in Tenders, g \in BOOLEAN, d \in 0 .. LastDay : RecordCashRepayment(p, t, g, d)
    <3>1. UNCHANGED treasury
      BY <1>2, <2>1 DEF PaymentStep, DisburseByGateway, StartGatewayRepayment, CreateProcessing,
         GatewayAnswers, GatewayMoves, CrashInitiation, RefreshLoad, RefreshAnswer, ledgerVars
    <3> QED BY <1>1, <3>1
  <2>2. CASE FinishInitiation(p)
    <3>1. FinalizeGatewayPayment(p) \/ UNCHANGED treasury
      BY <2>2 DEF FinishInitiation, ledgerVars
    <3> QED BY <1>1, <3>1, PostedBooksKeepVoids DEF FinalizeGatewayPayment
  <2>3. CASE RefreshApply(p)
    <3>1. (\E seen, status : ApplyGatewayResource(p, seen, status)) \/ UNCHANGED treasury
      BY <2>3 DEF RefreshApply, ledgerVars
    <3> QED BY <1>1, <3>1, AppliedKeepsVoids
  <2>4. CASE ReverseLatestCashRepayment(p)
    BY <2>4 DEF ReverseLatestCashRepayment, VoidsStay, TypeOK
  <2>5. CASE \/ DisburseCash(p)
             \/ \E t \in Tenders, g \in BOOLEAN, d \in 0 .. LastDay : RecordCashRepayment(p, t, g, d)
    <3>1. PostBooks(p)
      BY <2>5 DEF DisburseCash, RecordCashRepayment, CreateSucceeded
    <3> QED BY <3>1, PostedBooksKeepVoids
  <2> QED BY <2>1, <2>2, <2>3, <2>4, <2>5
<1>3. ASSUME NEW e \in sent, ProcessGatewayWebhook(e) PROVE VoidsStay
  <2>1. e.payment \in Payments
    BY <1>3 DEF TypeOK, WebhookEvent
  <2> QED BY <1>3, <2>1, AppliedKeepsVoids DEF ProcessGatewayWebhook
<1>4. ASSUME NEW a \in Adjustments, AdjustmentStep(a) PROVE VoidsStay
  <2>1. UNCHANGED treasury
    BY <1>4 DEF AdjustmentStep, RequestAdjustment, ApproveAdjustment, RejectAdjustment,
       ConfirmAdjustment, ReversePayment, ledgerVars
  <2> QED BY <1>1, <2>1
<1>5. CASE NextDay \/ UNCHANGED vars
  BY <1>1, <1>5 DEF NextDay, ledgerVars, vars
<1> QED BY <1>2, <1>3, <1>4, <1>5 DEF Next

(* Adjustments: what is processing is a gateway payment, and what is under *)
(* investigation a chargeback of a payment that stands or was voided.      *)
AdjustmentAt(a) ==
    /\ adjustment[a].status = "processing" =>
           /\ payment[adjustment[a].payment].status = "succeeded"
           /\ payment[adjustment[a].payment].method = "gateway"
    /\ adjustment[a].status = "under_investigation" =>
           /\ adjustment[a].kind = "chargeback"
           /\ \/ payment[adjustment[a].payment].status = "succeeded"
              \/ treasury[adjustment[a].payment] = "voided"
    /\ adjustment[a].status = "completed" =>
           payment[adjustment[a].payment].status = "reversed"

OneActive ==
    \A a, b \in Adjustments :
        /\ a # b
        /\ adjustment[a].status \in ActiveAdjustment /\ adjustment[b].status \in ActiveAdjustment
        => adjustment[a].payment # adjustment[b].payment

AdjInv == OneActive /\ \A a \in Adjustments : AdjustmentAt(a)

LEMMA AdjInvImplies == AdjInv => AdjustmentsTrackPayments
BY DEF AdjInv, OneActive, AdjustmentAt, AdjustmentsTrackPayments, Overtaken

LEMMA AdjInit == Init => AdjInv
BY DEF Init, AdjInv, OneActive, AdjustmentAt, NoAdjustment, ActiveAdjustment

LEMMA ActivePayment ==
    ASSUME TypeOK, NEW a \in Adjustments, adjustment[a].status # "absent"
    PROVE  adjustment[a].payment \in Payments
BY DecidedAdjustmentType DEF TypeOK

(* A payment's row, seen from an adjustment: it stays, it was neither      *)
(* succeeded nor reversed, or it is p's and is now reversed.               *)
LEMMA AdjustmentKept ==
    ASSUME TypeOK, VoidsStay, NEW a \in Adjustments, AdjustmentAt(a), adjustment'[a] = adjustment[a],
           NEW p \in Payments, Others(p),
           \/ SameRow(p) \/ payment[p].status \in Fresh
           \/ payment[p].method = "cash" /\ payment'[p].status = "reversed" /\ treasury'[p] = "voided"
    PROVE  AdjustmentAt(a)'
<1>1. CASE adjustment[a].status \notin {"processing", "under_investigation", "completed"}
  BY <1>1 DEF AdjustmentAt
<1>2. CASE adjustment[a].status \in {"processing", "under_investigation", "completed"}
  <2>1. PICK q \in Payments : q = adjustment[a].payment
    BY <1>2, ActivePayment
  <2>2. CASE q # p
    <3>1. SameRow(q)
      BY <2>2 DEF Others
    <3> QED BY <1>2, <2>1, <3>1 DEF AdjustmentAt, SameRow, VoidsStay
  <2>3. CASE q = p
    BY <1>2, <2>1, <2>3 DEF AdjustmentAt, SameRow, Fresh, VoidsStay
  <2> QED BY <2>2, <2>3
<1> QED BY <1>1, <1>2

LEMMA AdjStand ==
    ASSUME TypeOK, VoidsStay, AdjInv, Stands, UNCHANGED adjustment
    PROVE  AdjInv'
<1>1. OneActive'
  BY DEF AdjInv, OneActive
<1>2. ASSUME NEW a \in Adjustments PROVE AdjustmentAt(a)'
  <2>1. CASE adjustment[a].status \notin {"processing", "under_investigation", "completed"}
    BY <2>1 DEF AdjustmentAt
  <2>2. CASE adjustment[a].status \in {"processing", "under_investigation", "completed"}
    <3>1. adjustment[a].payment \in Payments /\ SameRow(adjustment[a].payment)
      BY <2>2, ActivePayment DEF Stands
    <3> QED BY <2>2, <3>1 DEF AdjInv, AdjustmentAt, SameRow, VoidsStay
  <2> QED BY <2>1, <2>2
<1> QED BY <1>1, <1>2 DEF AdjInv

LEMMA AdjOutcome ==
    ASSUME TypeOK, VoidsStay, AdjInv, NEW p \in Payments, Outcome(p)
    PROVE  AdjInv'
<1>1. CASE Stands /\ UNCHANGED adjustment
  BY <1>1, AdjStand
<1>2. CASE /\ Wanders(p) \/ Succeeds(p) \/ (Reverses(p) /\ payment[p].method = "cash" /\ treasury'[p] = "voided")
           /\ UNCHANGED adjustment
  <2>1. OneActive'
    BY <1>2 DEF AdjInv, OneActive
  <2>2. /\ Others(p)
        /\ \/ payment[p].status \in Fresh
           \/ payment[p].method = "cash" /\ payment'[p].status = "reversed" /\ treasury'[p] = "voided"
    BY <1>2 DEF Wanders, Succeeds, Reverses
  <2>3. ASSUME NEW a \in Adjustments PROVE AdjustmentAt(a)'
    <3>1. AdjustmentAt(a) /\ adjustment'[a] = adjustment[a]
      BY <1>2 DEF AdjInv
    <3> QED BY <2>2, <3>1, AdjustmentKept
  <2> QED BY <2>1, <2>3 DEF AdjInv
<1>3. CASE Reverses(p) /\ CompleteAdjustments(p)
  <2>1. ASSUME NEW a \in Adjustments
        PROVE  /\ adjustment'[a].payment = adjustment[a].payment
               /\ adjustment'[a].status \in ActiveAdjustment => adjustment[a].status \in ActiveAdjustment
               /\ \/ adjustment'[a] = adjustment[a]
                  \/ adjustment'[a].status = "completed" /\ adjustment[a].payment = p
               /\ adjustment[a].payment = p => adjustment'[a].status \notin {"processing", "under_investigation"}
    <3>1. CASE adjustment[a].status \in {"processing", "under_investigation"} /\ adjustment[a].payment = p
      <4>1. adjustment'[a] = [adjustment[a] EXCEPT !.status = "completed"]
        BY <1>3, <3>1 DEF CompleteAdjustments
      <4>2. adjustment[a] \in [status : ActiveAdjustment \cup {"rejected"}, payment : Payments,
                               kind : {"reversal", "chargeback"}, maker : Users]
        BY <3>1 DEF TypeOK, AdjustmentRow, NoAdjustment
      <4>3. adjustment'[a].status = "completed" /\ adjustment'[a].payment = adjustment[a].payment
        BY <4>1, <4>2
      <4> QED BY <3>1, <4>3 DEF ActiveAdjustment
    <3>2. CASE ~(adjustment[a].status \in {"processing", "under_investigation"} /\ adjustment[a].payment = p)
      <4>1. adjustment'[a] = adjustment[a]
        BY <1>3, <3>2 DEF CompleteAdjustments
      <4> QED BY <3>2, <4>1
    <3> QED BY <3>1, <3>2
  <2>2. OneActive'
    BY <2>1 DEF AdjInv, OneActive
  <2>3. ASSUME NEW a \in Adjustments PROVE AdjustmentAt(a)'
    <3>1. Others(p) /\ payment'[p].status = "reversed"
      BY <1>3 DEF Reverses
    <3>2. AdjustmentAt(a)
      BY DEF AdjInv
    <3>3. CASE adjustment'[a] = adjustment[a] /\ adjustment[a].payment # p
      <4>1. CASE adjustment[a].status \notin {"processing", "under_investigation", "completed"}
        BY <3>3, <4>1 DEF AdjustmentAt
      <4>2. CASE adjustment[a].status \in {"processing", "under_investigation", "completed"}
        <5>1. adjustment[a].payment \in Payments /\ SameRow(adjustment[a].payment)
          BY <3>1, <3>3, <4>2, ActivePayment DEF Others
        <5> QED BY <3>2, <3>3, <4>2, <5>1 DEF AdjustmentAt, SameRow, VoidsStay
      <4> QED BY <4>1, <4>2
    <3>4. CASE adjustment[a].payment = p
      <4>1. adjustment'[a].payment = p /\ adjustment'[a].status \notin {"processing", "under_investigation"}
        BY <2>1, <3>4
      <4> QED BY <3>1, <4>1 DEF AdjustmentAt
    <3> QED BY <2>1, <3>3, <3>4
  <2> QED BY <2>2, <2>3 DEF AdjInv
<1> QED BY <1>1, <1>2, <1>3 DEF Outcome

LEMMA BecomesRow ==
    ASSUME TypeOK, NEW a \in Adjustments, adjustment[a].status # "absent", NEW status, Becomes(a, status)
    PROVE  /\ adjustment'[a].status = status /\ adjustment'[a].payment = adjustment[a].payment
           /\ adjustment'[a].kind = adjustment[a].kind
           /\ \A b \in Adjustments \ {a} : adjustment'[b] = adjustment[b]
<1>1. adjustment[a] \in [status : ActiveAdjustment \cup {"rejected"}, payment : Payments,
                         kind : {"reversal", "chargeback"}, maker : Users]
  BY DEF TypeOK, AdjustmentRow, NoAdjustment
<1>2. adjustment' = [adjustment EXCEPT ![a] = [adjustment[a] EXCEPT !.status = status]]
  BY DEF Becomes
<1>3. adjustment'[a] = [adjustment[a] EXCEPT !.status = status]
  BY <1>2 DEF TypeOK
<1>4. \A b \in Adjustments \ {a} : adjustment'[b] = adjustment[b]
  BY <1>2 DEF TypeOK
<1> QED BY <1>1, <1>3, <1>4

LEMMA AdjFiles ==
    ASSUME TypeOK, VoidsStay, AdjInv, NEW a \in Adjustments, Stands, Files(a)
    PROVE  AdjInv'
<1>1. PICK p \in Payments, kind \in {"reversal", "chargeback"}, user \in Users :
        /\ \A b \in Adjustments :
              ~(adjustment[b].status \in ActiveAdjustment /\ adjustment[b].payment = p)
        /\ adjustment' = [adjustment EXCEPT ![a] =
              [status |-> "pending_approval", payment |-> p, kind |-> kind, maker |-> user]]
  BY DEF Files
<1>2. /\ adjustment'[a].status = "pending_approval" /\ adjustment'[a].payment = p
      /\ \A b \in Adjustments \ {a} : adjustment'[b] = adjustment[b]
  BY <1>1 DEF TypeOK
<1>3. OneActive'
  BY <1>1, <1>2 DEF AdjInv, OneActive
<1>4. ASSUME NEW b \in Adjustments PROVE AdjustmentAt(b)'
  <2>1. CASE b = a
    BY <1>2, <2>1 DEF AdjustmentAt
  <2>2. CASE b # a
    <3>1. AdjustmentAt(b) /\ adjustment'[b] = adjustment[b]
      BY <1>2, <2>2 DEF AdjInv
    <3>2. SameRow(p) /\ Others(p)
      BY DEF Stands, Others
    <3> QED BY <3>1, <3>2, AdjustmentKept
  <2> QED BY <2>1, <2>2
<1> QED BY <1>3, <1>4 DEF AdjInv

LEMMA AdjDecides ==
    ASSUME TypeOK, VoidsStay, AdjInv, NEW a \in Adjustments, Stands, Decides(a)
    PROVE  AdjInv'
<1>1. PICK status \in {"rejected", "under_investigation", "processing"} :
        /\ Becomes(a, status)
        /\ status # "rejected" => payment[adjustment[a].payment].status = "succeeded"
        /\ status = "processing" => payment[adjustment[a].payment].method = "gateway"
        /\ status = "under_investigation" => adjustment[a].kind = "chargeback"
  BY DEF Decides
<1>2. adjustment[a].status = "pending_approval"
  BY DEF Decides
<1>3. PICK p \in Payments : p = adjustment[a].payment
  BY <1>2, ActivePayment
<1>4. /\ adjustment'[a].status = status /\ adjustment'[a].payment = p
      /\ adjustment'[a].kind = adjustment[a].kind
      /\ \A b \in Adjustments \ {a} : adjustment'[b] = adjustment[b]
  BY <1>1, <1>2, <1>3, BecomesRow
<1>5. OneActive'
  BY <1>2, <1>3, <1>4 DEF AdjInv, OneActive, ActiveAdjustment
<1>6. SameRow(p) /\ Others(p)
  BY DEF Stands, Others
<1>7. ASSUME NEW b \in Adjustments PROVE AdjustmentAt(b)'
  <2>1. CASE b = a
    BY <1>1, <1>3, <1>4, <1>6, <2>1 DEF AdjustmentAt, SameRow
  <2>2. CASE b # a
    <3>1. AdjustmentAt(b) /\ adjustment'[b] = adjustment[b]
      BY <1>4, <2>2 DEF AdjInv
    <3> QED BY <1>6, <3>1, AdjustmentKept
  <2> QED BY <2>1, <2>2
<1> QED BY <1>5, <1>7 DEF AdjInv

LEMMA AdjUndoes ==
    ASSUME TypeOK, VoidsStay, AdjInv, NEW a \in Adjustments, Undoes(a)
    PROVE  AdjInv'
<1>1. /\ adjustment[a].status \in {"pending_approval", "processing", "under_investigation"}
      /\ Becomes(a, "completed")
  BY DEF Undoes
<1>2. PICK p \in Payments : p = adjustment[a].payment
  BY <1>1, ActivePayment
<1>3. /\ adjustment'[a].status = "completed" /\ adjustment'[a].payment = p
      /\ \A b \in Adjustments \ {a} : adjustment'[b] = adjustment[b]
  BY <1>1, <1>2, BecomesRow
<1>4. Reverses(p)
  BY <1>2 DEF Undoes
<1>5. Others(p) /\ payment'[p].status = "reversed" /\ payment[p].status = "succeeded"
  BY <1>4 DEF Reverses
<1>6. OneActive'
  BY <1>1, <1>2, <1>3 DEF AdjInv, OneActive, ActiveAdjustment
<1>7. ASSUME NEW b \in Adjustments PROVE AdjustmentAt(b)'
  <2>1. CASE b = a
    BY <1>3, <1>5, <2>1 DEF AdjustmentAt
  <2>2. CASE b # a /\ adjustment[b].status \notin {"processing", "under_investigation", "completed"}
    BY <1>3, <2>2 DEF AdjustmentAt
  <2>3. CASE b # a /\ adjustment[b].status \in {"processing", "under_investigation", "completed"}
    <3>1. AdjustmentAt(b) /\ adjustment'[b] = adjustment[b]
      BY <1>3, <2>3 DEF AdjInv
    <3>2. adjustment[b].payment # p
      BY <1>1, <1>2, <2>3 DEF AdjInv, OneActive, ActiveAdjustment
    <3>3. adjustment[b].payment \in Payments /\ SameRow(adjustment[b].payment)
      BY <1>5, <2>3, <3>2, ActivePayment DEF Others
    <3> QED BY <2>3, <3>1, <3>3 DEF AdjustmentAt, SameRow, VoidsStay
  <2> QED BY <2>1, <2>2, <2>3
<1> QED BY <1>6, <1>7 DEF AdjInv

-----------------------------------------------------------------------------
(* The inductive invariant of an orderly environment, and its step.        *)
LedgerInv == OrderlyInv /\ BooksInv /\ LedgerReconciles /\ AdjInv

LEMMA LedgerInit == Init => LedgerInv
BY OrderlyHolds, BooksInit, ReconcilesInit, AdjInit DEF LedgerInv

LEMMA EffectOfStep ==
    ASSUME TypeOK, Orderly, MoneyInv, OrderlyInv, [Next]_vars
    PROVE  Stands \/ \E p \in Payments : Wanders(p) \/ Succeeds(p) \/ Reverses(p)
<1>1. CASE \E p \in Payments : Outcome(p)
  BY <1>1 DEF Outcome
<1>2. ASSUME NEW a \in Adjustments, Undoes(a) PROVE \E p \in Payments : Reverses(p)
  <2>1. adjustment[a].status # "absent" /\ Reverses(adjustment[a].payment)
    BY <1>2 DEF Undoes
  <2> QED BY <2>1, ActivePayment
<1> QED BY <1>1, <1>2, StepOrderly

LEMMA LedgerStep ==
    ASSUME TypeOK, TypeOK', Orderly, MoneyInv, LedgerInv, [Next]_vars
    PROVE  LedgerInv'
<1>1. OrderlyInv'
  BY StepOrderly DEF LedgerInv
<1>2. Stands \/ \E p \in Payments : Wanders(p) \/ Succeeds(p) \/ Reverses(p)
  BY EffectOfStep DEF LedgerInv
<1>3. BooksInv'
  BY <1>2, BooksStand, BooksWander, BooksSucceed, BooksReverse DEF LedgerInv
<1>4. LedgerReconciles'
  BY <1>2, ReconcilesStep DEF LedgerInv
<1>5. AdjInv'
  <2>1. AdjInv /\ OrderlyInv
    BY DEF LedgerInv
  <2>2. \/ Stands /\ UNCHANGED adjustment
        \/ \E p \in Payments : Outcome(p)
        \/ \E a \in Adjustments : (Stands /\ (Files(a) \/ Decides(a))) \/ Undoes(a)
    BY <2>1, StepOrderly
  <2> QED BY <2>1, <2>2, VoidsKept, AdjStand, AdjOutcome, AdjFiles, AdjDecides, AdjUndoes
<1> QED BY <1>1, <1>3, <1>4, <1>5 DEF LedgerInv

LEMMA FinalStep ==
    ASSUME TypeOK, Orderly, MoneyInv, LedgerInv, [Next]_vars
    PROVE  [\A p \in Payments : payment[p].status = "reversed" => payment'[p].status = "reversed"]_vars
<1> SUFFICES ASSUME NEW p \in Payments, payment[p].status = "reversed"
             PROVE  payment'[p].status = "reversed"
  OBVIOUS
<1>1. Stands \/ \E q \in Payments : Wanders(q) \/ Succeeds(q) \/ Reverses(q)
  BY EffectOfStep DEF LedgerInv
<1>2. ASSUME NEW q \in Payments, Wanders(q) \/ Succeeds(q) \/ Reverses(q) PROVE SameRow(p)
  <2>1. q # p /\ Others(q)
    BY <1>2 DEF Wanders, Succeeds, Reverses, Fresh
  <2> QED BY <2>1 DEF Others
<1> QED BY <1>1, <1>2 DEF Stands, SameRow

(* Under an orderly gateway the loan and its schedule are at every moment  *)
(* the sum of the succeeded repayments, whatever was refused, retried,     *)
(* reported twice, lost in a crash or undone on the way                    *)
(* (finalize_loan_payment, reverse_loan_payment).                          *)
THEOREM LedgerAddsUp == Orderly => (Spec => []LedgerReconciles)
<1> SUFFICES ASSUME Orderly PROVE Spec => []LedgerReconciles
  OBVIOUS
<1>1. TypeOK /\ TypeOK' /\ MoneyInv /\ LedgerInv /\ [Next]_vars => LedgerInv'
  BY LedgerStep
<1>2. LedgerInv => LedgerReconciles
  BY DEF LedgerInv
<1> QED BY <1>1, <1>2, LedgerInit, MoneyInit, MoneyNext, TypeCorrect, PTL DEF Spec

(* Under an orderly gateway a payment has an unreversed journal exactly    *)
(* while it is succeeded.                                                  *)
THEOREM JournalsFollowPayments == Orderly => (Spec => []BooksFollowPayments)
<1> SUFFICES ASSUME Orderly PROVE Spec => []BooksFollowPayments
  OBVIOUS
<1>1. TypeOK /\ TypeOK' /\ MoneyInv /\ LedgerInv /\ [Next]_vars => LedgerInv'
  BY LedgerStep
<1>2. TypeOK /\ LedgerInv => BooksFollowPayments
  <2> SUFFICES ASSUME TypeOK, LedgerInv, NEW p \in Payments
               PROVE  /\ journal[p] = "posted" <=> payment[p].status = "succeeded"
                      /\ journal[p] = "reversed" => payment[p].status = "reversed"
    BY DEF BooksFollowPayments
  <2>1. payment[p].status \in {"absent", "processing", "succeeded", "failed", "reversed"}
    BY RowType DEF PaymentStatus
  <2>2. BooksAt(p)
    BY DEF LedgerInv, BooksInv
  <2> QED BY <2>1, <2>2 DEF BooksAt, Fresh
<1> QED BY <1>1, <1>2, LedgerInit, MoneyInit, MoneyNext, TypeCorrect, PTL DEF Spec

(* Under an orderly gateway an adjustment waiting for the provider,        *)
(* processing or under investigation, has a payment to undo (or the desk   *)
(* took the disputed cash back first: reverse_last_loan_payment), a        *)
(* completed one has undone it, and no payment has two.                    *)
THEOREM AdjustmentsFollowPayments == Orderly => (Spec => []AdjustmentsTrackPayments)
<1> SUFFICES ASSUME Orderly PROVE Spec => []AdjustmentsTrackPayments
  OBVIOUS
<1>1. TypeOK /\ TypeOK' /\ MoneyInv /\ LedgerInv /\ [Next]_vars => LedgerInv'
  BY LedgerStep
<1>2. LedgerInv => AdjustmentsTrackPayments
  BY AdjInvImplies DEF LedgerInv
<1> QED BY <1>1, <1>2, LedgerInit, MoneyInit, MoneyNext, TypeCorrect, PTL DEF Spec

(* What the run named reversal refutes for a gateway that delivers events  *)
(* late holds for an orderly one: no event, answer or refresh revives a    *)
(* reversed payment (apply_gateway_resource).                              *)
THEOREM ReversalsStand == Orderly => (Spec => ReversalIsFinal)
<1> SUFFICES ASSUME Orderly PROVE Spec => ReversalIsFinal
  OBVIOUS
<1>1. TypeOK /\ TypeOK' /\ MoneyInv /\ LedgerInv /\ [Next]_vars => LedgerInv'
  BY LedgerStep
<1>2. TypeOK /\ MoneyInv /\ LedgerInv /\ [Next]_vars
      => [\A p \in Payments : payment[p].status = "reversed" => payment'[p].status = "reversed"]_vars
  BY FinalStep
<1> QED BY <1>1, <1>2, LedgerInit, MoneyInit, MoneyNext, TypeCorrect, PTL DEF Spec, ReversalIsFinal
=============================================================================
