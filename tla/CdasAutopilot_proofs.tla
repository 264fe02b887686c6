------------------------ MODULE CdasAutopilot_proofs ------------------------
(***************************************************************************)
(* Theorems about the ledger of provider writes, for any operations,       *)
(* deductions, terms and readers; then about the autopilot: the workers    *)
(* and the operators implement the ledger, for any number of them, of      *)
(* loans, operations and days, and what is proved about the ledger holds   *)
(* of them.                                                                *)
(*                                                                         *)
(* The last parts prove what the autopilot promises of the loans           *)
(* themselves. Each promise has an inductive invariant of its own (InStep, *)
(* Served, Doubts, Sharing) that holds unless the history notes what       *)
(* excuses it, on top of Whole: the types, the ledger, and that what a     *)
(* worker holds fits the row it has written.                               *)
(***************************************************************************)
EXTENDS CdasAutopilot, FiniteSums_proofs

(* The ledger alone.                                                       *)

(* Rows that are created at their first write: before it nothing was sent  *)
(* and nobody reads them, after it they name a deduction.                  *)
RowsBegin ==
    \A o \in Ops :
      IF op[o].state = "absent"
      THEN wire[o] = "none" /\ \A r \in Readers : view[o][r] = "none"
      ELSE op[o].deduction \in Deductions

(* What the provider holds was asked for by a row whose request it applied.*)
HeldWasAsked ==
    \A d \in Deductions :
      \/ held[d] = InitialTerms
      \/ \E p \in Ops : wire[p] = "applied" /\ op[p].deduction = d /\ op[p].terms = held[d]

LedgerInv ==
    LedgerTypeOK /\ RowsBegin /\ HeldWasAsked /\ RejectedIsNotApplied /\ ConfirmedWasApplied

LEMMA LedgerInitInv == LedgerInit => LedgerInv
BY OpsAssumption, TermsAssumption
DEF LedgerInit, LedgerInv, LedgerTypeOK, RowsBegin, HeldWasAsked, RejectedIsNotApplied,
    ConfirmedWasApplied, NoRow, States, Unresolved, Reconcilable

(* A step that keeps what the rows asked for, and every applied request,   *)
(* keeps what was applied.                                                 *)
LEMMA AppliedStays ==
    ASSUME NEW d, NEW t,
           \E p \in Ops : wire[p] = "applied" /\ op[p].deduction = d /\ op[p].terms = t,
           \A p \in Ops : wire[p] = "applied" =>
              /\ wire'[p] = "applied"
              /\ op'[p].deduction = op[p].deduction /\ op'[p].terms = op[p].terms
    PROVE  \E p \in Ops : wire'[p] = "applied" /\ op'[p].deduction = d /\ op'[p].terms = t
OBVIOUS

(* Steps that change one row's state and view, and nothing outside.        *)
RowMoves(o, s) ==
    /\ s \in States /\ s # "absent" /\ op[o].state # "absent"
    /\ op' = op \/ op' = [op EXCEPT ![o].state = s]
    /\ view' \in [Ops -> [Readers -> Reconcilable \cup {"none"}]]
    /\ \A p \in Ops \ {o} : view'[p] = view[p]
    /\ s = "rejected" => wire[o] \in {"none", "refused"}
    /\ s = "confirmed" => held[op[o].deduction] = op[o].terms
    /\ UNCHANGED <<wire, held, day>>

LEMMA RowStep ==
    ASSUME LedgerInv, NEW o \in Ops, NEW s, RowMoves(o, s)
    PROVE  LedgerInv'
<1> USE DEF RowMoves
<1>1. op' \in [Ops -> [state : States, deduction : Deductions \cup {NoDeduction}, terms : Terms,
                       date : 0 .. LastDay]]
  <2>1. CASE op' = op
    BY <2>1 DEF LedgerInv, LedgerTypeOK
  <2>2. CASE op' = [op EXCEPT ![o].state = s]
    <3> DEFINE row == [op[o] EXCEPT !.state = s]
    <3>1. row \in [state : States, deduction : Deductions \cup {NoDeduction}, terms : Terms,
                   date : 0 .. LastDay]
      <4>1. op[o] \in [state : States, deduction : Deductions \cup {NoDeduction},
                       terms : Terms, date : 0 .. LastDay]
        BY DEF LedgerInv, LedgerTypeOK
      <4>2. s \in States
        OBVIOUS
      <4> HIDE DEF RowMoves
      <4> QED BY <4>1, <4>2
    <3>2. op' = [op EXCEPT ![o] = row]
      BY <2>2
    <3> HIDE DEF row
    <3> QED BY <3>1, <3>2 DEF LedgerInv, LedgerTypeOK
  <2> QED BY <2>1, <2>2
<1>2. LedgerTypeOK'
  BY <1>1 DEF LedgerInv, LedgerTypeOK
<1>3. \A p \in Ops : /\ op'[p].deduction = op[p].deduction /\ op'[p].terms = op[p].terms
                     /\ \/ op'[p].state = op[p].state
                        \/ p = o /\ op'[p].state = s
  <2>1. CASE op' = op
    BY <2>1
  <2>2. CASE op' = [op EXCEPT ![o].state = s]
    BY <2>2 DEF LedgerInv, LedgerTypeOK
  <2> QED BY <2>1, <2>2
<1>4. RowsBegin'
  BY <1>3 DEF LedgerInv, RowsBegin, States
<1>5. HeldWasAsked'
  BY <1>3 DEF LedgerInv, HeldWasAsked
<1>6. RejectedIsNotApplied'
  BY <1>3 DEF LedgerInv, RejectedIsNotApplied
<1>7. ConfirmedWasApplied'
  <2> SUFFICES ASSUME NEW p \in Ops, op'[p].state = "confirmed" PROVE WasApplied(p)'
    BY DEF ConfirmedWasApplied
  <2>1. WasApplied(p)
    <3>1. CASE op[p].state = "confirmed"
      BY <3>1 DEF LedgerInv, ConfirmedWasApplied
    <3>2. CASE op[p].state # "confirmed"
      <4>1. p = o /\ held[op[o].deduction] = op[o].terms /\ op[o].deduction \in Deductions
        BY <1>3, <3>2 DEF LedgerInv, RowsBegin
      <4> QED BY <4>1 DEF LedgerInv, HeldWasAsked, WasApplied
    <3> QED BY <3>1, <3>2
  <2> QED BY <2>1, <1>3 DEF WasApplied
<1> QED BY <1>2, <1>4, <1>5, <1>6, <1>7 DEF LedgerInv

(* The first write of a row, and the call that may leave after it.         *)
LEMMA BeginStep ==
    ASSUME LedgerInv, NEW o \in Ops, NEW d \in Deductions, NEW t \in Terms,
           NEW s \in {"prepared", "submitting"}, Begin(o, d, t, s)
    PROVE  LedgerInv'
<1>1. PICK w \in {"none", "sent"} : wire' = [wire EXCEPT ![o] = w]
  BY DEF Begin
<1>2. /\ op[o].state = "absent" /\ wire[o] = "none" /\ \A r \in Readers : view[o][r] = "none"
      /\ op' = [op EXCEPT ![o] = [state |-> s, deduction |-> d, terms |-> t, date |-> day]]
      /\ UNCHANGED <<held, view, day>>
  BY DEF Begin, LedgerInv, RowsBegin
<1>3. LedgerTypeOK'
  BY <1>1, <1>2 DEF LedgerInv, LedgerTypeOK, States, Unresolved
<1>4. \A p \in Ops : IF p = o
         THEN op'[p].state = s /\ op'[p].deduction = d /\ wire'[p] = w
         ELSE op'[p] = op[p] /\ wire'[p] = wire[p]
  BY <1>1, <1>2 DEF LedgerInv, LedgerTypeOK
<1>5. \A p \in Ops : wire[p] = "applied" =>
         /\ wire'[p] = "applied"
         /\ op'[p].deduction = op[p].deduction /\ op'[p].terms = op[p].terms
  BY <1>2, <1>4
<1>6. RowsBegin'
  BY <1>2, <1>4 DEF LedgerInv, RowsBegin
<1>7. HeldWasAsked'
  <2> SUFFICES ASSUME NEW e \in Deductions, held[e] # InitialTerms
               PROVE \E p \in Ops : wire'[p] = "applied" /\ op'[p].deduction = e
                                     /\ op'[p].terms = held[e]
    BY <1>2 DEF HeldWasAsked
  <2> QED BY <1>5, AppliedStays DEF LedgerInv, HeldWasAsked
<1>8. RejectedIsNotApplied'
  BY <1>4 DEF LedgerInv, RejectedIsNotApplied
<1>9. ConfirmedWasApplied'
  <2> SUFFICES ASSUME NEW p \in Ops, op'[p].state = "confirmed" PROVE WasApplied(p)'
    BY DEF ConfirmedWasApplied
  <2>1. op'[p] = op[p] /\ WasApplied(p)
    BY <1>4 DEF LedgerInv, ConfirmedWasApplied
  <2> QED BY <2>1, <1>5 DEF WasApplied
<1> QED BY <1>3, <1>6, <1>7, <1>8, <1>9 DEF LedgerInv

(* What the provider makes of a request.                                   *)
LEMMA ProviderStep ==
    ASSUME LedgerInv, NEW o \in Ops, ProviderApplies(o) \/ ProviderRefuses(o)
    PROVE  LedgerInv'
<1>1. wire[o] = "sent" /\ UNCHANGED <<op, view, day>>
  BY DEF ProviderApplies, ProviderRefuses
<1>2. op[o].state # "absent" /\ op[o].deduction \in Deductions /\ op[o].state # "rejected"
  BY <1>1 DEF LedgerInv, RowsBegin, RejectedIsNotApplied
<1>3. \A p \in Ops : wire'[p] = wire[p] \/ (p = o /\ wire'[p] \in {"applied", "refused"})
  BY DEF ProviderApplies, ProviderRefuses, LedgerInv, LedgerTypeOK
<1>4. LedgerTypeOK'
  <2>1. op[o].terms \in Terms
    BY DEF LedgerInv, LedgerTypeOK
  <2>2. wire' \in [Ops -> {"none", "sent", "applied", "refused"}]
    BY DEF ProviderApplies, ProviderRefuses, LedgerInv, LedgerTypeOK
  <2>3. held' \in [Deductions -> Terms]
    BY <2>1 DEF ProviderApplies, ProviderRefuses, LedgerInv, LedgerTypeOK
  <2> QED BY <1>1, <2>2, <2>3 DEF LedgerInv, LedgerTypeOK
<1>5. RowsBegin'
  BY <1>1, <1>2, <1>3 DEF LedgerInv, RowsBegin
<1>6. \A p \in Ops : wire[p] = "applied" =>
         /\ wire'[p] = "applied"
         /\ op'[p].deduction = op[p].deduction /\ op'[p].terms = op[p].terms
  BY <1>1, <1>3
<1>7. HeldWasAsked'
  <2> SUFFICES ASSUME NEW d \in Deductions, held'[d] # InitialTerms
               PROVE \E p \in Ops : wire'[p] = "applied" /\ op'[p].deduction = d
                                     /\ op'[p].terms = held'[d]
    BY DEF HeldWasAsked
  <2>1. CASE held'[d] = held[d]
    BY <2>1, <1>6, AppliedStays DEF LedgerInv, HeldWasAsked
  <2>2. CASE held'[d] # held[d]
    <3>1. ProviderApplies(o) /\ d = op[o].deduction
      BY <2>2, <1>2 DEF ProviderApplies, ProviderRefuses, LedgerInv, LedgerTypeOK
    <3>2. wire'[o] = "applied" /\ held'[d] = op[o].terms
      BY <3>1, <1>2 DEF ProviderApplies, LedgerInv, LedgerTypeOK
    <3> QED BY <3>1, <3>2, <1>1
  <2> QED BY <2>1, <2>2
<1>8. RejectedIsNotApplied'
  BY <1>1, <1>2, <1>3 DEF LedgerInv, RejectedIsNotApplied
<1>9. ConfirmedWasApplied'
  BY <1>1, <1>6 DEF LedgerInv, ConfirmedWasApplied, WasApplied
<1> QED BY <1>4, <1>5, <1>7, <1>8, <1>9 DEF LedgerInv

(* A reader's steps, and those of the caller at the answer.                *)
LEMMA AnswerStep ==
    ASSUME LedgerInv, NEW o \in Ops, Acknowledge(o) \/ Reject(o) \/ LoseAnswer(o)
    PROVE  LedgerInv'
<1>1. op[o].state = "submitting" /\ UNCHANGED <<wire, held, day>>
  BY DEF Acknowledge, Reject, LoseAnswer
<1>2. CASE Acknowledge(o)
  <2>1. /\ view' \in [Ops -> [Readers -> Reconcilable \cup {"none"}]]
        /\ \A p \in Ops \ {o} : view'[p] = view[p]
    BY <1>2, ReadersAssumption DEF Acknowledge, LedgerInv, LedgerTypeOK, Reconcilable
  <2>2. RowMoves(o, "acknowledged")
    BY <1>1, <1>2, <2>1 DEF Acknowledge, SetState, States, Unresolved, RowMoves
  <2> QED BY <2>2, RowStep
<1>3. CASE Reject(o)
  <2>1. RowMoves(o, "rejected")
    BY <1>1, <1>3 DEF Reject, SetState, States, LedgerInv, LedgerTypeOK, RowMoves
  <2> QED BY <2>1, RowStep
<1>4. CASE LoseAnswer(o)
  <2>1. RowMoves(o, "unknown_provider_state")
    BY <1>1, <1>4 DEF LoseAnswer, SetState, States, Unresolved, LedgerInv,
         LedgerTypeOK, RowMoves
  <2> QED BY <2>1, RowStep
<1> QED BY <1>2, <1>3, <1>4

LEMMA ReaderStep ==
    ASSUME LedgerInv, NEW o \in Ops, NEW r \in Readers,
           Look(o, r) \/ ReadBack(o, r) \/ ReadDiffers(o, r) \/ StopReading(o, r)
    PROVE  LedgerInv'
<1>1. op[o].state # "absent" /\ UNCHANGED <<wire, held, day>>
  BY DEF Look, ReadBack, ReadDiffers, StopReading, LedgerInv, RowsBegin, Reconcilable
<1>2. /\ view' \in [Ops -> [Readers -> Reconcilable \cup {"none"}]]
      /\ \A p \in Ops \ {o} : view'[p] = view[p]
  <2>1. PICK x \in Reconcilable \cup {"none"} : view' = [view EXCEPT ![o][r] = x]
    BY DEF Look, ReadBack, ReadDiffers, StopReading
  <2>2. [view[o] EXCEPT ![r] = x] \in [Readers -> Reconcilable \cup {"none"}]
    BY DEF LedgerInv, LedgerTypeOK
  <2> QED BY <2>1, <2>2 DEF LedgerInv, LedgerTypeOK
<1>3. CASE Look(o, r) \/ StopReading(o, r)
  <2>1. RowMoves(o, "prepared")
    BY <1>1, <1>2, <1>3 DEF Look, StopReading, States, Unresolved, RowMoves
  <2> QED BY <2>1, RowStep
<1>4. CASE ReadBack(o, r)
  <2>1. RowMoves(o, "confirmed")
    BY <1>1, <1>2, <1>4 DEF ReadBack, Write, SetState, States, RowMoves
  <2> QED BY <2>1, RowStep
<1>5. CASE ReadDiffers(o, r)
  <2>1. RowMoves(o, "requires_reconciliation")
    BY <1>1, <1>2, <1>5 DEF ReadDiffers, Write, SetState, States, Unresolved, RowMoves
  <2> QED BY <2>1, RowStep
<1> QED BY <1>3, <1>4, <1>5

LEMMA LedgerStep == LedgerInv /\ [LedgerNext]_ledgerVars => LedgerInv'
<1> SUFFICES ASSUME LedgerInv, [LedgerNext]_ledgerVars PROVE LedgerInv'
  OBVIOUS
<1>1. CASE UNCHANGED <<op, wire, held, view>> /\ day' \in 0 .. LastDay
  BY <1>1 DEF LedgerInv, LedgerTypeOK, RowsBegin, HeldWasAsked, RejectedIsNotApplied,
              ConfirmedWasApplied, WasApplied
<1>2. CASE UNCHANGED ledgerVars
  BY <1>1, <1>2 DEF ledgerVars, LedgerInv, LedgerTypeOK
<1>3. CASE NextDay
  BY <1>1, <1>3, OpsAssumption DEF NextDay, LedgerInv, LedgerTypeOK
<1>4. ASSUME NEW o \in Ops, OpStep(o) PROVE LedgerInv'
  BY <1>4, BeginStep, AnswerStep, ReaderStep, ProviderStep DEF OpStep
<1> QED BY <1>2, <1>3, <1>4 DEF LedgerNext

LEMMA LedgerInvariant == LedgerSpec => []LedgerInv
BY LedgerInitInv, LedgerStep, PTL DEF LedgerSpec

(* However callers, readers and the provider interleave, a write that was  *)
(* recorded as rejected never takes effect (execute_provider_operation,    *)
(* is_ambiguous_write_error).                                              *)
THEOREM RejectedNeverApplies == LedgerSpec => []RejectedIsNotApplied
BY LedgerInvariant, PTL DEF LedgerInv

(* A confirmation is the provider's: stale readers included, no operation  *)
(* is confirmed whose terms were never applied (reconcile_provider_        *)
(* operation).                                                             *)
THEOREM ConfirmedHappened == LedgerSpec => []ConfirmedWasApplied
BY LedgerInvariant, PTL DEF LedgerInv

-----------------------------------------------------------------------------
(* The autopilot.                                                          *)

WorkerType ==
    [stage : {"idle", "asking", "offered", "decided", "calling", "reading",
              "verified", "unverified"},
     task : {"none", "payment", "topup"}, loan : Loans \cup {NoWork}, terms : Terms,
     op : Ops \cup {NoWork}, today : 0 .. LastDay, sawMark : BOOLEAN, locked : BOOLEAN]

(* A worker that is at a loan holds that loan, and one that has written    *)
(* holds its operation.                                                    *)
Holding(r) ==
    /\ r.stage # "idle" => r.loan \in Loans
    /\ r.stage \in {"calling", "reading", "verified", "unverified"} => r.op \in Ops

WorkersOK ==
    /\ worker \in [Workers -> WorkerType]
    /\ \A w \in Workers : Holding(worker[w])

(* What TypeOK says of the loans, and of the rest but the ledger.          *)
LoansOK ==
    /\ balance \in [Loans -> 0 .. InitialBalance]
    /\ marked \in [Loans -> BOOLEAN]
    /\ mandate \in [Loans -> [amount : 0 .. Maximum, settled : BOOLEAN]]
    /\ doubtful \in [Loans -> BOOLEAN]
    /\ allocated \in [Loans -> [0 .. LastDay -> 0 .. Maximum]]
    /\ snapshot \in [0 .. LastDay -> -1 .. Headroom]

NotesOK == events \in 0 .. MaxEvents /\ upset \subseteq Upsets

Inv == LedgerTypeOK /\ WorkersOK /\ LoansOK /\ NotesOK

LEMMA InvIsTyped == Inv /\ unmarked \subseteq Loans => TypeOK
BY DEF Inv, WorkersOK, WorkerType, LoansOK, NotesOK, TypeOK

LEMMA InitInv == Init => Inv
<1> SUFFICES ASSUME Init PROVE Inv
  OBVIOUS
<1>1. LedgerTypeOK
  BY LedgerInitInv DEF Init, LedgerInv
<1>2. WorkersOK
  BY TermsAssumption, OpsAssumption DEF Init, WorkersOK, WorkerType, Holding, Idle
<1>3. LoansOK
  BY TermsAreAmounts, TermsAssumption, AmountsAssumption DEF Init, LoansOK
<1>4. NotesOK
  BY AmountsAssumption DEF Init, NotesOK
<1> QED BY <1>1, <1>2, <1>3, <1>4 DEF Inv

-----------------------------------------------------------------------------
(* The refinement: every step is a step of the ledger, or none of it.      *)

LEMMA OpStepLedger ==
    ASSUME NEW o \in Ops, OpStep(o) PROVE LedgerNext
BY DEF LedgerNext

LEMMA WriteLedger ==
    ASSUME Inv, NEW w \in Workers,
           BeginWrite(w) \/ WriteFails(w) \/ WriteAcknowledged(w) \/ Verify(w)
    PROVE  LedgerNext
<1>0. worker[w] \in WorkerType /\ Holding(worker[w])
  BY DEF Inv, WorkersOK
<1>1. CASE BeginWrite(w)
  <2>1. worker[w].loan \in Deductions /\ worker[w].terms \in Terms
    BY <1>0, <1>1 DEF BeginWrite, At, WorkerType, Holding, Loans
  <2>2. PICK o \in Ops : \E s \in {"prepared", "submitting"} :
            Begin(o, worker[w].loan, worker[w].terms, s)
    BY <1>1 DEF BeginWrite
  <2> QED BY <2>1, <2>2 DEF LedgerNext, OpStep
<1>2. CASE WriteFails(w)
  BY <1>0, <1>2 DEF WriteFails, At, Holding, LedgerNext, OpStep
<1>3. CASE WriteAcknowledged(w)
  BY <1>0, <1>3 DEF WriteAcknowledged, At, Holding, LedgerNext, OpStep
<1>4. CASE Verify(w)
  BY <1>0, <1>4, ReadersAssumption DEF Verify, At, Holding, LedgerNext, OpStep
<1> QED BY <1>1, <1>2, <1>3, <1>4

LEMMA CrashLedger ==
    ASSUME Inv, NEW w \in Workers, Crash(w) PROVE [LedgerNext]_ledgerVars
<1>1. CASE At(w, {"reading"})
  <2>1. worker[w].op \in Ops
    BY <1>1 DEF Inv, WorkersOK, Holding, At
  <2> QED BY <2>1, <1>1, ReadersAssumption DEF Crash, LedgerNext, OpStep
<1>2. CASE ~At(w, {"reading"})
  BY <1>2 DEF Crash
<1> QED BY <1>1, <1>2

LEMMA OtherLedger ==
    ASSUME NEW w,
           \/ \E l \in Loans : StartPayment(w, l) \/ StartScan(w, l)
           \/ NewCycle(w) \/ FinishScan(w) \/ Skip(w) \/ StartTopUp(w) \/ Duplicate(w)
           \/ Record(w) \/ LoseLocks(w)
    PROVE  UNCHANGED ledgerVars
BY DEF StartPayment, StartScan, NewCycle, FinishScan, Skip, StartTopUp, Duplicate,
     Record,
       LoseLocks

LEMMA OperatorLedger ==
    ASSUME NEW o \in Ops, OperatorLooks(o) \/ OperatorReads(o) \/ Provider(o)
    PROVE  LedgerNext
BY OperatorsAssumption DEF OperatorLooks, OperatorReads, Provider, LedgerNext, OpStep

LEMMA StepsLedger == Inv /\ [Next]_vars => [LedgerNext]_ledgerVars
<1> SUFFICES ASSUME Inv, [Next]_vars PROVE [LedgerNext]_ledgerVars
  OBVIOUS
<1>1. CASE UNCHANGED vars
  BY <1>1 DEF vars, ledgerVars
<1>2. ASSUME NEW w \in Workers, WorkerStep(w) PROVE [LedgerNext]_ledgerVars
  BY <1>2, WriteLedger, CrashLedger, OtherLedger DEF WorkerStep
<1>3. ASSUME NEW l \in Loans, Payment(l) PROVE [LedgerNext]_ledgerVars
  BY <1>3 DEF Payment, Repayment, InitiatePayment, ReverseLastPayment, Marks
<1>4. ASSUME NEW o \in Ops, OperatorLooks(o) \/ OperatorReads(o) \/ Provider(o)
      PROVE  [LedgerNext]_ledgerVars
  BY <1>4, OperatorLedger
<1>5. CASE Midnight
  BY <1>5 DEF Midnight, LedgerNext
<1> QED BY <1>1, <1>2, <1>3, <1>4, <1>5 DEF Next

-----------------------------------------------------------------------------
(* The autopilot's own variables.                                          *)

(* What a worker becomes is of its type.                                   *)
LEMMA WorkerMoves ==
    ASSUME WorkersOK, NEW w \in Workers, NEW r \in WorkerType, Holding(r),
           worker' = [worker EXCEPT ![w] = r]
    PROVE  WorkersOK'
<1>1. worker' \in [Workers -> WorkerType]
  BY DEF WorkersOK
<1>2. \A v \in Workers : worker'[v] = worker[v] \/ worker'[v] = r
  BY DEF WorkersOK
<1> QED BY <1>1, <1>2 DEF WorkersOK

LEMMA Resting ==
    ASSUME WorkersOK, NEW w \in Workers, Rests(w) PROVE WorkersOK'
<1> DEFINE r == [Idle EXCEPT !.today = worker[w].today]
<1>1. Idle \in WorkerType /\ Idle.stage = "idle"
  BY TermsAssumption, OpsAssumption DEF Idle, WorkerType
<1>2. worker[w].today \in 0 .. LastDay
  BY DEF WorkersOK, WorkerType
<1>3. r \in WorkerType /\ Holding(r)
  BY <1>1, <1>2 DEF WorkerType, Holding
<1>4. worker' = [worker EXCEPT ![w] = r]
  BY DEF Rests
<1> HIDE DEF r
<1> QED BY <1>3, <1>4, WorkerMoves

LEMMA Becoming ==
    ASSUME WorkersOK, NEW w \in Workers, NEW stage, NEW o \in Ops \cup {NoWork},
           stage \in {"asking", "offered", "decided", "calling", "reading", "verified",
                      "unverified"},
           ~At(w, {"idle"}),
           stage \in {"calling", "reading", "verified", "unverified"} => o \in Ops,
           worker' = [worker EXCEPT ![w].stage = stage, ![w].op = o]
    PROVE  WorkersOK'
<1> DEFINE r == [worker[w] EXCEPT !.stage = stage, !.op = o]
<1>1. r \in WorkerType /\ Holding(r)
  BY DEF WorkersOK, WorkerType, Holding, At
<1>2. worker' = [worker EXCEPT ![w] = r]
  OBVIOUS
<1> HIDE DEF r
<1> QED BY <1>1, <1>2, WorkerMoves

LEMMA Starting ==
    ASSUME WorkersOK, LoansOK, NEW w \in Workers, NEW l \in Loans, NEW t \in Terms,
           NEW d \in 0 .. LastDay, NEW stage \in {"asking", "decided"},
           NEW task \in {"payment", "topup"}, Starts(w, stage, task, l, t, d)
    PROVE  WorkersOK'
<1> DEFINE r == [stage |-> stage, task |-> task, loan |-> l, terms |-> t, op |-> NoWork,
                 today |-> d, sawMark |-> task = "topup" /\ marked[l],
                 locked |-> stage = "decided"]
<1>1. r \in WorkerType /\ Holding(r)
  BY DEF LoansOK, WorkerType, Holding
<1>2. worker' = [worker EXCEPT ![w] = r]
  BY DEF Starts
<1> HIDE DEF r
<1> QED BY <1>1, <1>2, WorkerMoves

(* A worker that changes stage and keeps its operation.                    *)
LEMMA Staging ==
    ASSUME WorkersOK, NEW w \in Workers, NEW stage, Becomes(w, stage),
           stage \in {"asking", "offered", "decided", "calling", "reading", "verified",
                      "unverified"},
           ~At(w, {"idle"}),
           stage \in {"calling", "reading", "verified", "unverified"} => worker[w].op \in Ops
    PROVE  WorkersOK'
<1> DEFINE r == [worker[w] EXCEPT !.stage = stage]
<1>1. r \in WorkerType /\ Holding(r)
  BY DEF WorkersOK, WorkerType, Holding, At
<1>2. worker' = [worker EXCEPT ![w] = r]
  BY DEF Becomes
<1> HIDE DEF r
<1> QED BY <1>1, <1>2, WorkerMoves

LEMMA EventCounts ==
    ASSUME NotesOK, Event PROVE events' \in 0 .. MaxEvents
BY AmountsAssumption DEF NotesOK, Event

Own == WorkersOK /\ LoansOK /\ NotesOK

(* A task that starts.                                                     *)
LEMMA StartTypes ==
    ASSUME Inv, NEW w \in Workers, NEW l \in Loans, StartPayment(w, l) \/ StartScan(w, l)
    PROVE  Own'
<1>1. LoansOK' /\ events' \in 0 .. MaxEvents
  BY DEF StartPayment, StartScan, Inv, LoansOK, NotesOK
<1>2. WorkersOK'
  <2>1. CASE StartPayment(w, l)
    <3>1. AfterPayment(l) \in Terms
      BY TermsAreAmounts, TermsAssumption DEF AfterPayment, Inv, LoansOK
    <3>2. day \in 0 .. LastDay
      BY DEF Inv, LedgerTypeOK
    <3> QED BY <2>1, <3>1, <3>2, Starting DEF StartPayment, Inv
  <2>2. CASE StartScan(w, l)
    <3>1. worker[w].today \in 0 .. LastDay
      BY DEF Inv, WorkersOK, WorkerType
    <3> QED BY <2>2, <3>1, TermsAssumption, Starting DEF StartScan, Inv
  <2> QED BY <2>1, <2>2
<1>3. upset' \subseteq Upsets
  BY DEF StartPayment, StartScan, Noting, Accompanied, Happened, Upsets, Inv, NotesOK
<1> QED BY <1>1, <1>2, <1>3 DEF Own, NotesOK

LEMMA NewCycleTypes ==
    ASSUME Inv, NEW w \in Workers, NewCycle(w) PROVE Own'
<1> DEFINE r == [worker[w] EXCEPT !.today = day]
<1>1. r \in WorkerType /\ Holding(r)
  BY DEF Inv, WorkersOK, WorkerType, Holding, LedgerTypeOK
<1>2. worker' = [worker EXCEPT ![w] = r]
  BY DEF NewCycle
<1> HIDE DEF r
<1>3. WorkersOK'
  BY <1>1, <1>2, WorkerMoves DEF Inv
<1> QED BY <1>3 DEF NewCycle, Inv, Own, LoansOK, NotesOK

LEMMA ScanTypes ==
    ASSUME Inv, NEW w \in Workers, FinishScan(w) PROVE Own'
<1> DEFINE l == worker[w].loan
           d == worker[w].today
<1>1. l \in Loans /\ d \in 0 .. LastDay /\ worker[w].sawMark \in BOOLEAN /\ ~At(w, {"idle"})
  BY DEF FinishScan, At, Inv, WorkersOK, WorkerType, Holding
<1>2. PICK live \in 0 .. Headroom : snapshot' = [snapshot EXCEPT ![d] = live]
  BY DEF FinishScan
<1>3. UNCHANGED <<balance, mandate, doubtful, allocated, events>>
  BY DEF FinishScan
<1>4. \/ marked' = [marked EXCEPT ![l] = worker[w].sawMark] /\ Becomes(w, "offered")
      \/ Rests(w) /\ UNCHANGED marked
  BY DEF FinishScan
<1>5. upset' \subseteq Upsets
  BY DEF FinishScan, Noting, Happened, Upsets, Inv, NotesOK
<1>6. WorkersOK'
  <2>1. CASE Becomes(w, "offered")
    BY <2>1, <1>1, Staging DEF Inv
  <2>2. CASE Rests(w)
    BY <2>2, Resting DEF Inv
  <2> QED BY <1>4, <2>1, <2>2
<1>7. marked' \in [Loans -> BOOLEAN]
  BY <1>1, <1>4 DEF Inv, LoansOK
<1> HIDE DEF l, d
<1>8. LoansOK'
  BY <1>1, <1>2, <1>3, <1>7, AmountsAssumption DEF Inv, LoansOK
<1> QED BY <1>3, <1>5, <1>6, <1>8 DEF Own, NotesOK, Inv

LEMMA SkipTypes ==
    ASSUME Inv, NEW w \in Workers, Skip(w) PROVE Own'
<1>1. WorkersOK'
  BY Resting DEF Skip, Inv
<1> QED BY <1>1 DEF Skip, Inv, Own, LoansOK, NotesOK

(* What a top-up takes is within the maximum, and so are its terms.        *)
LEMMA Taken ==
    ASSUME Inv, NEW l \in Loans, NEW h \in 1 .. Headroom, TopsUp(l, h)
    PROVE  /\ Proposed(l, h) \in 0 .. Maximum
           /\ Proposed(l, h) - mandate[l].amount \in 0 .. Maximum
           /\ balance[l] \in 0 .. InitialBalance
<1>1. balance[l] \in 0 .. InitialBalance /\ mandate[l].amount \in 0 .. Maximum
  BY DEF Inv, LoansOK
<1> QED BY <1>1, AmountsAssumption DEF TopsUp, Proposed, Smallest

LEMMA TopUpTypes ==
    ASSUME Inv, NEW w \in Workers, StartTopUp(w) PROVE Own'
<1> DEFINE l == worker[w].loan
           d == worker[w].today
<1>1. l \in Loans /\ d \in 0 .. LastDay
  BY DEF StartTopUp, At, Inv, WorkersOK, WorkerType, Holding
<1>2. PICK h \in 1 .. Headroom : Reserve(w, l, d, h)
  BY DEF StartTopUp
<1>3. UNCHANGED <<balance, mandate, doubtful, marked, snapshot, events>>
  BY DEF StartTopUp
<1>4. upset' \subseteq Upsets
  BY DEF StartTopUp, Noting, Accompanied, Happened, Upsets, Inv, NotesOK
<1> HIDE DEF l, d
<1>5. /\ Proposed(l, h) \in 0 .. Maximum
      /\ Proposed(l, h) - mandate[l].amount \in 0 .. Maximum
      /\ balance[l] \in 0 .. InitialBalance
  BY <1>1, <1>2, Taken DEF Reserve
<1>6. [amount |-> Proposed(l, h), principal |-> balance[l]] \in Terms
  BY <1>5, TermsAreAmounts
<1>7. WorkersOK'
  BY <1>1, <1>2, <1>6, Starting DEF Reserve, Inv
<1>8. allocated' \in [Loans -> [0 .. LastDay -> 0 .. Maximum]]
  <2> DEFINE taken == Proposed(l, h) - mandate[l].amount
  <2>1. allocated' = [allocated EXCEPT ![l] = [allocated[l] EXCEPT ![d] = taken]]
    BY <1>2 DEF Reserve
  <2>2. taken \in 0 .. Maximum
    BY <1>5
  <2> HIDE DEF taken
  <2>3. [allocated[l] EXCEPT ![d] = taken] \in [0 .. LastDay -> 0 .. Maximum]
    BY <1>1, <2>2 DEF Inv, LoansOK
  <2> QED BY <2>1, <2>3 DEF Inv, LoansOK
<1>9. LoansOK'
  BY <1>3, <1>8 DEF Inv, LoansOK
<1> QED BY <1>3, <1>4, <1>7, <1>9 DEF Own, NotesOK, Inv

LEMMA Allocated ==
    ASSUME LoansOK, NEW l \in Loans, NEW d \in 0 .. LastDay
    PROVE  /\ allocated[l][d] \in 0 .. Maximum /\ 0 \in 0 .. Maximum
           /\ \A a \in 0 .. Maximum : allocated' = [allocated EXCEPT ![l][d] = a]
              => allocated' \in [Loans -> [0 .. LastDay -> 0 .. Maximum]]
<1>1. allocated[l] \in [0 .. LastDay -> 0 .. Maximum]
  BY DEF LoansOK
<1>2. allocated[l][d] \in 0 .. Maximum /\ 0 \in 0 .. Maximum
  <2>1. allocated[l][d] \in 0 .. Maximum
    BY <1>1, Zenon
  <2>2. 0 \in 0 .. Maximum
    BY AmountsAssumption
  <2> QED BY <2>1, <2>2
<1>3. ASSUME NEW a \in 0 .. Maximum, allocated' = [allocated EXCEPT ![l][d] = a]
      PROVE  allocated' \in [Loans -> [0 .. LastDay -> 0 .. Maximum]]
  <2>1. [allocated[l] EXCEPT ![d] = a] \in [0 .. LastDay -> 0 .. Maximum]
    BY <1>1
  <2> QED BY <1>3, <2>1 DEF LoansOK
<1> QED BY <1>2, <1>3

(* The end of a task.                                                      *)
LEMMA EndTypes ==
    ASSUME Inv, NEW w \in Workers, NEW confirmed \in BOOLEAN, ~At(w, {"idle"}),
           End(w, confirmed)
    PROVE  /\ WorkersOK' /\ upset' \subseteq Upsets
           /\ marked' \in [Loans -> BOOLEAN]
           /\ allocated' \in [Loans -> [0 .. LastDay -> 0 .. Maximum]]
<1> DEFINE l == worker[w].loan
           d == worker[w].today
<1>1. l \in Loans /\ d \in 0 .. LastDay /\ worker[w].sawMark \in BOOLEAN
  BY DEF At, Inv, WorkersOK, WorkerType, Holding
<1>2. WorkersOK'
  BY Resting DEF End, Inv
<1>3. upset' \subseteq Upsets
  BY DEF End, Noting, Happened, Upsets, Inv, NotesOK
<1>4. marked' \in [Loans -> BOOLEAN]
  <2>1. PICK m \in BOOLEAN : marked' = [marked EXCEPT ![l] = m]
    <3>1. CASE confirmed
      BY <3>1, <1>1 DEF End
    <3>2. CASE ~confirmed
      <4>1. marked' = [marked EXCEPT ![l] = marked[l]]
        BY <3>2 DEF End
      <4>2. marked[l] \in BOOLEAN
        BY <1>1 DEF Inv, LoansOK
      <4> QED BY <4>1, <4>2
    <3> QED BY <3>1, <3>2
  <2> QED BY <2>1, <1>1 DEF Inv, LoansOK
<1>5. allocated' \in [Loans -> [0 .. LastDay -> 0 .. Maximum]]
  <2>1. \E a \in 0 .. Maximum : allocated' = [allocated EXCEPT ![l][d] = a]
    <3>1. allocated[l][d] \in 0 .. Maximum /\ 0 \in 0 .. Maximum
      BY <1>1, Allocated DEF Inv
    <3> QED BY <3>1 DEF End
  <2> QED BY <1>1, <2>1, Allocated DEF Inv
<1> QED BY <1>2, <1>3, <1>4, <1>5

LEMMA FailTypes ==
    ASSUME Inv, NEW w \in Workers, Duplicate(w) \/ WriteFails(w) PROVE Own'
<1>1. ~At(w, {"idle"}) /\ End(w, FALSE)
  BY DEF Duplicate, WriteFails, At
<1>2. UNCHANGED <<balance, mandate, doubtful, snapshot, events>>
  BY DEF Duplicate, WriteFails
<1> QED BY <1>1, <1>2, EndTypes DEF Own, LoansOK, NotesOK, Inv

LEMMA RecordTypes ==
    ASSUME Inv, NEW w \in Workers, Record(w) PROVE Own'
<1> DEFINE l == worker[w].loan
           t == worker[w].terms
           verified == At(w, {"verified"})
<1>1. l \in Loans /\ t \in Terms /\ verified \in BOOLEAN /\ ~At(w, {"idle"})
  BY DEF Record, At, Inv, WorkersOK, WorkerType, Holding
<1>2. End(w, verified) /\ UNCHANGED <<balance, snapshot, events>>
  BY DEF Record
<1>3. doubtful' \in [Loans -> BOOLEAN]
  BY <1>1 DEF Record, Inv, LoansOK
<1>4. mandate' \in [Loans -> [amount : 0 .. Maximum, settled : BOOLEAN]]
  <2>1. mandate[l] \in [amount : 0 .. Maximum, settled : BOOLEAN] /\ t.amount \in 0 .. Maximum
    BY <1>1, TermsAreAmounts DEF Inv, LoansOK
  <2> HIDE DEF l, t, verified
  <2>2. PICK m \in [amount : 0 .. Maximum, settled : BOOLEAN] :
          mandate' = [mandate EXCEPT ![l] = m]
    <3>1. /\ [mandate[l] EXCEPT !.settled = TRUE] \in [amount : 0 .. Maximum, settled : BOOLEAN]
          /\ [amount |-> t.amount, settled |-> FALSE] \in [amount : 0 .. Maximum, settled : BOOLEAN]
      BY <2>1
    <3>2. mandate' = [mandate EXCEPT ![l] =
              IF ~verified THEN @
              ELSE IF t = Settled THEN [@ EXCEPT !.settled = TRUE]
              ELSE [amount |-> t.amount, settled |-> FALSE]]
      BY DEF Record, l, t, verified
    <3>3. CASE ~verified
      BY <2>1, <3>2, <3>3
    <3>4. CASE verified /\ t = Settled
      BY <3>1, <3>2, <3>4
    <3>5. CASE verified /\ t # Settled
      BY <3>1, <3>2, <3>5
    <3> QED BY <3>3, <3>4, <3>5
  <2> QED BY <2>2 DEF Inv, LoansOK
<1> HIDE DEF verified
<1>5. /\ WorkersOK' /\ upset' \subseteq Upsets
      /\ marked' \in [Loans -> BOOLEAN]
      /\ allocated' \in [Loans -> [0 .. LastDay -> 0 .. Maximum]]
  BY <1>1, <1>2, EndTypes
<1> QED BY <1>2, <1>3, <1>4, <1>5 DEF Own, LoansOK, NotesOK, Inv

LEMMA WriteTypes ==
    ASSUME Inv, NEW w \in Workers, BeginWrite(w) \/ WriteAcknowledged(w) \/ Verify(w)
    PROVE  Own'
<1>1. LoansOK' /\ upset' \subseteq Upsets
  BY DEF BeginWrite, WriteAcknowledged, Verify, Inv, LoansOK, NotesOK
<1>2. events' \in 0 .. MaxEvents
  BY AmountsAssumption DEF BeginWrite, WriteAcknowledged, Verify, Event, Inv, NotesOK
<1>3. WorkersOK'
  <2>1. CASE BeginWrite(w)
    <3>1. ~At(w, {"idle"})
      BY <2>1 DEF BeginWrite, At
    <3>2. PICK o \in Ops :
            \/ worker' = [worker EXCEPT ![w].stage = "calling", ![w].op = o]
            \/ Rests(w)
      BY <2>1 DEF BeginWrite
    <3> QED BY <3>1, <3>2, Becoming, Resting DEF Inv
  <2>2. CASE WriteAcknowledged(w)
    <3>1. ~At(w, {"idle"}) /\ worker[w].op \in Ops /\ Becomes(w, "reading")
      BY <2>2 DEF WriteAcknowledged, At, Inv, WorkersOK, Holding
    <3> QED BY <3>1, Staging DEF Inv
  <2>3. CASE Verify(w)
    <3>1. /\ ~At(w, {"idle"}) /\ worker[w].op \in Ops
          /\ Becomes(w, "verified") \/ Becomes(w, "unverified")
      BY <2>3 DEF Verify, At, Inv, WorkersOK, Holding
    <3> QED BY <3>1, Staging DEF Inv
  <2> QED BY <2>1, <2>2, <2>3
<1> QED BY <1>1, <1>2, <1>3 DEF Own, NotesOK

LEMMA TroubleTypes ==
    ASSUME Inv, NEW w \in Workers, Crash(w) \/ LoseLocks(w) PROVE Own'
<1>1. LoansOK'
  BY DEF Crash, LoseLocks, Inv, LoansOK
<1>2. NotesOK'
  <2>1. events' \in 0 .. MaxEvents
    BY EventCounts DEF Crash, LoseLocks, Inv
  <2>2. upset' \subseteq Upsets
    BY DEF Crash, LoseLocks, Noting, Happened, Upsets, Inv, NotesOK
  <2> QED BY <2>1, <2>2 DEF NotesOK
<1>3. WorkersOK'
  <2>1. CASE Crash(w)
    BY <2>1, Resting DEF Crash, Inv
  <2>2. CASE LoseLocks(w)
    <3> DEFINE r == [worker[w] EXCEPT !.locked = FALSE]
    <3>1. r \in WorkerType /\ Holding(r)
      BY DEF Inv, WorkersOK, WorkerType, Holding
    <3>2. worker' = [worker EXCEPT ![w] = r]
      BY <2>2 DEF LoseLocks
    <3> HIDE DEF r
    <3> QED BY <3>1, <3>2, WorkerMoves DEF Inv
  <2> QED BY <2>1, <2>2
<1> QED BY <1>1, <1>2, <1>3 DEF Own

(* The loan's other actors.                                                *)
LEMMA OutsideTypes ==
    ASSUME Inv,
           \/ \E l \in Loans : Payment(l)
           \/ \E o \in Ops : OperatorLooks(o) \/ Provider(o)
           \/ Midnight
    PROVE  Own'
<1>1. NotesOK'
  <2>1. events' = events \/ Event
    BY DEF Payment, Repayment, InitiatePayment, ReverseLastPayment, Marks,
         OperatorLooks, Provider, Midnight
  <2>2. upset' = upset \/ upset' = upset \cup {"headroom"}
    BY DEF Payment, Repayment, InitiatePayment, ReverseLastPayment, Marks,
         OperatorLooks, Provider, Midnight, Noting, Happened
  <2> QED BY <2>1, <2>2, EventCounts DEF Inv, NotesOK, Upsets
<1>2. WorkersOK'
  BY DEF Payment, Repayment, InitiatePayment, ReverseLastPayment, Marks, OperatorLooks,
       Provider, Midnight, Inv, WorkersOK
<1>3. LoansOK'
  <2>1. ASSUME NEW l \in Loans, Payment(l) PROVE LoansOK'
    <3>1. balance \in [Loans -> 0 .. InitialBalance] /\ InitialBalance \in Nat
      BY AmountsAssumption DEF Inv, LoansOK
    <3>2. balance' \in [Loans -> 0 .. InitialBalance]
      <4>1. CASE UNCHANGED balance
        BY <3>1, <4>1
      <4>2. ASSUME NEW b \in 0 .. InitialBalance, balance' = [balance EXCEPT ![l] = b]
            PROVE  balance' \in [Loans -> 0 .. InitialBalance]
        BY <3>1, <4>2
      <4>3. balance[l] + 1 .. InitialBalance \subseteq 0 .. InitialBalance
        BY <3>1
      <4> QED BY <2>1, <4>1, <4>2, <4>3
           DEF Payment, Repayment, InitiatePayment, ReverseLastPayment, Marks
    <3>3. marked' = marked \/ marked' = [marked EXCEPT ![l] = TRUE]
      BY <2>1 DEF Payment, Repayment, InitiatePayment, ReverseLastPayment, Marks
    <3>4. UNCHANGED <<mandate, doubtful, allocated, snapshot>>
      BY <2>1 DEF Payment
    <3> QED BY <3>2, <3>3, <3>4 DEF Inv, LoansOK
  <2>2. CASE UNCHANGED <<balance, marked, mandate, doubtful, allocated, snapshot>>
    BY <2>2 DEF Inv, LoansOK
  <2> QED BY <2>1, <2>2 DEF OperatorLooks, Provider, Midnight
<1> QED BY <1>1, <1>2, <1>3 DEF Own

(* Only the loan's endpoint touches the loan.                              *)
LEMMA ReadTypes ==
    ASSUME Inv, NEW o \in Ops, OperatorReads(o) PROVE Own'
<1> DEFINE l == op[o].deduction
           t == op[o].terms
<1>1. UNCHANGED <<balance, marked, allocated, snapshot, worker, events>>
  BY DEF OperatorReads
<1>2. upset' \subseteq Upsets
  BY DEF OperatorReads, Noting, Happened, Upsets, Inv, NotesOK
<1>3. doubtful' \in [Loans -> BOOLEAN]
  BY DEF OperatorReads, Inv, LoansOK
<1>4. mandate' \in [Loans -> [amount : 0 .. Maximum, settled : BOOLEAN]]
  <2>1. CASE UNCHANGED mandate
    BY <2>1 DEF Inv, LoansOK
  <2>2. ASSUME mandate' = [mandate EXCEPT ![l].settled = (t = Settled)]
        PROVE  mandate' \in [Loans -> [amount : 0 .. Maximum, settled : BOOLEAN]]
    <3> DEFINE m == [mandate[l] EXCEPT !.settled = (t = Settled)]
    <3>1. mandate' = [mandate EXCEPT ![l] = m]
      BY <2>2
    <3>2. l \in Loans => m \in [amount : 0 .. Maximum, settled : BOOLEAN]
      BY DEF Inv, LoansOK
    <3> HIDE DEF m, l
    <3> QED BY <3>1, <3>2 DEF Inv, LoansOK
  <2> QED BY <2>1, <2>2 DEF OperatorReads
<1>5. WorkersOK'
  BY <1>1 DEF Inv, WorkersOK
<1>6. LoansOK'
  BY <1>1, <1>3, <1>4 DEF Inv, LoansOK
<1> QED BY <1>1, <1>2, <1>5, <1>6 DEF Own, Inv, NotesOK

LEMMA OwnStep == Inv /\ [Next]_vars => Own'
<1> SUFFICES ASSUME Inv, [Next]_vars PROVE Own'
  OBVIOUS
<1>1. CASE UNCHANGED vars
  BY <1>1 DEF vars, Inv, Own, WorkersOK, LoansOK, NotesOK
<1>2. ASSUME NEW w \in Workers, WorkerStep(w) PROVE Own'
  BY <1>2, StartTypes, NewCycleTypes, ScanTypes, SkipTypes, TopUpTypes, FailTypes,
     RecordTypes,
     WriteTypes, TroubleTypes DEF WorkerStep
<1> QED BY <1>1, <1>2, OutsideTypes, ReadTypes DEF Next

(* The two invariants together are inductive.                              *)
FullInv == LedgerInv /\ Inv

(* The history of the balances is about loans.                             *)
LEMMA HistoryIsTyped ==
    ASSUME unmarked \subseteq Loans, [Next]_vars PROVE unmarked' \subseteq Loans
<1>1. ASSUME NEW w \in Workers, WorkerStep(w) PROVE unmarked' \subseteq unmarked
  BY <1>1 DEF WorkerStep, StartPayment, StartScan, NewCycle, FinishScan, Skip,
       StartTopUp, BeginWrite,
       Duplicate, WriteFails, WriteAcknowledged, Verify, Record, Crash, LoseLocks
<1>2. ASSUME NEW l \in Loans, Payment(l) PROVE unmarked' \subseteq unmarked \cup {l}
  BY <1>2 DEF Payment, Repayment, InitiatePayment, ReverseLastPayment, Marks
<1>3. ASSUME NEW o \in Ops, OperatorLooks(o) \/ OperatorReads(o) \/ Provider(o)
      PROVE  unmarked' = unmarked
  BY <1>3 DEF OperatorLooks, OperatorReads, Provider
<1>4. CASE Midnight \/ UNCHANGED vars
  BY <1>4 DEF Midnight, vars
<1> QED BY <1>1, <1>2, <1>3, <1>4 DEF Next

LEMMA FullInit == Init => FullInv
BY InitInv, LedgerInitInv DEF FullInv, Init

LEMMA FullStep == FullInv /\ [Next]_vars => FullInv'
<1> SUFFICES ASSUME FullInv, [Next]_vars PROVE FullInv'
  OBVIOUS
<1>1. [LedgerNext]_ledgerVars
  BY StepsLedger DEF FullInv
<1>2. LedgerInv'
  BY <1>1, LedgerStep DEF FullInv
<1>3. Own'
  BY OwnStep DEF FullInv
<1>4. LedgerTypeOK'
  BY <1>2 DEF LedgerInv
<1> QED BY <1>2, <1>3, <1>4 DEF FullInv, Inv, Own

(* The type invariant (services/cdas_autopilot_worker.py): what a top-up   *)
(* is decided to be is within the maximum, and a worker that has written   *)
(* knows its operation.                                                    *)
THEOREM AutopilotTypes == Spec => []TypeOK
<1>1. FullInv /\ unmarked \subseteq Loans => TypeOK
  BY InvIsTyped DEF FullInv
<1>2. Init => unmarked \subseteq Loans
  BY DEF Init
<1>3. unmarked \subseteq Loans /\ [Next]_vars => (unmarked \subseteq Loans)'
  BY HistoryIsTyped
<1> QED BY FullInit, FullStep, <1>1, <1>2, <1>3, PTL DEF Spec

(* Payments, scans, top-ups, crashes, lost locks and operators use the     *)
(* ledger as it is meant to be used (execute_provider_operation,           *)
(* reconcile_provider_operation): the autopilot implements it.             *)
THEOREM AutopilotImplementsLedger == Spec => ImplementsLedger
<1>1. Init => LedgerInit
  BY DEF Init
<1>2. FullInv /\ [Next]_vars => [LedgerNext]_ledgerVars
  BY StepsLedger DEF FullInv
<1> QED BY FullInit, FullStep, <1>1, <1>2, PTL DEF Spec, ImplementsLedger, LedgerSpec

(* So no write of the autopilot that was recorded as rejected takes        *)
(* effect (execute_provider_operation, is_ambiguous_write_error).          *)
THEOREM AutopilotRejections == Spec => []RejectedIsNotApplied
<1>1. FullInv => RejectedIsNotApplied
  BY DEF FullInv, LedgerInv
<1> QED BY FullInit, FullStep, <1>1, PTL DEF Spec

(* Nor is a write confirmed that did not take effect, whichever worker or *)
(* operator read it back (reconcile_provider_operation).                   *)
THEOREM AutopilotConfirmations == Spec => []ConfirmedWasApplied
<1>1. FullInv => ConfirmedWasApplied
  BY DEF FullInv, LedgerInv
<1> QED BY FullInit, FullStep, <1>1, PTL DEF Spec

-----------------------------------------------------------------------------
(* How the rows of the ledger live on.                                     *)

(* The ledger's rows, once begun, keep what they asked for; what was       *)
(* applied stays applied, and a settled deduction stays settled.           *)
Read == Reconcilable \cup {"confirmed"}

Views == \A o \in Ops, r \in Readers : view[o][r] # "none" => op[o].state \in Read

RowsStay ==
    /\ \A o \in Ops : op[o].state # "absent" =>
         /\ op'[o].state # "absent"
         /\ op'[o].deduction = op[o].deduction /\ op'[o].terms = op[o].terms
         /\ wire[o] = "applied" => wire'[o] = "applied"
         /\ op[o].state \in Read => op'[o].state \in Read
    /\ \A d \in Deductions : held[d] = Settled => held'[d] = Settled
    /\ day \in Nat /\ day' \in Nat /\ day <= day'

LEMMA RowsStayUnder ==
    ASSUME LedgerInv, Views, NEW o \in Ops, OpStep(o) PROVE RowsStay /\ Views'
<1>0. day \in Nat /\ day' = day
  BY DEF LedgerInv, LedgerTypeOK, OpStep, Begin, Acknowledge, Reject, LoseAnswer, Look,
       ReadBack,
         ReadDiffers, StopReading, ProviderApplies, ProviderRefuses
<1>1. ASSUME NEW d \in Deductions, NEW t \in Terms, NEW s \in {"prepared", "submitting"},
             Begin(o, d, t, s)
      PROVE  RowsStay /\ Views'
  <2>1. /\ op[o].state = "absent" /\ wire[o] = "none" /\ \A r \in Readers : view[o][r] = "none"
        /\ UNCHANGED <<held, view, day>>
    BY <1>1 DEF Begin, LedgerInv, RowsBegin
  <2>2. \A p \in Ops \ {o} : op'[p] = op[p] /\ wire'[p] = wire[p]
    BY <1>1 DEF Begin, LedgerInv, LedgerTypeOK
  <2> QED BY <1>0, <2>1, <2>2 DEF RowsStay, Views
<1>2. ASSUME NEW s, RowMoves(o, s), op[o].state \in Read => s \in Read,
             \A r \in Readers : view'[o][r] # "none" => op'[o].state \in Read
      PROVE  RowsStay /\ Views'
  <2>1. /\ \A p \in Ops : /\ op'[p].deduction = op[p].deduction /\ op'[p].terms = op[p].terms
                          /\ \/ op'[p].state = op[p].state
                             \/ p = o /\ op'[p].state = s
        /\ UNCHANGED <<wire, held, day>>
        /\ s # "absent"
    <3>1. CASE op' = op
      BY <1>2, <3>1 DEF RowMoves
    <3>2. CASE op' = [op EXCEPT ![o].state = s]
      BY <1>2, <3>2 DEF RowMoves, LedgerInv, LedgerTypeOK
    <3> QED BY <1>2, <3>1, <3>2 DEF RowMoves
  <2>2. \A p \in Ops \ {o} : view'[p] = view[p]
    BY <1>2 DEF RowMoves
  <2>3. RowsStay
    BY <1>0, <1>2, <2>1 DEF RowsStay
  <2>4. Views'
    BY <1>2, <2>1, <2>2 DEF Views
  <2> QED BY <2>3, <2>4
<1>3. CASE ProviderApplies(o) \/ ProviderRefuses(o)
  <2>1. wire[o] = "sent" /\ UNCHANGED <<op, view, day>>
    BY <1>3 DEF ProviderApplies, ProviderRefuses
  <2>2. \A p \in Ops \ {o} : wire'[p] = wire[p]
    BY <1>3 DEF ProviderApplies, ProviderRefuses, LedgerInv, LedgerTypeOK
  <2>3. \A d \in Deductions : held[d] = Settled => held'[d] = Settled
    BY <1>3 DEF ProviderApplies, ProviderRefuses, LedgerInv, LedgerTypeOK
  <2> QED BY <1>0, <2>1, <2>2, <2>3 DEF RowsStay, Views
<1>4. CASE Acknowledge(o) \/ Reject(o) \/ LoseAnswer(o)
  <2>1. op[o].state = "submitting" /\ \A r \in Readers : view[o][r] = "none"
    BY <1>4 DEF Acknowledge, Reject, LoseAnswer, Views, Read, Reconcilable
  <2>2. "submitting" \notin Read
    BY DEF Read, Reconcilable
  <2>3. CASE Acknowledge(o)
    <3>1. /\ view' \in [Ops -> [Readers -> Reconcilable \cup {"none"}]]
          /\ \A p \in Ops \ {o} : view'[p] = view[p]
      BY <2>3, ReadersAssumption DEF Acknowledge, LedgerInv, LedgerTypeOK, Reconcilable
    <3>2. RowMoves(o, "acknowledged") /\ op'[o].state \in Read
      BY <2>1, <2>3, <3>1
      DEF Acknowledge, SetState, States, Unresolved, RowMoves, Read, Reconcilable,
           LedgerInv,
          LedgerTypeOK
    <3> QED BY <3>2, <1>2, <2>1, <2>2
  <2>4. CASE Reject(o)
    <3>1. RowMoves(o, "rejected") /\ view' = view
      BY <2>1, <2>4 DEF Reject, SetState, States, LedgerInv, LedgerTypeOK, RowMoves
    <3> QED BY <3>1, <1>2, <2>1, <2>2
  <2>5. CASE LoseAnswer(o)
    <3>1. RowMoves(o, "unknown_provider_state") /\ view' = view
      BY <2>1, <2>5 DEF LoseAnswer, SetState, States, Unresolved, LedgerInv,
           LedgerTypeOK, RowMoves
    <3> QED BY <3>1, <1>2, <2>1, <2>2
  <2> QED BY <1>4, <2>3, <2>4, <2>5
<1>5. ASSUME NEW r \in Readers,
             Look(o, r) \/ ReadBack(o, r) \/ ReadDiffers(o, r) \/ StopReading(o, r)
      PROVE  RowsStay /\ Views'
  <2>1. op[o].state \in Read /\ op[o].state # "absent" /\ UNCHANGED <<wire, held, day>>
    BY <1>5
    DEF Look, ReadBack, ReadDiffers, StopReading, Views, Read, Reconcilable
  <2>2. /\ view' \in [Ops -> [Readers -> Reconcilable \cup {"none"}]]
        /\ \A p \in Ops \ {o} : view'[p] = view[p]
    <3>1. PICK x \in Reconcilable \cup {"none"} : view' = [view EXCEPT ![o][r] = x]
      BY <1>5 DEF Look, ReadBack, ReadDiffers, StopReading
    <3>2. [view[o] EXCEPT ![r] = x] \in [Readers -> Reconcilable \cup {"none"}]
      BY DEF LedgerInv, LedgerTypeOK
    <3> QED BY <3>1, <3>2 DEF LedgerInv, LedgerTypeOK
  <2>3. CASE Look(o, r) \/ StopReading(o, r)
    <3>1. op' = op
      BY <2>3 DEF Look, StopReading
    <3>2. RowsStay
      BY <1>0, <2>1, <3>1 DEF RowsStay
    <3>3. Views'
      BY <2>1, <2>2, <3>1 DEF Views
    <3> QED BY <3>2, <3>3
  <2>4. ASSUME NEW s \in Read, Write(o, r, s), s = "confirmed" => ReadBack(o, r)
        PROVE  RowsStay /\ Views'
    <3>1. op' = op \/ op' = [op EXCEPT ![o].state = s]
      BY <2>4 DEF Write, SetState
    <3>2. op'[o].state \in Read
      <4>1. CASE op' = op
        BY <4>1, <2>1
      <4>2. CASE op' = [op EXCEPT ![o].state = s]
        BY <4>2, <2>4 DEF LedgerInv, LedgerTypeOK
      <4> QED BY <3>1, <4>1, <4>2
    <3>3. RowMoves(o, s)
      BY <2>1, <2>2, <2>4, <3>1
      DEF RowMoves, Read, Reconcilable, States, Unresolved, ReadBack
    <3> QED BY <3>2, <3>3, <1>2
  <2>5. CASE ReadBack(o, r)
    BY <2>4, <2>5 DEF ReadBack, Read
  <2>6. CASE ReadDiffers(o, r)
    BY <2>4, <2>6 DEF ReadDiffers, Read, Reconcilable
  <2> QED BY <1>5, <2>3, <2>5, <2>6
<1> QED BY <1>1, <1>3, <1>4, <1>5 DEF OpStep

LEMMA RowsStayAlways ==
    ASSUME LedgerInv, Views, [LedgerNext]_ledgerVars PROVE RowsStay /\ Views'
<1>1. ASSUME UNCHANGED <<op, wire, held, view>>, day' \in Nat, day <= day'
      PROVE  RowsStay /\ Views'
  BY <1>1 DEF RowsStay, Views, LedgerInv, LedgerTypeOK
<1>2. CASE UNCHANGED ledgerVars
  BY <1>1, <1>2 DEF ledgerVars, LedgerInv, LedgerTypeOK
<1>3. CASE NextDay
  BY <1>1, <1>3 DEF NextDay, LedgerInv, LedgerTypeOK
<1>4. ASSUME NEW o \in Ops, OpStep(o) PROVE RowsStay /\ Views'
  BY <1>4, RowsStayUnder
<1> QED BY <1>2, <1>3, <1>4 DEF LedgerNext

-----------------------------------------------------------------------------
(* What a worker holds, and the row it has written.                        *)

(* What a worker holds fits the ledger: it decides before it has a row,    *)
(* its row asks for its terms, an acknowledged row was applied, and what   *)
(* it read back as settled is settled.                                     *)
Writing == {"calling", "reading", "verified", "unverified"}

Linked(w) ==
    /\ ~At(w, {"idle"}) => worker[w].task \in {"payment", "topup"}
    /\ worker[w].task = "payment" => ~worker[w].sawMark
    /\ worker[w].today <= day
    /\ At(w, {"decided"}) => worker[w].op = NoWork
    /\ At(w, Writing) =>
         /\ op[worker[w].op].state # "absent"
         /\ op[worker[w].op].deduction = worker[w].loan
         /\ op[worker[w].op].terms = worker[w].terms
    /\ At(w, Writing \ {"calling"}) => wire[worker[w].op] = "applied"
    /\ At(w, {"verified"}) /\ worker[w].terms = Settled => held[worker[w].loan] = Settled
    /\ At(w, {"unverified"}) => op[worker[w].op].state \in Read

(* No two workers have one row.                                            *)
RowsApart ==
    \A v, w \in Workers : v # w /\ At(v, Writing) /\ At(w, Writing) => worker[v].op # worker[w].op

(* A mandate is called settled only for a settled deduction.               *)
SettledForGood == \A l \in Loans : mandate[l].settled => held[l] = Settled

Links == Views /\ (\A w \in Workers : Linked(w)) /\ RowsApart /\ SettledForGood

Whole == FullInv /\ Links

(* What a step makes of the worker that takes it.                          *)
Only(w) == \A v \in Workers \ {w} : worker'[v] = worker[v]

RestsNow(w) ==
    /\ worker'[w] = [Idle EXCEPT !.today = worker[w].today]
    /\ worker'[w].stage = "idle" /\ worker'[w].task = "none"
    /\ worker'[w].today = worker[w].today /\ ~worker'[w].sawMark

StandsAt(w, stage, o) ==
    /\ worker'[w].stage = stage /\ worker'[w].op = o
    /\ worker'[w].task = worker[w].task /\ worker'[w].loan = worker[w].loan
    /\ worker'[w].terms = worker[w].terms /\ worker'[w].today = worker[w].today
    /\ worker'[w].sawMark = worker[w].sawMark

StartsAt(w, stage, task, l, t, date) ==
    /\ worker'[w].stage = stage /\ worker'[w].op = NoWork
    /\ worker'[w].task = task /\ worker'[w].loan = l
    /\ worker'[w].terms = t /\ worker'[w].today = date
    /\ task = "topup" => worker'[w].sawMark = marked[l]
    /\ task = "payment" => ~worker'[w].sawMark

LEMMA RestEffect ==
    ASSUME Inv, NEW w \in Workers, Rests(w) PROVE Only(w) /\ RestsNow(w)
<1>1. worker' = [worker EXCEPT ![w] = [Idle EXCEPT !.today = worker[w].today]]
  BY DEF Rests
<1>2. worker \in [Workers -> WorkerType]
  BY DEF Inv, WorkersOK
<1>3. /\ worker'[w] = [Idle EXCEPT !.today = worker[w].today]
      /\ \A v \in Workers \ {w} : worker'[v] = worker[v]
  BY <1>1, <1>2
<1> QED BY <1>3 DEF Only, RestsNow, Idle

LEMMA StageEffect ==
    ASSUME Inv, NEW w \in Workers, NEW stage, Becomes(w, stage)
    PROVE  Only(w) /\ StandsAt(w, stage, worker[w].op)
<1>1. worker' = [worker EXCEPT ![w] = [worker[w] EXCEPT !.stage = stage]]
  BY DEF Becomes
<1>2. worker \in [Workers -> WorkerType] /\ worker[w] \in WorkerType
  BY DEF Inv, WorkersOK
<1>3. /\ worker'[w] = [worker[w] EXCEPT !.stage = stage]
      /\ \A v \in Workers \ {w} : worker'[v] = worker[v]
  BY <1>1, <1>2
<1> QED BY <1>2, <1>3 DEF Only, StandsAt, WorkerType

LEMMA CallEffect ==
    ASSUME Inv, NEW w \in Workers, NEW o,
           worker' = [worker EXCEPT ![w].stage = "calling", ![w].op = o]
    PROVE  Only(w) /\ StandsAt(w, "calling", o)
<1>1. worker' = [worker EXCEPT ![w] = [worker[w] EXCEPT !.stage = "calling", !.op = o]]
  OBVIOUS
<1>2. worker \in [Workers -> WorkerType] /\ worker[w] \in WorkerType
  BY DEF Inv, WorkersOK
<1>3. /\ worker'[w] = [worker[w] EXCEPT !.stage = "calling", !.op = o]
      /\ \A v \in Workers \ {w} : worker'[v] = worker[v]
  BY <1>1, <1>2
<1> QED BY <1>2, <1>3 DEF Only, StandsAt, WorkerType

LEMMA StartEffect ==
    ASSUME Inv, NEW w \in Workers, NEW stage, NEW task, NEW l \in Loans, NEW t, NEW date,
           Starts(w, stage, task, l, t, date)
    PROVE  Only(w) /\ StartsAt(w, stage, task, l, t, date)
<1> DEFINE saw == task = "topup" /\ marked[l]
<1>1. worker' = [worker EXCEPT ![w] =
        [stage |-> stage, task |-> task, loan |-> l, terms |-> t, op |-> NoWork,
         today |-> date, sawMark |-> saw, locked |-> stage = "decided"]]
  BY DEF Starts
<1>2. (task = "topup" => saw = marked[l]) /\ (task = "payment" => ~saw)
  BY DEF Inv, LoansOK
<1> HIDE DEF saw
<1>3. worker \in [Workers -> WorkerType]
  BY DEF Inv, WorkersOK
<1> QED BY <1>1, <1>2, <1>3 DEF Only, StartsAt

(* Of a worker that only lets the day, or its locks, go by.                *)
LEMMA NewCycleEffect ==
    ASSUME Inv, NEW w \in Workers, NewCycle(w)
    PROVE  /\ Only(w) /\ At(w, {"idle"})
           /\ worker'[w].stage = "idle" /\ worker'[w].task = worker[w].task
           /\ worker'[w].today = day /\ worker'[w].sawMark = worker[w].sawMark
<1>1. worker' = [worker EXCEPT ![w] = [worker[w] EXCEPT !.today = day]]
  BY DEF NewCycle
<1>2. worker \in [Workers -> WorkerType] /\ worker[w] \in WorkerType
  BY DEF Inv, WorkersOK
<1>3. /\ worker'[w] = [worker[w] EXCEPT !.today = day]
      /\ \A v \in Workers \ {w} : worker'[v] = worker[v]
  BY <1>1, <1>2
<1> QED BY <1>2, <1>3 DEF Only, NewCycle, At, WorkerType

LEMMA LoseLocksEffect ==
    ASSUME Inv, NEW w \in Workers, LoseLocks(w)
    PROVE  Only(w) /\ At(w, {"calling"}) /\ StandsAt(w, "calling", worker[w].op)
<1>1. worker' = [worker EXCEPT ![w] = [worker[w] EXCEPT !.locked = FALSE]]
  BY DEF LoseLocks
<1>2. worker \in [Workers -> WorkerType] /\ worker[w] \in WorkerType
  BY DEF Inv, WorkersOK
<1>3. /\ worker'[w] = [worker[w] EXCEPT !.locked = FALSE]
      /\ \A v \in Workers \ {w} : worker'[v] = worker[v]
  BY <1>1, <1>2
<1> QED BY <1>2, <1>3 DEF Only, StandsAt, WorkerType, LoseLocks, At

-----------------------------------------------------------------------------
LEMMA LinkedKept ==
    ASSUME FullInv, RowsStay, NEW v \in Workers, Linked(v), worker'[v] = worker[v]
    PROVE  Linked(v)'
<1>1. /\ At(v, Writing) => worker[v].op \in Ops
      /\ ~At(v, {"idle"}) => worker[v].loan \in Deductions
      /\ worker[v].today \in Nat
  BY OpsAssumption DEF FullInv, Inv, WorkersOK, WorkerType, Holding, At, Writing, Loans
<1> QED BY <1>1 DEF Linked, At, RowsStay, Writing

LEMMA LinkedAtRest ==
    ASSUME FullInv, RowsStay, NEW v \in Workers, Linked(v), RestsNow(v)
    PROVE  Linked(v)'
<1>1. worker[v].today \in Nat
  BY OpsAssumption DEF FullInv, Inv, WorkersOK, WorkerType
<1> QED BY <1>1 DEF Linked, At, RowsStay, Writing, RestsNow

(* A worker that stays with its row.                                       *)
LEMMA LinkedMoves ==
    ASSUME FullInv, RowsStay, NEW v \in Workers, Linked(v), NEW stage \in Writing,
           At(v, Writing), StandsAt(v, stage, worker[v].op),
           stage # "calling" => wire'[worker[v].op] = "applied",
           stage = "verified" => held'[worker[v].loan] = worker[v].terms,
           stage = "unverified" => op'[worker[v].op].state \in Read
    PROVE  Linked(v)'
<1>1. /\ worker[v].op \in Ops
      /\ worker[v].loan \in Deductions
      /\ worker[v].today \in Nat
  BY OpsAssumption DEF FullInv, Inv, WorkersOK, WorkerType, Holding, At, Writing, Loans
<1> QED BY <1>1 DEF Linked, At, RowsStay, Writing, StandsAt

(* A worker that starts.                                                   *)
LEMMA LinkedStarts ==
    ASSUME FullInv, RowsStay, NEW v \in Workers, NEW stage \in {"asking", "decided"},
           NEW task \in {"payment", "topup"}, NEW l, NEW t, NEW date \in Nat, date <= day,
           StartsAt(v, stage, task, l, t, date)
    PROVE  Linked(v)'
BY DEF Linked, At, RowsStay, Writing, StartsAt

LEMMA DayIsNat ==
    ASSUME FullInv PROVE day \in Nat /\ \A w \in Workers : worker[w].today \in Nat
BY OpsAssumption DEF FullInv, Inv, LedgerTypeOK, WorkersOK, WorkerType

(* Each step of a worker keeps its links.                                  *)
LEMMA LinkedSteps ==
    ASSUME Whole, RowsStay, NEW w \in Workers, WorkerStep(w) PROVE Only(w) /\ Linked(w)'
<1>0. FullInv /\ Inv /\ Linked(w) /\ Views
  BY DEF Whole, Links, FullInv
<1>d. day \in Nat /\ worker[w].today \in Nat /\ worker[w].today <= day
  BY <1>0, DayIsNat DEF Linked
<1>r. ASSUME Rests(w) PROVE Only(w) /\ Linked(w)'
  BY <1>0, <1>r, RestEffect, LinkedAtRest
<1>1. ASSUME NEW l \in Loans, StartPayment(w, l) PROVE Only(w) /\ Linked(w)'
  <2>1. Starts(w, "decided", "payment", l, AfterPayment(l), day)
    BY <1>1 DEF StartPayment
  <2> QED BY <1>0, <1>d, <2>1, StartEffect, LinkedStarts
<1>2. ASSUME NEW l \in Loans, StartScan(w, l) PROVE Only(w) /\ Linked(w)'
  <2>1. Starts(w, "asking", "topup", l, Settled, worker[w].today)
    BY <1>2 DEF StartScan
  <2> QED BY <1>0, <1>d, <2>1, StartEffect, LinkedStarts
<1>3. CASE NewCycle(w)
  <2>1. RowsStay /\ day' = day
    BY <1>3 DEF NewCycle, ledgerVars
  <2> QED BY <1>0, <1>3, <1>d, <2>1, NewCycleEffect DEF Linked, At, Writing
<1>4. CASE FinishScan(w)
  <2>1. Rests(w) \/ (Becomes(w, "offered") /\ At(w, {"asking"}))
    BY <1>4 DEF FinishScan
  <2>2. CASE Becomes(w, "offered") /\ At(w, {"asking"})
    <3>1. Only(w) /\ StandsAt(w, "offered", worker[w].op)
      BY <1>0, <2>2, StageEffect
    <3> QED BY <1>0, <1>d, <2>2, <3>1 DEF Linked, At, Writing, StandsAt, RowsStay
  <2> QED BY <1>r, <2>1, <2>2
<1>5. CASE Skip(w)
  BY <1>5, <1>r DEF Skip
<1>6. CASE StartTopUp(w)
  <2>1. PICK h \in 1 .. Headroom : Reserve(w, worker[w].loan, worker[w].today, h)
    BY <1>6 DEF StartTopUp
  <2>2. Starts(w, "decided", "topup", worker[w].loan,
               [amount |-> Proposed(worker[w].loan, h), principal |-> balance[worker[w].loan]],
               worker[w].today)
    BY <2>1 DEF Reserve
  <2>3. worker[w].loan \in Loans
    BY <1>0, <1>6 DEF StartTopUp, At, Inv, WorkersOK, Holding
  <2> QED BY <1>0, <1>d, <2>2, <2>3, StartEffect, LinkedStarts
<1>7. CASE BeginWrite(w)
  <2>1. PICK o \in Ops :
           \/ /\ Begin(o, worker[w].loan, worker[w].terms, "submitting")
              /\ worker' = [worker EXCEPT ![w].stage = "calling", ![w].op = o]
           \/ Rests(w)
    BY <1>7 DEF BeginWrite
  <2>2. CASE /\ Begin(o, worker[w].loan, worker[w].terms, "submitting")
             /\ worker' = [worker EXCEPT ![w].stage = "calling", ![w].op = o]
    <3>1. Only(w) /\ StandsAt(w, "calling", o) /\ At(w, {"decided"})
      BY <1>0, <1>7, <2>2, CallEffect DEF BeginWrite
    <3>2. /\ op'[o].state = "submitting" /\ op'[o].deduction = worker[w].loan
          /\ op'[o].terms = worker[w].terms
      BY <1>0, <2>2 DEF Begin, Inv, LedgerTypeOK
    <3> QED BY <1>0, <1>d, <3>1, <3>2 DEF Linked, At, Writing, StandsAt, RowsStay
  <2> QED BY <1>r, <2>1, <2>2
<1>8. CASE Duplicate(w) \/ WriteFails(w) \/ Record(w) \/ Crash(w)
  BY <1>8, <1>r DEF Duplicate, WriteFails, Record, Crash, End
<1>9. CASE WriteAcknowledged(w)
  <2>1. At(w, {"calling"}) /\ Becomes(w, "reading") /\ wire'[worker[w].op] = "applied"
    BY <1>9 DEF WriteAcknowledged, Acknowledge
  <2> QED BY <1>0, <2>1, StageEffect, LinkedMoves DEF At, Writing
<1>10. CASE Verify(w)
  <2>1. /\ At(w, {"reading"}) /\ worker[w].op \in Ops
        /\ wire[worker[w].op] = "applied" /\ op[worker[w].op].terms = worker[w].terms
        /\ op[worker[w].op].deduction = worker[w].loan
        /\ UNCHANGED <<wire, held>>
    BY <1>0, <1>10
    DEF Verify, Linked, At, Writing, ReadBack, ReadDiffers, Inv, WorkersOK, Holding
  <2>2. op[worker[w].op].state \in Read /\ op'[worker[w].op].state \in Read
    BY <1>0, <1>10, <2>1, ReadersAssumption
    DEF Verify, ReadBack, ReadDiffers, Views, RowsStay, Read, Reconcilable
  <2>3. CASE ReadBack(worker[w].op, Caller) /\ Becomes(w, "verified")
    BY <1>0, <2>1, <2>3, StageEffect, LinkedMoves DEF At, Writing, ReadBack
  <2>4. CASE Becomes(w, "unverified")
    BY <1>0, <2>1, <2>2, <2>4, StageEffect, LinkedMoves DEF At, Writing
  <2> QED BY <1>10, <2>3, <2>4 DEF Verify
<1>11. CASE LoseLocks(w)
  BY <1>0, <1>11, LoseLocksEffect, LinkedMoves DEF At, Writing
<1> QED BY <1>1, <1>2, <1>3, <1>4, <1>5, <1>6, <1>7, <1>8, <1>9, <1>10,
           <1>11 DEF WorkerStep

(* Only the row of a new write is taken up, and it was nobody's.           *)
LEMMA RowsStayApart ==
    ASSUME Whole, NEW w \in Workers, WorkerStep(w), Only(w) PROVE RowsApart'
<1>0. Inv /\ RowsApart /\ \A v \in Workers : Linked(v)
  BY DEF Whole, Links, FullInv
<1>1. ASSUME At(w, Writing)' => At(w, Writing) /\ worker'[w].op = worker[w].op
      PROVE  RowsApart'
  BY <1>0, <1>1 DEF RowsApart, Only, At
<1>2. ASSUME NEW o \in Ops, op[o].state = "absent", worker'[w].op = o
      PROVE  RowsApart'
  BY <1>0, <1>2 DEF RowsApart, Only, At, Linked
<1>3. CASE BeginWrite(w)
  <2>1. PICK o \in Ops :
           \/ /\ Begin(o, worker[w].loan, worker[w].terms, "submitting")
              /\ worker' = [worker EXCEPT ![w].stage = "calling", ![w].op = o]
           \/ Rests(w)
    BY <1>3 DEF BeginWrite
  <2>2. CASE Rests(w)
    BY <1>0, <1>1, <2>2, RestEffect DEF RestsNow, At, Writing
  <2>3. CASE /\ Begin(o, worker[w].loan, worker[w].terms, "submitting")
             /\ worker' = [worker EXCEPT ![w].stage = "calling", ![w].op = o]
    BY <1>0, <1>2, <2>3, CallEffect DEF Begin, StandsAt
  <2> QED BY <2>1, <2>2, <2>3
<1>4. CASE \E l \in Loans : StartPayment(w, l) \/ StartScan(w, l)
  <2>1. PICK l \in Loans : StartPayment(w, l) \/ StartScan(w, l)
    BY <1>4
  <2>2. worker'[w].stage \in {"asking", "decided"}
    BY <1>0, <2>1, StartEffect DEF StartPayment, StartScan, StartsAt
  <2> QED BY <1>1, <2>2 DEF At, Writing
<1>5. CASE StartTopUp(w)
  <2>1. PICK h \in 1 .. Headroom : Reserve(w, worker[w].loan, worker[w].today, h)
    BY <1>5 DEF StartTopUp
  <2>2. worker[w].loan \in Loans
    BY <1>0, <1>5 DEF StartTopUp, At, Inv, WorkersOK, Holding
  <2>3. worker'[w].stage = "decided"
    BY <1>0, <2>1, <2>2, StartEffect DEF Reserve, StartsAt
  <2> QED BY <1>1, <2>3 DEF At, Writing
<1>6. CASE Skip(w) \/ Duplicate(w) \/ WriteFails(w) \/ Record(w) \/ Crash(w)
  <2>1. Rests(w)
    BY <1>6 DEF Skip, Duplicate, WriteFails, Record, Crash, End
  <2> QED BY <1>0, <1>1, <2>1, RestEffect DEF RestsNow, At, Writing
<1>7. CASE FinishScan(w)
  <2>1. Rests(w) \/ Becomes(w, "offered")
    BY <1>7 DEF FinishScan
  <2> QED BY <1>0, <1>1, <2>1, RestEffect, StageEffect DEF RestsNow, StandsAt, At,
       Writing
<1>8. CASE WriteAcknowledged(w) \/ Verify(w)
  <2>1. At(w, Writing) /\ \E stage : Becomes(w, stage)
    BY <1>8 DEF WriteAcknowledged, Verify, At, Writing
  <2> QED BY <1>0, <1>1, <2>1, StageEffect DEF StandsAt
<1>9. CASE NewCycle(w)
  BY <1>0, <1>1, <1>9, NewCycleEffect DEF At, Writing
<1>10. CASE LoseLocks(w)
  BY <1>0, <1>1, <1>10, LoseLocksEffect DEF At, Writing, StandsAt
<1> QED BY <1>3, <1>4, <1>5, <1>6, <1>7, <1>8, <1>9, <1>10 DEF WorkerStep

(* Only a confirmed settlement settles a mandate.                          *)
LEMMA SettledStays ==
    ASSUME Whole, RowsStay, [Next]_vars PROVE SettledForGood'
<1>0. Inv /\ SettledForGood /\ \A w \in Workers : Linked(w)
  BY DEF Whole, Links, FullInv
<1>m. mandate \in [Loans -> [amount : 0 .. Maximum, settled : BOOLEAN]]
  BY <1>0 DEF Inv, LoansOK
<1>1. ASSUME UNCHANGED mandate PROVE SettledForGood'
  BY <1>0, <1>1 DEF SettledForGood, RowsStay, Loans
<1>2. ASSUME NEW w \in Workers, Record(w) PROVE SettledForGood'
  <2> DEFINE l == worker[w].loan
             t == worker[w].terms
  <2>1. l \in Loans /\ held' = held
    BY <1>0, <1>2 DEF Record, At, Inv, WorkersOK, Holding, ledgerVars
  <2>2. mandate' = [mandate EXCEPT ![l] =
              IF ~At(w, {"verified"}) THEN @
              ELSE IF t = Settled THEN [@ EXCEPT !.settled = TRUE]
              ELSE [amount |-> t.amount, settled |-> FALSE]]
    BY <1>2 DEF Record
  <2>3. At(w, {"verified"}) /\ t = Settled => held[l] = Settled
    BY <1>0 DEF Linked
  <2> HIDE DEF l, t
  <2>4. \A k \in Loans : mandate'[k].settled => \/ mandate[k].settled
                                                \/ k = l /\ At(w, {"verified"}) /\ t = Settled
    BY <1>m, <2>1, <2>2
  <2> QED BY <1>0, <2>1, <2>3, <2>4 DEF SettledForGood
<1>3. ASSUME NEW o \in Ops, OperatorReads(o) PROVE SettledForGood'
  <2> DEFINE l == op[o].deduction
             t == op[o].terms
  <2>1. CASE UNCHANGED mandate
    BY <1>1, <2>1
  <2>2. ASSUME ReadBack(o, "loan"), mandate' = [mandate EXCEPT ![l].settled = (t = Settled)]
        PROVE  SettledForGood'
    <3>1. held' = held /\ held[l] = t
      BY <2>2 DEF ReadBack
    <3>2. mandate' = [mandate EXCEPT ![l] = [mandate[l] EXCEPT !.settled = (t = Settled)]]
      BY <2>2
    <3> HIDE DEF l, t
    <3>3. \A k \in Loans : mandate'[k].settled => mandate[k].settled \/ (k = l /\ t = Settled)
      BY <1>m, <3>2
    <3> QED BY <1>0, <3>1, <3>3 DEF SettledForGood
  <2> QED BY <1>3, <2>1, <2>2 DEF OperatorReads
<1>4. CASE UNCHANGED vars
  BY <1>1, <1>4 DEF vars
<1>5. ASSUME NEW w \in Workers, WorkerStep(w), ~Record(w) PROVE SettledForGood'
  <2>1. UNCHANGED mandate
    BY <1>5 DEF WorkerStep, StartPayment, StartScan, NewCycle, FinishScan, Skip,
         StartTopUp,
         BeginWrite, Duplicate, WriteFails, WriteAcknowledged, Verify, Crash, LoseLocks
  <2> QED BY <1>1, <2>1
<1>6. ASSUME \/ \E l \in Loans : Payment(l)
             \/ \E o \in Ops : OperatorLooks(o) \/ Provider(o)
             \/ Midnight
      PROVE SettledForGood'
  BY <1>1, <1>6 DEF Payment, Repayment, InitiatePayment, ReverseLastPayment, Marks,
       OperatorLooks, Provider, Midnight
<1> QED BY <1>2, <1>3, <1>4, <1>5, <1>6 DEF Next

LEMMA WholeInit == Init => Whole
<1> SUFFICES ASSUME Init PROVE Whole
  OBVIOUS
<1>1. FullInv
  BY FullInit
<1>2. Views
  BY DEF Init, LedgerInit, Views
<1>3. \A w \in Workers : Linked(w)
  BY <1>1, DayIsNat DEF Init, LedgerInit, Linked, Idle, At, Writing
<1>4. RowsApart
  BY DEF Init, RowsApart, Idle, At, Writing
<1>5. SettledForGood
  BY DEF Init, SettledForGood
<1> QED BY <1>1, <1>2, <1>3, <1>4, <1>5 DEF Whole, Links

LEMMA WholeSteps ==
    ASSUME Whole, [Next]_vars
    PROVE  /\ Whole' /\ RowsStay
           /\ \A w \in Workers : WorkerStep(w) => Only(w)
<1>0. FullInv /\ Inv /\ LedgerInv /\ Views /\ RowsApart /\ \A w \in Workers : Linked(w)
  BY DEF Whole, Links, FullInv
<1>1. [LedgerNext]_ledgerVars
  BY <1>0, StepsLedger
<1>2. RowsStay /\ Views'
  BY <1>0, <1>1, RowsStayAlways
<1>3. FullInv'
  BY <1>0, FullStep
<1>4. SettledForGood'
  BY <1>2, SettledStays
<1>5. ASSUME NEW w \in Workers, WorkerStep(w)
      PROVE  Only(w) /\ RowsApart' /\ \A v \in Workers : Linked(v)'
  <2>1. Only(w) /\ Linked(w)'
    BY <1>2, <1>5, LinkedSteps
  <2>2. RowsApart'
    BY <1>5, <2>1, RowsStayApart
  <2>3. ASSUME NEW v \in Workers, v # w PROVE Linked(v)'
    <3>1. worker'[v] = worker[v]
      BY <2>1, <2>3 DEF Only
    <3> QED BY <1>0, <1>2, <3>1, LinkedKept
  <2> QED BY <2>1, <2>2, <2>3
<1>6. ASSUME UNCHANGED worker PROVE RowsApart' /\ \A v \in Workers : Linked(v)'
  <2>1. RowsApart'
    BY <1>0, <1>6 DEF RowsApart, At
  <2>2. ASSUME NEW v \in Workers PROVE Linked(v)'
    BY <1>0, <1>2, <1>6, LinkedKept
  <2> QED BY <2>1, <2>2
<1>7. (\E w \in Workers : WorkerStep(w)) \/ UNCHANGED worker
  BY DEF Next, vars, Payment, Repayment, InitiatePayment, ReverseLastPayment, Marks,
       OperatorLooks, OperatorReads, Provider, Midnight
<1>8. RowsApart' /\ \A v \in Workers : Linked(v)'
  BY <1>5, <1>6, <1>7
<1> QED BY <1>2, <1>3, <1>4, <1>5, <1>8 DEF Whole, Links

-----------------------------------------------------------------------------
(* The mandate and the deduction: MandateShowsDeduction.                   *)

(* One worker at a time writes to a deduction.                             *)
Alone ==
    \A v, w \in Workers : v # w /\ At(v, AtWork) /\ At(w, AtWork) => worker[v].loan # worker[w].loan

(* A request that is still under way has a worker that waits for it.       *)
SentIsAwaited ==
    \A o \in Ops : wire[o] = "sent" => \E w \in Workers : At(w, {"calling"}) /\ worker[w].op = o

Shows(l) ==
    IF mandate[l].settled THEN held[l] = Settled ELSE held[l].amount = mandate[l].amount

(* The mandate shows the deduction of a loan that is at rest, and of one   *)
(* whose write has not taken effect yet; what was read back is what is     *)
(* deducted.                                                               *)
RestShows ==
    \A l \in Loans : ~doubtful[l] /\ (\A w \in Workers : ~WorksOn(w, l)) => Shows(l)

Unapplied(w) == At(w, {"decided"}) \/ (At(w, {"calling"}) /\ wire[worker[w].op] # "applied")

WorkShows == \A w \in Workers : Unapplied(w) => Shows(worker[w].loan)

VerifiedHolds == \A w \in Workers : At(w, {"verified"}) => held[worker[w].loan] = worker[w].terms

InStepParts == Alone /\ SentIsAwaited /\ RestShows /\ WorkShows /\ VerifiedHolds

InStep == "deduction" \notin upset => InStepParts

LEMMA UpsetGrows == [Next]_vars => upset \subseteq upset'
<1> SUFFICES ASSUME [Next]_vars PROVE upset \subseteq upset'
  OBVIOUS
<1>1. ASSUME NEW w \in Workers, WorkerStep(w) PROVE upset \subseteq upset'
  BY <1>1 DEF WorkerStep, StartPayment, StartScan, NewCycle, FinishScan, Skip,
       StartTopUp, BeginWrite,
       Duplicate, WriteFails, WriteAcknowledged, Verify, Record, Crash, LoseLocks, End, Noting
<1>2. CASE ~(\E w \in Workers : WorkerStep(w))
  BY <1>2 DEF Next, vars, Payment, Repayment, InitiatePayment, ReverseLastPayment,
       Marks, OperatorLooks, OperatorReads, Provider, Midnight, Noting
<1> QED BY <1>1, <1>2

(* Steps that leave the tasks at work, and what they are about, alone.     *)
SameTask(v) ==
    /\ worker'[v].stage = worker[v].stage /\ worker'[v].op = worker[v].op
    /\ worker'[v].loan = worker[v].loan /\ worker'[v].terms = worker[v].terms

TasksStay ==
    \A v \in Workers : \/ ~At(v, AtWork) /\ ~At(v, AtWork)'
                       \/ SameTask(v)

LEMMA InStepStays ==
    ASSUME InStepParts, TasksStay, UNCHANGED <<wire, held, mandate, doubtful>>
    PROVE  InStepParts'
<1>1. \A v \in Workers : /\ At(v, AtWork)' => At(v, AtWork)
                         /\ At(v, AtWork) => SameTask(v)
                         /\ At(v, {"calling"}) => At(v, {"calling"})'
                         /\ At(v, {"calling"})' => At(v, {"calling"})
                         /\ At(v, {"verified"})' => At(v, {"verified"})
                         /\ At(v, {"decided"})' => At(v, {"decided"})
  BY DEF TasksStay, SameTask, At, AtWork
<1>2. \A v \in Workers : At(v, {"calling"}) \/ At(v, {"verified"}) \/ At(v, {"decided"}) => At(v, AtWork)
  BY DEF At, AtWork
<1>3. Alone'
  BY <1>1 DEF InStepParts, Alone, SameTask
<1>4. SentIsAwaited'
  BY <1>1, <1>2 DEF InStepParts, SentIsAwaited, SameTask
<1>5. \A l \in Loans, v \in Workers : WorksOn(v, l) => WorksOn(v, l)'
  BY DEF TasksStay, SameTask, WorksOn, At
<1>6. RestShows'
  BY <1>5 DEF InStepParts, RestShows, Shows
<1>7. \A v \in Workers : Unapplied(v)' => Unapplied(v) /\ SameTask(v)
  BY <1>1, <1>2 DEF Unapplied, SameTask
<1>8. WorkShows'
  BY <1>7 DEF InStepParts, WorkShows, Shows, SameTask
<1>9. VerifiedHolds'
  BY <1>1, <1>2 DEF InStepParts, VerifiedHolds, SameTask
<1> QED BY <1>3, <1>4, <1>6, <1>8, <1>9 DEF InStepParts

(* A worker that comes to a loan at rest.                                  *)
LEMMA InStepStarts ==
    ASSUME Inv, InStepParts, NEW w \in Workers, NEW l \in Loans, Only(w), ~At(w, AtWork),
           worker'[w].stage = "decided", worker'[w].loan = l,
           \A v \in Workers \ {w} : ~WorksOn(v, l), Eligible(l),
           UNCHANGED <<wire, held, mandate, doubtful>>
    PROVE  InStepParts'
<1>1. Shows(l)
  BY DEF InStepParts, RestShows, Eligible, WorksOn
<1>2. \A v \in Workers \ {w} : worker'[v] = worker[v]
  BY DEF Only
<1>3. ~At(w, {"calling"}) /\ ~At(w, {"verified"})' /\ ~At(w, {"calling"})'
  BY DEF At, AtWork
<1>4. Alone'
  BY <1>2 DEF InStepParts, Alone, At, AtWork, WorksOn
<1>5. SentIsAwaited'
  BY <1>2, <1>3 DEF InStepParts, SentIsAwaited, At
<1>6. RestShows'
  <2>1. ASSUME NEW k \in Loans, k # l, \A v \in Workers : ~WorksOn(v, k)'
        PROVE  \A v \in Workers : ~WorksOn(v, k)
    BY <2>1, <1>2 DEF WorksOn, At
  <2>2. WorksOn(w, l)'
    BY DEF WorksOn, At, AtWork
  <2> QED BY <2>1, <2>2 DEF InStepParts, RestShows, Shows
<1>7. WorkShows'
  BY <1>1, <1>2, <1>3 DEF InStepParts, WorkShows, Unapplied, Shows, At
<1>8. VerifiedHolds'
  BY <1>2, <1>3 DEF InStepParts, VerifiedHolds, At
<1> QED BY <1>4, <1>5, <1>6, <1>7, <1>8 DEF InStepParts

(* A worker that leaves its loan.                                          *)
LEMMA InStepLeaves ==
    ASSUME Inv, InStepParts, NEW w \in Workers, NEW l \in Loans, Only(w), worker[w].loan = l,
           At(w, AtWork), worker'[w].stage = "idle",
           At(w, {"calling"}) => wire[worker[w].op] # "sent",
           UNCHANGED <<wire, held>>,
           \A k \in Loans \ {l} : mandate'[k] = mandate[k] /\ doubtful'[k] = doubtful[k],
           ~doubtful'[l] => Shows(l)'
    PROVE  InStepParts'
<1>2. \A v \in Workers \ {w} : worker'[v] = worker[v]
  BY DEF Only
<1>3. ~At(w, AtWork)' /\ ~At(w, {"verified"})' /\ ~At(w, {"calling"})' /\ ~At(w, {"decided"})'
  BY DEF At, AtWork
<1>4. Alone'
  BY <1>2, <1>3 DEF InStepParts, Alone, At
<1>5. SentIsAwaited'
  BY <1>2, <1>3 DEF InStepParts, SentIsAwaited, At
<1>6. RestShows'
  <2>1. ASSUME NEW k \in Loans, k # l, \A v \in Workers : ~WorksOn(v, k)'
        PROVE  \A v \in Workers : ~WorksOn(v, k)
    BY <2>1, <1>2 DEF WorksOn, At
  <2> QED BY <2>1 DEF InStepParts, RestShows, Shows
<1>7. WorkShows'
  <2>1. ASSUME NEW v \in Workers, Unapplied(v)' PROVE Shows(worker[v].loan)'
    <3>1. v # w /\ worker'[v] = worker[v]
      BY <1>2, <1>3, <2>1 DEF Unapplied
    <3>2. Unapplied(v) /\ At(v, AtWork)
      BY <2>1, <3>1 DEF Unapplied, At, AtWork
    <3>3. worker[v].loan \in Loans /\ worker[v].loan # l
      BY <3>1, <3>2 DEF InStepParts, Alone, Inv, WorkersOK, Holding, At, AtWork
    <3>4. Shows(worker[v].loan)
      BY <3>2 DEF InStepParts, WorkShows
    <3> QED BY <3>1, <3>3, <3>4 DEF Shows
  <2> QED BY <2>1 DEF WorkShows
<1>8. VerifiedHolds'
  BY <1>2, <1>3 DEF InStepParts, VerifiedHolds, At
<1> QED BY <1>4, <1>5, <1>6, <1>7, <1>8 DEF InStepParts

(* A worker that stays at its loan and goes a step further.                *)
LEMMA InStepGoesOn ==
    ASSUME Inv, InStepParts, NEW w \in Workers, NEW stage \in Writing, NEW o, Only(w),
           At(w, AtWork), StandsAt(w, stage, o),
           UNCHANGED <<held, mandate, doubtful>>,
           \A p \in Ops : wire'[p] = wire[p] \/ (stage = "calling" /\ At(w, {"decided"}) /\ p = o),
           \A v \in Workers \ {w} : At(v, {"calling"}) => worker[v].op # o /\ worker[v].op \in Ops,
           stage = "calling" => At(w, {"decided"}),
           stage # "calling" => o = worker[w].op /\ wire[o] # "sent",
           stage = "verified" => held[worker[w].loan] = worker[w].terms
    PROVE  InStepParts'
<1>2. \A v \in Workers \ {w} : worker'[v] = worker[v]
  BY DEF Only
<1>3. /\ At(w, AtWork)' /\ worker'[w].loan = worker[w].loan
      /\ worker'[w].terms = worker[w].terms
      /\ worker'[w].op = o /\ worker'[w].stage = stage
  BY DEF StandsAt, At, AtWork, Writing
<1>4. Alone'
  BY <1>2, <1>3 DEF InStepParts, Alone, At
<1>5. SentIsAwaited'
  <2>1. ASSUME NEW p \in Ops, wire'[p] = "sent"
        PROVE  \E v \in Workers : At(v, {"calling"})' /\ worker'[v].op = p
    <3>1. CASE stage = "calling" /\ p = o
      BY <3>1, <1>3 DEF At
    <3>2. CASE ~(stage = "calling" /\ p = o)
      <4>1. wire[p] = "sent"
        BY <2>1, <3>2
      <4>2. PICK v \in Workers : At(v, {"calling"}) /\ worker[v].op = p
        BY <4>1 DEF InStepParts, SentIsAwaited
      <4>3. v # w
        <5>1. CASE stage = "calling"
          BY <5>1, <4>2 DEF At
        <5>2. CASE stage # "calling"
          BY <5>2, <4>1, <4>2
        <5> QED BY <5>1, <5>2
      <4> QED BY <4>2, <4>3, <1>2 DEF At
    <3> QED BY <3>1, <3>2
  <2> QED BY <2>1 DEF SentIsAwaited
<1>6. RestShows'
  <2>1. \A k \in Loans, v \in Workers : WorksOn(v, k) => WorksOn(v, k)'
    BY <1>2, <1>3 DEF WorksOn, At
  <2> QED BY <2>1 DEF InStepParts, RestShows, Shows
<1>7. WorkShows'
  <2>1. ASSUME NEW v \in Workers, v # w, Unapplied(v)' PROVE Shows(worker[v].loan)'
    <3>1. worker'[v] = worker[v]
      BY <1>2, <2>1
    <3>2. Unapplied(v)
      BY <2>1, <3>1 DEF Unapplied, At
    <3> QED BY <3>1, <3>2 DEF InStepParts, WorkShows, Shows
  <2>2. ASSUME Unapplied(w)' PROVE Shows(worker[w].loan)'
    <3>1. At(w, {"decided"})
      BY <2>2, <1>3 DEF Unapplied, At, Writing
    <3> QED BY <1>3, <3>1 DEF InStepParts, WorkShows, Shows, Unapplied
  <2> QED BY <2>1, <2>2 DEF WorkShows
<1>8. VerifiedHolds'
  BY <1>2, <1>3 DEF InStepParts, VerifiedHolds, At
<1> QED BY <1>4, <1>5, <1>6, <1>7, <1>8 DEF InStepParts

(* What is known of a step, and of the worker that takes it.               *)
LEMMA LinkedFacts ==
    ASSUME Whole, NEW w \in Workers
    PROVE  /\ FullInv /\ Inv /\ LedgerInv /\ Linked(w)
           /\ At(w, AtWork) => worker[w].loan \in Loans
           /\ At(w, Writing) => worker[w].op \in Ops
           /\ At(w, {"decided"}) => worker[w].op \notin Ops
           /\ At(w, Writing) \/ At(w, {"decided"}) => At(w, AtWork)
           /\ At(w, {"calling", "reading", "verified", "unverified"}) => At(w, Writing)
BY LoansAssumption
DEF Whole, Links, FullInv, Inv, WorkersOK, Holding, At, AtWork, Writing, Linked

LEMMA InStepStartPayment ==
    ASSUME Whole, InStepParts, "deduction" \notin upset', NEW w \in Workers, NEW l \in Loans,
           StartPayment(w, l)
    PROVE  InStepParts'
<1>1. Inv
  BY LinkedFacts
<1>2. /\ ~At(w, AtWork) /\ Eligible(l)
      /\ Starts(w, "decided", "payment", l, AfterPayment(l), day)
      /\ UNCHANGED <<wire, held, mandate, doubtful>>
  BY DEF StartPayment, At, AtWork, ledgerVars
<1>3. \A v \in Workers \ {w} : ~WorksOn(v, l)
  BY DEF StartPayment, Noting, Accompanied, Happened
<1>4. Only(w) /\ worker'[w].stage = "decided" /\ worker'[w].loan = l
  BY <1>1, <1>2, StartEffect DEF StartsAt
<1> QED BY <1>1, <1>2, <1>3, <1>4, InStepStarts

LEMMA InStepStartTopUp ==
    ASSUME Whole, InStepParts, "deduction" \notin upset', NEW w \in Workers, StartTopUp(w)
    PROVE  InStepParts'
<1> DEFINE l == worker[w].loan
<1>1. Inv /\ l \in Loans
  BY LinkedFacts DEF StartTopUp, At, Inv, WorkersOK, Holding
<1>2. /\ ~At(w, AtWork) /\ Eligible(l)
      /\ UNCHANGED <<wire, held, mandate, doubtful>>
  BY DEF StartTopUp, At, AtWork, ledgerVars
<1>3. PICK h \in 1 .. Headroom : Reserve(w, l, worker[w].today, h)
  BY DEF StartTopUp
<1>4. \A v \in Workers \ {w} : ~WorksOn(v, l)
  BY DEF StartTopUp, Noting, Accompanied, Happened
<1>5. Only(w) /\ worker'[w].stage = "decided" /\ worker'[w].loan = l
  BY <1>1, <1>3, StartEffect DEF Reserve, StartsAt
<1> HIDE DEF l
<1> QED BY <1>1, <1>2, <1>4, <1>5, InStepStarts

LEMMA InStepBeginWrite ==
    ASSUME Whole, InStepParts, NEW w \in Workers, BeginWrite(w)
    PROVE  InStepParts'
<1> DEFINE l == worker[w].loan
<1>1. /\ Inv /\ LedgerInv /\ At(w, {"decided"}) /\ At(w, AtWork) /\ l \in Loans
      /\ worker[w].op \notin Ops /\ ~At(w, {"calling"})
  BY LinkedFacts DEF BeginWrite, At, AtWork
<1>2. UNCHANGED <<held, mandate, doubtful>>
  BY DEF BeginWrite, Begin
<1>3. PICK o \in Ops :
         \/ /\ Begin(o, l, worker[w].terms, "submitting")
            /\ worker' = [worker EXCEPT ![w].stage = "calling", ![w].op = o]
         \/ Begin(o, l, worker[w].terms, "prepared") /\ Rests(w)
  BY DEF BeginWrite
<1>4. op[o].state = "absent" /\ wire[o] = "none" /\ \A p \in Ops \ {o} : wire'[p] = wire[p]
  BY <1>1, <1>3 DEF Begin, LedgerInv, RowsBegin, LedgerTypeOK
<1>5. CASE /\ Begin(o, l, worker[w].terms, "submitting")
           /\ worker' = [worker EXCEPT ![w].stage = "calling", ![w].op = o]
  <2>1. Only(w) /\ StandsAt(w, "calling", o)
    BY <1>1, <1>5, CallEffect
  <2>2. \A v \in Workers \ {w} : At(v, {"calling"}) => worker[v].op # o /\ worker[v].op \in Ops
    <3> SUFFICES ASSUME NEW v \in Workers \ {w}, At(v, {"calling"})
                 PROVE  worker[v].op # o /\ worker[v].op \in Ops
      OBVIOUS
    <3>1. worker[v].op \in Ops /\ Linked(v) /\ At(v, Writing)
      BY LinkedFacts DEF At, Writing
    <3> QED BY <3>1, <1>4 DEF Linked
  <2>3. "calling" \in Writing
    BY DEF Writing
  <2> HIDE DEF l
  <2> QED BY <1>1, <1>2, <1>4, <2>1, <2>2, <2>3, InStepGoesOn
<1>6. CASE Begin(o, l, worker[w].terms, "prepared") /\ Rests(w)
  <2>1. UNCHANGED wire
    <3>1. wire' = [wire EXCEPT ![o] = "none"]
      BY <1>6 DEF Begin
    <3> QED BY <1>1, <1>4, <3>1 DEF LedgerInv, LedgerTypeOK
  <2>2. Only(w) /\ worker'[w].stage = "idle"
    BY <1>1, <1>6, RestEffect DEF RestsNow
  <2>3. PICK k \in Loans : k = l
    BY <1>1
  <2>4. Shows(k)'
    BY <1>1, <1>2, <2>3 DEF InStepParts, WorkShows, Unapplied, Shows
  <2>5. worker[w].loan = k
    BY <2>3
  <2> HIDE DEF l
  <2> QED BY <1>1, <1>2, <2>1, <2>2, <2>4, <2>5, InStepLeaves
<1> QED BY <1>3, <1>5, <1>6

(* A task that is over before its write could take effect.                 *)
LEMMA InStepUnapplied ==
    ASSUME Whole, InStepParts, NEW w \in Workers, Rests(w), Unapplied(w),
           At(w, {"calling"}) => wire[worker[w].op] # "sent",
           UNCHANGED <<wire, held, mandate, doubtful>>
    PROVE  InStepParts'
<1>1. Inv /\ At(w, AtWork) /\ worker[w].loan \in Loans
  BY LinkedFacts DEF Unapplied, At, AtWork
<1>l. PICK l \in Loans : worker[w].loan = l
  BY <1>1
<1>2. Only(w) /\ worker'[w].stage = "idle"
  BY <1>1, RestEffect DEF RestsNow
<1>3. Shows(l)'
  BY <1>l DEF InStepParts, WorkShows, Shows
<1> QED BY <1>1, <1>l, <1>2, <1>3, InStepLeaves

LEMMA InStepFails ==
    ASSUME Whole, InStepParts, "deduction" \notin upset', NEW w \in Workers,
           Duplicate(w) \/ WriteFails(w) \/ Crash(w)
    PROVE  InStepParts'
<1>1. /\ Rests(w) /\ UNCHANGED <<wire, held, mandate, doubtful>>
      /\ At(w, AtWork) /\ Linked(w) /\ (At(w, Writing) => worker[w].op \in Ops)
      /\ LedgerInv
  BY LinkedFacts
  DEF Duplicate, WriteFails, Crash, End, Reject, LoseAnswer, StopReading, ledgerVars,
       At, AtWork
<1>2. ~MayTakeEffect(worker[w].op)
  <2>1. CASE Duplicate(w)
    BY <2>1, LinkedFacts DEF Duplicate, MayTakeEffect
  <2>2. CASE WriteFails(w)
    BY <2>2 DEF WriteFails, End, Noting, Happened, At
  <2>3. CASE Crash(w)
    BY <2>3 DEF Crash, Noting, Happened
  <2> QED BY <2>1, <2>2, <2>3
<1>3. Unapplied(w) /\ (At(w, {"calling"}) => wire[worker[w].op] # "sent")
  BY <1>1, <1>2 DEF Unapplied, MayTakeEffect, At, AtWork, Writing, Linked
<1> QED BY <1>1, <1>3, InStepUnapplied

LEMMA InStepAnswered ==
    ASSUME Whole, InStepParts, NEW w \in Workers, WriteAcknowledged(w) \/ Verify(w)
    PROVE  InStepParts'
<1>1. /\ Inv /\ Linked(w) /\ At(w, AtWork) /\ At(w, Writing) /\ worker[w].op \in Ops
      /\ UNCHANGED <<wire, held, mandate, doubtful>> /\ ~At(w, {"decided"})
  BY LinkedFacts
  DEF WriteAcknowledged, Verify, Acknowledge, ReadBack, ReadDiffers, At, Writing
<1>2. wire[worker[w].op] = "applied"
  BY <1>1 DEF WriteAcknowledged, Verify, Acknowledge, Linked, At, Writing
<1>3. PICK stage \in Writing \ {"calling"} :
         /\ Becomes(w, stage)
         /\ stage = "verified" => held[worker[w].loan] = worker[w].terms
  <2>1. CASE WriteAcknowledged(w)
    BY <2>1 DEF WriteAcknowledged, Writing
  <2>2. CASE Verify(w)
    BY <1>1, <2>2 DEF Verify, ReadBack, Writing, Linked
  <2> QED BY <2>1, <2>2
<1>4. Only(w) /\ StandsAt(w, stage, worker[w].op)
  BY <1>1, <1>3, StageEffect
<1>5. \A v \in Workers \ {w} : At(v, {"calling"}) => worker[v].op # worker[w].op /\ worker[v].op \in Ops
  <2> SUFFICES ASSUME NEW v \in Workers \ {w}, At(v, {"calling"})
               PROVE  worker[v].op # worker[w].op /\ worker[v].op \in Ops
    OBVIOUS
  <2>1. worker[v].op \in Ops /\ At(v, Writing)
    BY LinkedFacts DEF At, Writing
  <2> QED BY <1>1, <2>1 DEF Whole, Links, RowsApart
<1> QED BY <1>1, <1>2, <1>3, <1>4, <1>5, InStepGoesOn

LEMMA InStepRecord ==
    ASSUME Whole, InStepParts, NEW w \in Workers, Record(w)
    PROVE  InStepParts'
<1>p. worker[w].loan \in Loans
  BY LinkedFacts DEF Record, At, AtWork
<1>l. PICK l \in Loans : worker[w].loan = l
  BY <1>p
<1>t. PICK t : worker[w].terms = t
  OBVIOUS
<1>1. /\ Inv /\ At(w, AtWork) /\ ~At(w, {"calling"})
      /\ UNCHANGED <<wire, held>> /\ Rests(w)
  BY LinkedFacts DEF Record, End, ledgerVars, At, AtWork
<1>2. Only(w) /\ worker'[w].stage = "idle"
  BY <1>1, RestEffect DEF RestsNow
<1>3. /\ doubtful' = [doubtful EXCEPT ![l] = ~At(w, {"verified"})]
      /\ mandate' = [mandate EXCEPT ![l] =
              IF ~At(w, {"verified"}) THEN @
              ELSE IF t = Settled THEN [@ EXCEPT !.settled = TRUE]
              ELSE [amount |-> t.amount, settled |-> FALSE]]
  BY <1>l, <1>t DEF Record
<1>4. /\ mandate \in [Loans -> [amount : 0 .. Maximum, settled : BOOLEAN]]
      /\ doubtful \in [Loans -> BOOLEAN]
  BY <1>1 DEF Inv, LoansOK
<1>5. At(w, {"verified"}) => held[l] = t
  BY <1>l, <1>t DEF InStepParts, VerifiedHolds
<1>7. ~doubtful'[l] => Shows(l)'
  <2>1. SUFFICES ASSUME At(w, {"verified"}) PROVE Shows(l)'
    BY <1>1, <1>3, <1>4
  <2>2. CASE t = Settled
    <3>1. mandate'[l].settled
      BY <1>1, <1>3, <1>4, <2>1, <2>2
    <3> QED BY <1>1, <1>5, <2>1, <2>2, <3>1 DEF Shows
  <2>3. CASE t # Settled
    <3>1. mandate'[l].amount = t.amount /\ ~mandate'[l].settled
      BY <1>1, <1>3, <1>4, <2>1, <2>3
    <3> QED BY <1>1, <1>5, <2>1, <3>1 DEF Shows
  <2> QED BY <2>2, <2>3
<1>9. \A k \in Loans \ {l} : mandate'[k] = mandate[k] /\ doubtful'[k] = doubtful[k]
  BY <1>3, <1>4
<1> QED BY <1>1, <1>2, <1>7, <1>l, <1>9, InStepLeaves

(* The provider applies the terms of a write only while its worker waits.  *)
LEMMA InStepProvider ==
    ASSUME Whole, InStepParts, NEW o \in Ops, Provider(o) PROVE InStepParts'
<1>1. /\ Inv /\ LedgerInv /\ wire[o] = "sent" /\ op' = op
      /\ UNCHANGED <<mandate, doubtful, worker>>
  BY DEF Whole, FullInv, Provider, ProviderApplies, ProviderRefuses
<1>2. PICK w \in Workers : At(w, {"calling"}) /\ worker[w].op = o
  BY <1>1 DEF InStepParts, SentIsAwaited
<1>3. op[o].deduction = worker[w].loan /\ At(w, AtWork) /\ worker[w].loan \in Loans
  BY <1>2, LinkedFacts DEF Linked, At, Writing, AtWork
<1>4. \A p \in Ops : wire'[p] = wire[p] \/ (p = o /\ wire'[p] \in {"applied", "refused"})
  BY <1>1 DEF Provider, ProviderApplies, ProviderRefuses, LedgerInv, LedgerTypeOK
<1>5. \A k \in Loans : k # worker[w].loan => held'[k] = held[k]
  BY <1>1, <1>3 DEF Provider, ProviderApplies, ProviderRefuses, LedgerInv,
       LedgerTypeOK, Loans
<1>6. Alone'
  BY <1>1 DEF InStepParts, Alone, At
<1>7. SentIsAwaited'
  BY <1>1, <1>4 DEF InStepParts, SentIsAwaited, At
<1>8. RestShows'
  <2> SUFFICES ASSUME NEW k \in Loans, ~doubtful'[k], \A v \in Workers : ~WorksOn(v, k)'
               PROVE  Shows(k)'
    BY DEF RestShows
  <2>1. \A v \in Workers : ~WorksOn(v, k)
    BY <1>1 DEF WorksOn, At
  <2>2. held'[k] = held[k]
    BY <1>3, <1>5, <2>1 DEF WorksOn
  <2> QED BY <1>1, <2>1, <2>2 DEF InStepParts, RestShows, Shows
<1>9. ASSUME NEW v \in Workers, v # w, At(v, AtWork)
      PROVE  worker[v].loan \in Loans /\ held'[worker[v].loan] = held[worker[v].loan]
  <2>1. worker[v].loan \in Loans
    BY <1>9, LinkedFacts
  <2> QED BY <1>3, <1>5, <1>9, <2>1 DEF InStepParts, Alone
<1>10. WorkShows'
  <2> SUFFICES ASSUME NEW v \in Workers, Unapplied(v)' PROVE Shows(worker[v].loan)'
    BY DEF WorkShows
  <2>1. At(v, AtWork)
    BY <1>1 DEF Unapplied, At, AtWork
  <2>2. CASE v # w
    <3>1. Unapplied(v)
      <4>1. CASE At(v, {"decided"})
        BY <4>1 DEF Unapplied
      <4>2. CASE At(v, {"calling"})
        <5>1. worker[v].op \in Ops /\ worker[v].op # o
          BY <1>2, <2>2, <4>2, LinkedFacts DEF Whole, Links, RowsApart, At, Writing
        <5>2. wire'[worker[v].op] # "applied"
          BY <1>1, <4>2 DEF Unapplied, At
        <5> QED BY <1>4, <4>2, <5>1, <5>2 DEF Unapplied
      <4> QED BY <1>1, <4>1, <4>2 DEF Unapplied, At
    <3>2. Shows(worker[v].loan)
      BY <3>1 DEF InStepParts, WorkShows
    <3> QED BY <1>1, <1>9, <2>1, <2>2, <3>2 DEF Shows
  <2>3. CASE v = w
    <3>1. wire'[o] # "applied"
      BY <1>1, <1>2, <2>3 DEF Unapplied, At
    <3>2. held' = held
      BY <1>1, <3>1 DEF Provider, ProviderApplies, ProviderRefuses, LedgerInv,
           LedgerTypeOK
    <3>3. Unapplied(w)
      BY <1>1, <1>2 DEF Unapplied
    <3> QED BY <1>1, <2>3, <3>2, <3>3 DEF InStepParts, WorkShows, Shows
  <2> QED BY <2>2, <2>3
<1>11. VerifiedHolds'
  <2> SUFFICES ASSUME NEW v \in Workers, At(v, {"verified"})
               PROVE  held'[worker[v].loan] = worker[v].terms
    BY <1>1 DEF VerifiedHolds, At
  <2>1. v # w /\ At(v, AtWork)
    BY <1>2 DEF At, AtWork
  <2> QED BY <1>9, <2>1 DEF InStepParts, VerifiedHolds
<1> QED BY <1>6, <1>7, <1>8, <1>10, <1>11 DEF InStepParts

(* The loan's endpoint clears a doubt only when the mandate is right.      *)
LEMMA InStepOperator ==
    ASSUME Whole, InStepParts, "deduction" \notin upset', NEW o \in Ops, OperatorReads(o)
    PROVE  InStepParts'
<1>1. /\ Inv /\ UNCHANGED <<wire, held, worker>>
  BY DEF Whole, FullInv, OperatorReads, ReadBack, ReadDiffers
<1>2. ASSUME \A k \in Loans : Shows(k) => Shows(k)',
             \A k \in Loans : ~doubtful'[k] => ~doubtful[k] \/ Shows(k)'
      PROVE  InStepParts'
  <2>1. Alone' /\ SentIsAwaited' /\ VerifiedHolds'
    BY <1>1 DEF InStepParts, Alone, SentIsAwaited, VerifiedHolds, At
  <2>2. RestShows'
    <3>1. \A k \in Loans, v \in Workers : WorksOn(v, k) <=> WorksOn(v, k)'
      BY <1>1 DEF WorksOn, At
    <3> QED BY <1>2, <3>1 DEF InStepParts, RestShows
  <2>3. WorkShows'
    <3> SUFFICES ASSUME NEW v \in Workers, Unapplied(v)' PROVE Shows(worker[v].loan)'
      BY DEF WorkShows
    <3>1. Unapplied(v)
      BY <1>1 DEF Unapplied, At
    <3>2. PICK k \in Loans : worker[v].loan = k
      BY <3>1, LinkedFacts DEF Unapplied, At, Writing
    <3>3. Shows(k)
      BY <3>1, <3>2 DEF InStepParts, WorkShows
    <3> QED BY <1>1, <1>2, <3>2, <3>3 DEF Shows
  <2> QED BY <2>1, <2>2, <2>3 DEF InStepParts
<1>3. CASE UNCHANGED mandate /\ \A k \in Loans : ~doubtful'[k] => ~doubtful[k]
  BY <1>1, <1>2, <1>3 DEF Shows
<1>4. CASE /\ ReadBack(o, "loan")
           /\ doubtful' = [doubtful EXCEPT ![op[o].deduction] = FALSE]
           /\ mandate' = [mandate EXCEPT ![op[o].deduction].settled = (op[o].terms = Settled)]
           /\ Noting(Happened("deduction", op[o].terms # Settled
                               /\ op[o].terms.amount # mandate[op[o].deduction].amount))
  <2>1. PICK l, t : l = op[o].deduction /\ t = op[o].terms
    OBVIOUS
  <2>2. held[l] = t
    BY <1>4, <2>1 DEF ReadBack
  <2>3. t = Settled \/ t.amount = mandate[l].amount
    BY <1>4, <2>1 DEF Noting, Happened
  <2>4. \A k \in Loans : mandate[k].settled => held[k] = Settled
    BY DEF Whole, Links, SettledForGood
  <2>5. /\ mandate \in [Loans -> [amount : 0 .. Maximum, settled : BOOLEAN]]
        /\ doubtful \in [Loans -> BOOLEAN]
    BY <1>1 DEF Inv, LoansOK
  <2>6. mandate' = [mandate EXCEPT ![l] = [mandate[l] EXCEPT !.settled = (t = Settled)]]
    BY <1>4, <2>1
  <2> DEFINE m == [mandate[l] EXCEPT !.settled = (t = Settled)]
  <2>a. ASSUME l \in Loans
        PROVE  /\ m.amount = mandate[l].amount
               /\ m.settled = (t = Settled)
    BY <2>5, <2>a
  <2>b. mandate' = [mandate EXCEPT ![l] = m]
    BY <2>6
  <2> HIDE DEF m
  <2>7. \A k \in Loans : /\ k # l => mandate'[k] = mandate[k] /\ doubtful'[k] = doubtful[k]
                         /\ k = l => mandate'[k] = m
    BY <1>4, <2>1, <2>5, <2>b
  <2>8. \A k \in Loans : k # l => (Shows(k) => Shows(k)')
    BY <1>1, <2>7 DEF Shows
  <2>9. ASSUME l \in Loans PROVE Shows(l)'
    <3>0. mandate'[l] = m /\ held'[l] = t
      BY <1>1, <2>2, <2>7, <2>9
    <3>1. CASE t = Settled
      <4>1. m.settled
        BY <2>9, <2>a, <3>1
      <4> QED BY <3>0, <3>1, <4>1 DEF Shows
    <3>2. CASE t # Settled
      <4>1. ~m.settled /\ m.amount = t.amount
        BY <2>2, <2>3, <2>4, <2>9, <2>a, <3>2
      <4> QED BY <3>0, <4>1 DEF Shows
    <3> QED BY <3>1, <3>2
  <2>10. \A k \in Loans : k = l => Shows(k)'
    BY <2>9
  <2> QED BY <1>2, <2>7, <2>8, <2>10
<1>5. CASE /\ doubtful' = [doubtful EXCEPT ![op[o].deduction] = TRUE]
           /\ UNCHANGED mandate
  BY <1>1, <1>3, <1>5 DEF Inv, LoansOK
<1> QED BY <1>3, <1>4, <1>5 DEF OperatorReads

LEMMA InStepOthers ==
    ASSUME Whole, InStepParts,
           \/ \E w \in Workers, l \in Loans : StartScan(w, l)
           \/ \E w \in Workers : NewCycle(w) \/ FinishScan(w) \/ Skip(w) \/ LoseLocks(w)
           \/ \E l \in Loans : Payment(l)
           \/ \E o \in Ops : OperatorLooks(o)
           \/ Midnight
           \/ UNCHANGED vars
    PROVE  InStepParts'
<1>1. Inv
  BY DEF Whole, FullInv
<1>2. ASSUME UNCHANGED <<wire, held, mandate, doubtful, worker>> PROVE InStepParts'
  <2>1. TasksStay
    BY <1>2 DEF TasksStay, SameTask
  <2> QED BY <1>2, <2>1, InStepStays
<1>3. ASSUME NEW w \in Workers, Only(w), UNCHANGED <<wire, held, mandate, doubtful>>,
             (~At(w, AtWork) /\ ~At(w, AtWork)') \/ SameTask(w)
      PROVE  InStepParts'
  <2>1. TasksStay
    BY <1>3 DEF TasksStay, SameTask, Only
  <2> QED BY <1>3, <2>1, InStepStays
<1>4. ASSUME NEW w \in Workers, NEW l \in Loans, StartScan(w, l) PROVE InStepParts'
  <2>1. Only(w) /\ worker'[w].stage = "asking"
    BY <1>1, <1>4, StartEffect DEF StartScan, StartsAt
  <2> QED BY <1>3, <1>4, <2>1 DEF StartScan, At, AtWork, ledgerVars
<1>5. ASSUME NEW w \in Workers, NewCycle(w) PROVE InStepParts'
  <2>1. Only(w) /\ ~At(w, AtWork) /\ ~At(w, AtWork)'
    BY <1>1, <1>5, NewCycleEffect DEF At, AtWork
  <2> QED BY <1>3, <1>5, <2>1 DEF NewCycle, ledgerVars
<1>6. ASSUME NEW w \in Workers, FinishScan(w) \/ Skip(w) PROVE InStepParts'
  <2>1. Rests(w) \/ Becomes(w, "offered")
    BY <1>6 DEF FinishScan, Skip
  <2>2. Only(w) /\ ~At(w, AtWork)'
    <3>1. CASE Rests(w)
      BY <1>1, <3>1, RestEffect DEF RestsNow, At, AtWork
    <3>2. CASE Becomes(w, "offered")
      <4>1. Only(w) /\ worker'[w].stage = "offered"
        BY <1>1, <3>2, StageEffect DEF StandsAt
      <4> QED BY <4>1 DEF At, AtWork
    <3> QED BY <2>1, <3>1, <3>2
  <2> QED BY <1>3, <1>6, <2>2 DEF FinishScan, Skip, ledgerVars, At, AtWork
<1>7. ASSUME NEW w \in Workers, LoseLocks(w) PROVE InStepParts'
  <2>1. Only(w) /\ SameTask(w)
    BY <1>1, <1>7, LoseLocksEffect DEF StandsAt, SameTask, At
  <2> QED BY <1>3, <1>7, <2>1 DEF LoseLocks, ledgerVars
<1>8. ASSUME \/ \E l \in Loans : Payment(l)
             \/ \E o \in Ops : OperatorLooks(o)
             \/ Midnight
             \/ UNCHANGED vars
      PROVE  InStepParts'
  BY <1>2, <1>8 DEF Payment, Repayment, InitiatePayment, ReverseLastPayment, Marks,
       OperatorLooks, Look, Midnight, NextDay, vars, ledgerVars
<1> QED BY <1>4, <1>5, <1>6, <1>7, <1>8

LEMMA InStepStep == Whole /\ InStep /\ [Next]_vars => InStep'
<1> SUFFICES ASSUME Whole, InStep, [Next]_vars, "deduction" \notin upset' PROVE InStepParts'
  BY DEF InStep
<1>1. InStepParts
  BY UpsetGrows DEF InStep
<1>2. ASSUME NEW w \in Workers, WorkerStep(w) PROVE InStepParts'
  BY <1>1, <1>2, InStepStartPayment, InStepStartTopUp, InStepBeginWrite, InStepFails,
     InStepAnswered, InStepRecord, InStepOthers DEF WorkerStep
<1> QED BY <1>1, <1>2, InStepProvider, InStepOperator, InStepOthers DEF Next

LEMMA InStepInit == Init => InStep
<1> SUFFICES ASSUME Init PROVE InStepParts
  BY DEF InStep
<1>1. \A w \in Workers : ~At(w, AtWork) /\ ~At(w, {"calling"}) /\ ~At(w, {"verified"})
                         /\ ~At(w, {"decided"})
  BY DEF Init, Idle, At, AtWork
<1>2. Alone /\ SentIsAwaited /\ WorkShows /\ VerifiedHolds
  BY <1>1 DEF Init, LedgerInit, Alone, SentIsAwaited, WorkShows, Unapplied,
       VerifiedHolds
<1>3. RestShows
  BY DEF Init, LedgerInit, RestShows, Shows, Loans
<1> QED BY <1>2, <1>3 DEF InStepParts

(* At rest, the mandate of a loan shows what payroll deducts, or the loan  *)
(* is in doubt (_tracked_modify, _tracked_settle,                          *)
(* reconcile_latest_for_loan): for any loans, workers and operations, as   *)
(* long as each write was read back by the worker that made it, and no two *)
(* of them were at one deduction together.                                 *)
THEOREM MandateIsDeduction == Spec => []MandateShowsDeduction
<1>1. InStep => MandateShowsDeduction
  BY DEF InStep, InStepParts, RestShows, Shows, MandateShowsDeduction
<1>2. Init => Whole /\ InStep
  BY WholeInit, InStepInit
<1>3. Whole /\ InStep /\ [Next]_vars => (Whole /\ InStep)'
  BY WholeSteps, InStepStep
<1> QED BY <1>1, <1>2, <1>3, PTL DEF Spec

-----------------------------------------------------------------------------
(* The mark and the schedule: MarkIsServed.                                *)

(* A loan without a mark whose balance has not changed without one.        *)
Clean(l) == ~marked[l] /\ l \notin unmarked

(* It is deducted by the schedule its balance asks for, and a write to it  *)
(* that is under way asks for that schedule.                               *)
ServedParts ==
    /\ \A l \in Loans : Clean(l) => held[l].principal = balance[l]
    /\ \A w \in Workers : At(w, AtWork) /\ Clean(worker[w].loan)
                          => worker[w].terms.principal = balance[worker[w].loan]

Served == upset \cap {"deduction", "overwritten"} = {} => ServedParts

LEMMA ServedStays ==
    ASSUME Whole, ServedParts, UNCHANGED <<balance, held>>,
           \A l \in Loans : ~marked'[l] /\ l \notin unmarked' => Clean(l),
           \A v \in Workers : At(v, AtWork)' => /\ At(v, AtWork)
                                                /\ worker'[v].loan = worker[v].loan
                                                /\ worker'[v].terms = worker[v].terms
    PROVE  ServedParts'
<1>1. \A v \in Workers : At(v, AtWork) => worker[v].loan \in Loans
  BY LinkedFacts
<1> QED BY <1>1 DEF ServedParts, Clean

LEMMA ServedStarts ==
    ASSUME Whole, ServedParts, NEW w \in Workers, NEW l \in Loans, NEW t, Only(w),
           UNCHANGED <<balance, held, marked>>,
           \A k \in Loans : ~marked[k] /\ k \notin unmarked' => Clean(k),
           worker'[w].loan = l, worker'[w].terms = t, t.principal = balance[l]
    PROVE  ServedParts'
<1>1. \A v \in Workers : At(v, AtWork) => worker[v].loan \in Loans
  BY LinkedFacts
<1> QED BY <1>1 DEF ServedParts, Clean, Only, At

(* A task keeps its loan and its terms until it is over.                   *)
LEMMA TasksGoOn ==
    ASSUME Whole, NEW w \in Workers, WorkerStep(w),
           ~(\E l \in Loans : StartPayment(w, l)), ~StartTopUp(w)
    PROVE  \A v \in Workers : At(v, AtWork)' => /\ At(v, AtWork)
                                                /\ worker'[v].loan = worker[v].loan
                                                /\ worker'[v].terms = worker[v].terms
                                                /\ worker'[v].task = worker[v].task
                                                /\ worker'[v].today = worker[v].today
<1>1. Inv
  BY LinkedFacts
<1>2. ASSUME Only(w), ~At(w, AtWork)' \/ (At(w, AtWork) /\ \E stage, o : StandsAt(w, stage, o))
      PROVE  \A v \in Workers : At(v, AtWork)' => /\ At(v, AtWork)
                                                  /\ worker'[v].loan = worker[v].loan
                                                  /\ worker'[v].terms = worker[v].terms
                                                  /\ worker'[v].task = worker[v].task
                                                  /\ worker'[v].today = worker[v].today
  BY <1>2 DEF Only, StandsAt, At
<1>3. ASSUME Rests(w) PROVE Only(w) /\ ~At(w, AtWork)'
  BY <1>1, <1>3, RestEffect DEF RestsNow, At, AtWork
<1>4. ASSUME NEW l \in Loans, StartScan(w, l) PROVE Only(w) /\ ~At(w, AtWork)'
  <2>1. Only(w) /\ worker'[w].stage = "asking"
    BY <1>1, <1>4, StartEffect DEF StartScan, StartsAt
  <2> QED BY <2>1 DEF At, AtWork
<1>5. CASE NewCycle(w)
  BY <1>1, <1>2, <1>5, NewCycleEffect DEF At, AtWork
<1>6. CASE FinishScan(w)
  <2>1. Rests(w) \/ Becomes(w, "offered")
    BY <1>6 DEF FinishScan
  <2>2. ASSUME Becomes(w, "offered") PROVE Only(w) /\ ~At(w, AtWork)'
    <3>1. Only(w) /\ worker'[w].stage = "offered"
      BY <1>1, <2>2, StageEffect DEF StandsAt
    <3> QED BY <3>1 DEF At, AtWork
  <2> QED BY <1>2, <1>3, <2>1, <2>2
<1>7. CASE Skip(w) \/ Duplicate(w) \/ WriteFails(w) \/ Record(w) \/ Crash(w)
  BY <1>2, <1>3, <1>7 DEF Skip, Duplicate, WriteFails, Record, Crash, End
<1>8. CASE BeginWrite(w)
  <2>1. PICK o : \/ worker' = [worker EXCEPT ![w].stage = "calling", ![w].op = o]
                 \/ Rests(w)
    BY <1>8 DEF BeginWrite
  <2>2. At(w, AtWork)
    BY <1>8 DEF BeginWrite, At, AtWork
  <2> QED BY <1>1, <1>2, <1>3, <2>1, <2>2, CallEffect
<1>9. CASE WriteAcknowledged(w) \/ Verify(w)
  <2>1. PICK stage : Becomes(w, stage)
    BY <1>9 DEF WriteAcknowledged, Verify
  <2>2. At(w, AtWork)
    BY <1>9 DEF WriteAcknowledged, Verify, At, AtWork
  <2> QED BY <1>1, <1>2, <2>1, <2>2, StageEffect
<1>10. CASE LoseLocks(w)
  BY <1>1, <1>2, <1>10, LoseLocksEffect DEF At, AtWork
<1> QED BY <1>2, <1>4, <1>5, <1>6, <1>7, <1>8, <1>9, <1>10 DEF WorkerStep

LEMMA ServedScan ==
    ASSUME Whole, ServedParts, upset' \cap {"deduction", "overwritten"} = {},
           NEW w \in Workers, FinishScan(w)
    PROVE  ServedParts'
<1>1. UNCHANGED <<balance, held, unmarked>>
  BY DEF FinishScan, ledgerVars
<1>2. \A l \in Loans : ~marked'[l] => ~marked[l]
  <2>1. /\ marked' = [marked EXCEPT ![worker[w].loan] = worker[w].sawMark] \/ UNCHANGED marked
        /\ ~(marked[worker[w].loan] /\ ~marked'[worker[w].loan])
    BY DEF FinishScan, Noting, Happened
  <2>2. marked \in [Loans -> BOOLEAN]
    BY DEF Whole, FullInv, Inv, LoansOK
  <2> QED BY <2>1, <2>2
<1>3. \A v \in Workers : At(v, AtWork)' => /\ At(v, AtWork)
                                           /\ worker'[v].loan = worker[v].loan
                                           /\ worker'[v].terms = worker[v].terms
  <2>1. ~(\E l \in Loans : StartPayment(w, l)) /\ ~StartTopUp(w) /\ WorkerStep(w)
    BY DEF FinishScan, StartPayment, StartTopUp, At, WorkerStep
  <2> QED BY <2>1, TasksGoOn
<1> QED BY <1>1, <1>2, <1>3, ServedStays DEF Clean

(* The mark goes only when what was confirmed is what the balance asks for.*)
LEMMA ServedRecord ==
    ASSUME Whole, InStepParts, ServedParts, upset' \cap {"deduction", "overwritten"} = {},
           NEW w \in Workers, Record(w)
    PROVE  ServedParts'
<1>p. worker[w].loan \in Loans /\ Linked(w) /\ Inv /\ At(w, AtWork)
  BY LinkedFacts DEF Record, At, AtWork
<1>l. PICK l \in Loans : worker[w].loan = l
  BY <1>p
<1>1. /\ UNCHANGED <<balance, held, unmarked>> /\ Rests(w)
      /\ marked' = [marked EXCEPT ![l] = IF At(w, {"verified"})
                       THEN worker[w].task = "topup" /\ worker[w].sawMark ELSE @]
      /\ At(w, {"verified"}) => ~(marked[l] /\ ~worker[w].sawMark /\ l \notin unmarked
                                   /\ balance[l] # worker[w].terms.principal)
  BY <1>l DEF Record, End, ledgerVars, Noting, Happened
<1>2. Only(w) /\ worker'[w].stage = "idle"
  BY <1>p, <1>1, RestEffect DEF RestsNow
<1>3. marked \in [Loans -> BOOLEAN] /\ (worker[w].task = "payment" => ~worker[w].sawMark)
      /\ worker[w].task \in {"payment", "topup"}
  BY <1>p DEF Inv, LoansOK, Linked, At, AtWork
<1>4. \A k \in Loans \ {l} : marked'[k] = marked[k]
  BY <1>1, <1>3
<1>5. ~marked'[l] /\ l \notin unmarked => held[l].principal = balance[l]
  <2>1. CASE At(w, {"verified"})
    <3>1. held[l] = worker[w].terms
      BY <1>l, <2>1 DEF InStepParts, VerifiedHolds
    <3>2. CASE worker[w].sawMark
      <4>1. marked'[l]
        BY <1>1, <1>3, <2>1, <3>2
      <4> QED BY <4>1
    <3>3. CASE ~worker[w].sawMark
      <4>1. ~marked[l] \/ l \in unmarked \/ balance[l] = worker[w].terms.principal
        BY <1>1, <2>1, <3>3
      <4> QED BY <3>1, <4>1 DEF ServedParts, Clean
    <3> QED BY <3>2, <3>3
  <2>2. CASE ~At(w, {"verified"})
    <3>1. marked'[l] = marked[l]
      BY <1>1, <1>3, <2>2
    <3> QED BY <3>1 DEF ServedParts, Clean
  <2> QED BY <2>1, <2>2
<1>6. ASSUME NEW v \in Workers, At(v, AtWork)', Clean(worker[v].loan)'
      PROVE  worker'[v].terms.principal = balance'[worker'[v].loan]
  <2>1. v # w /\ worker'[v] = worker[v] /\ At(v, AtWork)
    BY <1>2, <1>6 DEF Only, At, AtWork
  <2>2. worker[v].loan \in Loans /\ worker[v].loan # l
    BY <1>l, <1>p, <2>1, LinkedFacts DEF InStepParts, Alone
  <2>3. Clean(worker[v].loan)
    BY <1>1, <1>4, <1>6, <2>1, <2>2 DEF Clean
  <2> QED BY <1>1, <2>1, <2>3 DEF ServedParts
<1>7. \A k \in Loans : Clean(k)' => held'[k].principal = balance'[k]
  BY <1>1, <1>4, <1>5 DEF ServedParts, Clean
<1> QED BY <1>6, <1>7 DEF ServedParts

LEMMA ServedProvider ==
    ASSUME Whole, InStepParts, ServedParts, NEW o \in Ops, Provider(o) PROVE ServedParts'
<1>1. /\ wire[o] = "sent" /\ UNCHANGED <<balance, marked, unmarked, worker>>
      /\ held' = [held EXCEPT ![op[o].deduction] = op[o].terms] \/ UNCHANGED held
  BY DEF Provider, ProviderApplies, ProviderRefuses
<1>2. PICK w \in Workers : At(w, {"calling"}) /\ worker[w].op = o
  BY <1>1 DEF InStepParts, SentIsAwaited
<1>3. /\ op[o].deduction = worker[w].loan /\ op[o].terms = worker[w].terms
      /\ At(w, AtWork) /\ worker[w].loan \in Loans
  BY <1>2, LinkedFacts DEF Linked, At, Writing, AtWork
<1>4. held \in [Loans -> Terms]
  BY DEF Whole, FullInv, Inv, LedgerTypeOK, Loans
<1>5. \A k \in Loans : Clean(k) => held'[k].principal = balance[k]
  BY <1>1, <1>3, <1>4 DEF ServedParts
<1> QED BY <1>1, <1>5 DEF ServedParts, Clean, At

LEMMA ServedStep == Whole /\ InStep /\ Served /\ [Next]_vars => Served'
<1> SUFFICES ASSUME Whole, InStep, Served, [Next]_vars,
                    upset' \cap {"deduction", "overwritten"} = {}
             PROVE  ServedParts'
  BY DEF Served
<1>0. ServedParts /\ InStepParts
  BY UpsetGrows DEF Served, InStep
<1>i. Inv
  BY DEF Whole, FullInv
<1>1. ASSUME NEW w \in Workers, NEW l \in Loans, StartPayment(w, l) PROVE ServedParts'
  <2>1. UNCHANGED <<balance, held, marked>> /\ marked[l] /\ unmarked' = unmarked \ {l}
    BY <1>1 DEF StartPayment, ledgerVars
  <2>2. PICK t : t = AfterPayment(l)
    OBVIOUS
  <2>3. t.principal = balance[l]
    BY <2>2, TermsAreAmounts DEF AfterPayment
  <2>4. Only(w) /\ worker'[w].loan = l /\ worker'[w].terms = t
    BY <1>1, <1>i, <2>2, StartEffect DEF StartPayment, StartsAt
  <2>5. \A k \in Loans : ~marked[k] /\ k \notin unmarked' => Clean(k)
    BY <2>1 DEF Clean
  <2> QED BY <1>0, <2>1, <2>3, <2>4, <2>5, ServedStarts
<1>2. ASSUME NEW w \in Workers, StartTopUp(w) PROVE ServedParts'
  <2>1. UNCHANGED <<balance, held, marked, unmarked>>
    BY <1>2 DEF StartTopUp, ledgerVars
  <2>2. worker[w].loan \in Loans
    BY <1>2, <1>i DEF StartTopUp, At, Inv, WorkersOK, Holding
  <2>3. PICK l \in Loans : l = worker[w].loan
    BY <2>2
  <2>4. PICK h \in 1 .. Headroom : Reserve(w, l, worker[w].today, h)
    BY <1>2, <2>3 DEF StartTopUp
  <2>5. PICK t : t = [amount |-> Proposed(l, h), principal |-> balance[l]]
    OBVIOUS
  <2>6. t.principal = balance[l]
    BY <2>5
  <2>7. Only(w) /\ worker'[w].loan = l /\ worker'[w].terms = t
    BY <1>i, <2>4, <2>5, StartEffect DEF Reserve, StartsAt
  <2> QED BY <1>0, <2>1, <2>6, <2>7, ServedStarts DEF Clean
<1>3. ASSUME NEW w \in Workers, WorkerStep(w), ~FinishScan(w), ~Record(w), ~StartTopUp(w),
             ~(\E l \in Loans : StartPayment(w, l))
      PROVE  ServedParts'
  <2>1. UNCHANGED <<balance, held, unmarked>>
    BY <1>3 DEF WorkerStep, StartScan, NewCycle, Skip, BeginWrite, Duplicate,
         WriteFails,
         WriteAcknowledged, Verify, Crash, LoseLocks, Begin, Reject, LoseAnswer, Acknowledge,
         ReadBack, ReadDiffers, StopReading, ledgerVars
  <2>2. UNCHANGED marked
    <3>1. CASE Duplicate(w) \/ WriteFails(w)
      <4>1. marked' = [marked EXCEPT ![worker[w].loan] = marked[worker[w].loan]]
        BY <3>1 DEF Duplicate, WriteFails, End
      <4> QED BY <1>i, <4>1 DEF Inv, LoansOK
    <3>2. CASE ~(Duplicate(w) \/ WriteFails(w))
      BY <1>3, <3>2 DEF WorkerStep, StartScan, NewCycle, Skip, BeginWrite,
           WriteAcknowledged,
           Verify, Crash, LoseLocks
    <3> QED BY <3>1, <3>2
  <2>3. \A v \in Workers : At(v, AtWork)' => /\ At(v, AtWork)
                                             /\ worker'[v].loan = worker[v].loan
                                             /\ worker'[v].terms = worker[v].terms
    BY <1>3, TasksGoOn
  <2> QED BY <1>0, <2>1, <2>2, <2>3, ServedStays DEF Clean
<1>4. ASSUME NEW l \in Loans, Payment(l) PROVE ServedParts'
  <2>1. UNCHANGED <<held, worker>>
    BY <1>4 DEF Payment, ledgerVars
  <2>3. marked \in [Loans -> BOOLEAN] /\ balance \in [Loans -> 0 .. InitialBalance]
    BY <1>i DEF Inv, LoansOK
  <2>4. \A k \in Loans : Clean(k)' => Clean(k) /\ balance'[k] = balance[k]
    <3>1. CASE Repayment(l)
      BY <2>3, <3>1 DEF Repayment, Clean
    <3>2. CASE InitiatePayment(l)
      BY <2>3, <3>2 DEF InitiatePayment, Marks, Clean
    <3>3. CASE ReverseLastPayment(l)
      BY <2>3, <3>3 DEF ReverseLastPayment, Marks, Clean
    <3> QED BY <1>4, <3>1, <3>2, <3>3 DEF Payment
  <2>2. \A v \in Workers : At(v, AtWork) => worker[v].loan \in Loans
    BY LinkedFacts
  <2>5. ASSUME NEW v \in Workers, At(v, AtWork)', Clean(worker[v].loan)'
        PROVE  worker'[v].terms.principal = balance'[worker'[v].loan]
    <3>1. PICK k \in Loans : worker[v].loan = k
      BY <2>1, <2>2, <2>5 DEF At
    <3>2. Clean(k)'
      BY <2>1, <2>5, <3>1 DEF Clean
    <3> QED BY <1>0, <2>1, <2>4, <2>5, <3>1, <3>2 DEF ServedParts, At
  <2>6. \A k \in Loans : Clean(k)' => held'[k].principal = balance'[k]
    BY <1>0, <2>1, <2>4 DEF ServedParts
  <2> QED BY <2>5, <2>6 DEF ServedParts
<1>5. ASSUME \/ \E o \in Ops : OperatorLooks(o) \/ OperatorReads(o)
             \/ Midnight
             \/ UNCHANGED vars
      PROVE  ServedParts'
  <2>1. UNCHANGED <<balance, held, marked, unmarked, worker>>
    BY <1>5 DEF OperatorLooks, OperatorReads, Look, ReadBack, ReadDiffers, Midnight,
         NextDay,
         vars, ledgerVars
  <2> QED BY <1>0, <2>1 DEF ServedParts, Clean, At
<1>6. ASSUME NEW w \in Workers, WorkerStep(w) PROVE ServedParts'
  BY <1>0, <1>1, <1>2, <1>3, <1>6, ServedScan, ServedRecord
<1> QED BY <1>0, <1>4, <1>5, <1>6, ServedProvider DEF Next

LEMMA ServedInit == Init => Served
BY TermsAreAmounts DEF Init, LedgerInit, Served, ServedParts, Clean, Idle, At, AtWork,
     Loans

(* A mark is taken off a loan only when the provider has the schedule that *)
(* its balance asks for (process_pending_payment_reoptimizations, and the  *)
(* plans that _tracked_modify and the scan write back), whichever workers, *)
(* scans and operators come between, and stays right until a repayment     *)
(* changes the balance without a mark.                                     *)
THEOREM MarkUntilServed == Spec => []MarkIsServed
<1>1. Served => MarkIsServed
  BY DEF Served, ServedParts, Clean, MarkIsServed
<1>2. Init => Whole /\ InStep /\ Served
  BY WholeInit, InStepInit, ServedInit
<1>3. Whole /\ InStep /\ Served /\ [Next]_vars => (Whole /\ InStep /\ Served)'
  BY WholeSteps, InStepStep, ServedStep
<1> QED BY <1>1, <1>2, <1>3, PTL DEF Spec

-----------------------------------------------------------------------------
(* The doubt and its operation: DoubtCanBeSettled.                         *)

(* A doubt is carried by an operation that a reconciliation can settle, or *)
(* is about to be cleared by the worker that read the deduction back.      *)
Carried(l) ==
    \/ \E w \in Workers : At(w, {"verified"}) /\ worker[w].loan = l
    \/ \E o \in Ops : op[o].deduction = l /\ op[o].state \in Reconcilable

DoubtsCarried == \A l \in Loans : doubtful[l] => Carried(l)

Doubts == "apart" \notin upset => DoubtsCarried

(* Operations stay reconcilable until they are read back.                  *)
KeepsReconcilable ==
    \A p \in Ops : op[p].state \in Reconcilable =>
       op'[p].state \in Reconcilable /\ op'[p].deduction = op[p].deduction

LEMMA ReconcilableStays ==
    ASSUME LedgerInv, NEW o \in Ops,
           \/ \E d, t, s : Begin(o, d, t, s)
           \/ Acknowledge(o) \/ Reject(o) \/ LoseAnswer(o)
           \/ \E r : Look(o, r) \/ ReadDiffers(o, r) \/ StopReading(o, r)
           \/ ProviderApplies(o) \/ ProviderRefuses(o)
    PROVE  KeepsReconcilable
<1>1. ASSUME op' = op \/ \E s \in Reconcilable : op' = [op EXCEPT ![o].state = s]
      PROVE  KeepsReconcilable
  BY <1>1 DEF LedgerInv, LedgerTypeOK, KeepsReconcilable
<1>2. ASSUME op[o].state \notin Reconcilable, \A q \in Ops \ {o} : op'[q] = op[q]
      PROVE  KeepsReconcilable
  BY <1>2 DEF KeepsReconcilable
<1>3. ASSUME NEW d, NEW t, NEW s, Begin(o, d, t, s) PROVE KeepsReconcilable
  <2>1. op[o].state \notin Reconcilable /\ \A q \in Ops \ {o} : op'[q] = op[q]
    BY <1>3 DEF Begin, LedgerInv, LedgerTypeOK, Reconcilable
  <2> QED BY <1>2, <2>1
<1>4. CASE Reject(o)
  <2>1. op[o].state \notin Reconcilable /\ \A q \in Ops \ {o} : op'[q] = op[q]
    BY <1>4 DEF Reject, SetState, LedgerInv, LedgerTypeOK, Reconcilable
  <2> QED BY <1>2, <2>1
<1>5. CASE Acknowledge(o) \/ LoseAnswer(o)
  BY <1>1, <1>5 DEF Acknowledge, LoseAnswer, SetState, Reconcilable
<1>6. ASSUME NEW r, Look(o, r) \/ ReadDiffers(o, r) \/ StopReading(o, r)
      PROVE  KeepsReconcilable
  BY <1>1, <1>6 DEF Look, ReadDiffers, StopReading, Write, SetState, Reconcilable
<1>8. CASE ProviderApplies(o) \/ ProviderRefuses(o)
  BY <1>1, <1>8 DEF ProviderApplies, ProviderRefuses
<1> QED BY <1>3, <1>4, <1>5, <1>6, <1>8

(* Steps after which no new doubt is there, no verified worker has left,   *)
(* and no operation was read back.                                         *)
LEMMA DoubtsStay ==
    ASSUME DoubtsCarried,
           \A l \in Loans : doubtful'[l] => doubtful[l],
           \A w \in Workers : At(w, {"verified"}) =>
              \/ At(w, {"verified"})' /\ worker'[w].loan = worker[w].loan
              \/ ~doubtful'[worker[w].loan],
           KeepsReconcilable
    PROVE  DoubtsCarried'
BY DEF DoubtsCarried, Carried, At, KeepsReconcilable

(* A worker that read its deduction back.                                  *)
LEMMA DoubtsVerify ==
    ASSUME Whole, DoubtsCarried, NEW w \in Workers, Verify(w) PROVE DoubtsCarried'
<1>1. /\ Inv /\ LedgerInv /\ Linked(w) /\ worker[w].op \in Ops /\ At(w, {"reading"})
      /\ UNCHANGED doubtful
  BY LinkedFacts DEF Verify, At, Writing
<1>2. PICK o \in Ops : o = worker[w].op
  BY <1>1
<1>3. op[o].deduction = worker[w].loan
  BY <1>1, <1>2 DEF Linked, At, Writing
<1>4. PICK stage \in {"verified", "unverified"} :
         /\ Becomes(w, stage)
         /\ IF stage = "verified" THEN ReadBack(o, Caller) ELSE ReadDiffers(o, Caller)
  BY <1>2 DEF Verify
<1>5. Only(w) /\ worker'[w].stage = stage /\ worker'[w].loan = worker[w].loan
  BY <1>1, <1>4, StageEffect DEF StandsAt
<1>6. \A p \in Ops : op[p].state \in Reconcilable =>
         \/ op'[p].state \in Reconcilable /\ op'[p].deduction = op[p].deduction
         \/ p = o /\ stage = "verified"
  <2>1. CASE stage = "verified"
    <3>1. \A p \in Ops \ {o} : op'[p] = op[p]
      BY <1>1, <1>4, <2>1 DEF ReadBack, Write, SetState, LedgerInv, LedgerTypeOK
    <3> QED BY <2>1, <3>1
  <2>2. CASE stage # "verified"
    <3>1. ReadDiffers(o, Caller)
      BY <1>4, <2>2
    <3> QED BY <1>1, <3>1, ReconcilableStays DEF KeepsReconcilable
  <2> QED BY <2>1, <2>2
<1>7. \A v \in Workers : At(v, {"verified"}) => At(v, {"verified"})' /\ worker'[v].loan = worker[v].loan
  BY <1>1, <1>5 DEF Only, At
<1> SUFFICES ASSUME NEW l \in Loans, doubtful'[l] PROVE Carried(l)'
  BY DEF DoubtsCarried
<1>8. CASE \E v \in Workers : At(v, {"verified"}) /\ worker[v].loan = l
  BY <1>7, <1>8 DEF Carried
<1>9. CASE \E p \in Ops : op[p].deduction = l /\ op[p].state \in Reconcilable
  <2>1. PICK p \in Ops : op[p].deduction = l /\ op[p].state \in Reconcilable
    BY <1>9
  <2>2. CASE p = o /\ stage = "verified"
    <3>1. At(w, {"verified"})' /\ worker'[w].loan = l
      BY <1>3, <1>5, <2>1, <2>2 DEF At
    <3> QED BY <3>1 DEF Carried
  <2>3. CASE ~(p = o /\ stage = "verified")
    BY <1>6, <2>1, <2>3 DEF Carried
  <2> QED BY <2>2, <2>3
<1> QED BY <1>1, <1>8, <1>9 DEF DoubtsCarried, Carried

(* What was not confirmed is in doubt, and its row waits for a reader.     *)
LEMMA DoubtsRecord ==
    ASSUME Whole, DoubtsCarried, "apart" \notin upset', NEW w \in Workers, Record(w)
    PROVE  DoubtsCarried'
<1>1. /\ Inv /\ Linked(w) /\ At(w, Writing) /\ worker[w].op \in Ops /\ worker[w].loan \in Loans
  BY LinkedFacts DEF Record, At, Writing, AtWork
<1>l. PICK l \in Loans : worker[w].loan = l
  BY <1>1
<1>2. /\ UNCHANGED op /\ Rests(w)
      /\ doubtful' = [doubtful EXCEPT ![l] = ~At(w, {"verified"})]
      /\ At(w, {"verified"}) \/ At(w, {"unverified"})
      /\ At(w, {"unverified"}) => op[worker[w].op].state # "confirmed"
  BY <1>l DEF Record, End, ledgerVars, Noting, Happened, At
<1>3. Only(w) /\ worker'[w].stage = "idle"
  BY <1>1, <1>2, RestEffect DEF RestsNow
<1>4. doubtful \in [Loans -> BOOLEAN]
  BY <1>1 DEF Inv, LoansOK
<1> SUFFICES ASSUME NEW k \in Loans, doubtful'[k] PROVE Carried(k)'
  BY DEF DoubtsCarried
<1>5. CASE k = l
  <2>1. At(w, {"unverified"})
    BY <1>2, <1>4, <1>5
  <2>2. op[worker[w].op].deduction = l /\ op[worker[w].op].state \in Reconcilable
    BY <1>1, <1>2, <1>l, <2>1 DEF Linked, Read
  <2> QED BY <1>1, <1>2, <1>5, <2>2 DEF Carried
<1>6. CASE k # l
  <2>1. doubtful[k]
    BY <1>2, <1>4, <1>6
  <2>2. Carried(k)
    BY <2>1 DEF DoubtsCarried
  <2>3. \A v \in Workers : At(v, {"verified"}) /\ worker[v].loan = k
                           => At(v, {"verified"})' /\ worker'[v].loan = k
    BY <1>3, <1>6, <1>l DEF Only, At
  <2> QED BY <1>2, <2>2, <2>3 DEF Carried
<1> QED BY <1>5, <1>6

(* The loan's endpoint clears the doubt it settles, and what it puts in    *)
(* doubt it leaves to be read again.                                       *)
LEMMA DoubtsOperator ==
    ASSUME Whole, RowsStay, DoubtsCarried, "apart" \notin upset', NEW o \in Ops, OperatorReads(o)
    PROVE  DoubtsCarried'
<1>1. /\ Inv /\ LedgerInv /\ Views /\ UNCHANGED worker
  BY DEF Whole, Links, FullInv, OperatorReads
<1>2. doubtful \in [Loans -> BOOLEAN]
  BY <1>1 DEF Inv, LoansOK
<1>3. \A v \in Workers : At(v, {"verified"}) => At(v, {"verified"})' /\ worker'[v].loan = worker[v].loan
  BY <1>1 DEF At
<1>4. CASE ReadDiffers(o, "operation") /\ UNCHANGED doubtful
  <2>1. KeepsReconcilable
    BY <1>1, <1>4, ReconcilableStays
  <2> QED BY <1>3, <1>4, <2>1, DoubtsStay
<1>5. CASE ReadBack(o, "loan") /\ doubtful' = [doubtful EXCEPT ![op[o].deduction] = FALSE]
  <2>1. \A p \in Ops \ {o} : op'[p] = op[p]
    BY <1>1, <1>5 DEF ReadBack, Write, SetState, LedgerInv, LedgerTypeOK
  <2> SUFFICES ASSUME NEW l \in Loans, doubtful'[l] PROVE Carried(l)'
    BY DEF DoubtsCarried
  <2>2. doubtful[l] /\ l # op[o].deduction
    BY <1>2, <1>5
  <2>3. Carried(l)
    BY <2>2 DEF DoubtsCarried
  <2> QED BY <1>3, <2>1, <2>2, <2>3 DEF Carried
<1>6. CASE /\ ReadDiffers(o, "loan")
           /\ doubtful' = [doubtful EXCEPT ![op[o].deduction] = TRUE]
           /\ op'[o].state # "confirmed"
  <2>1. KeepsReconcilable
    BY <1>1, <1>6, ReconcilableStays
  <2>2. op[o].state \in Read /\ op[o].state # "absent"
    BY <1>1, <1>6, OperatorsAssumption DEF ReadDiffers, Views, Read, Reconcilable
  <2>3. op'[o].state \in Reconcilable /\ op'[o].deduction = op[o].deduction
    BY <1>6, <2>2 DEF RowsStay, Read
  <2> SUFFICES ASSUME NEW l \in Loans, doubtful'[l] PROVE Carried(l)'
    BY DEF DoubtsCarried
  <2>4. CASE l = op[o].deduction
    BY <2>3, <2>4 DEF Carried
  <2>5. CASE l # op[o].deduction
    <3>1. doubtful[l]
      BY <1>2, <1>6, <2>5
    <3>2. Carried(l)
      BY <3>1 DEF DoubtsCarried
    <3> QED BY <1>3, <2>1, <3>2 DEF Carried, KeepsReconcilable
  <2> QED BY <2>4, <2>5
<1>7. CASE ReadDiffers(o, "loan") /\ UNCHANGED doubtful
  <2>1. KeepsReconcilable
    BY <1>1, <1>7, ReconcilableStays
  <2> QED BY <1>3, <1>7, <2>1, DoubtsStay
<1> QED BY <1>4, <1>5, <1>6, <1>7 DEF OperatorReads, Noting, Happened

(* The other steps of a worker: only a crash takes a verified one away.    *)
LEMMA DoubtsWorker ==
    ASSUME Whole, DoubtsCarried, "apart" \notin upset', NEW w \in Workers, WorkerStep(w),
           ~Verify(w), ~Record(w)
    PROVE  DoubtsCarried'
<1>1. /\ Inv /\ LedgerInv /\ Linked(w) /\ (At(w, Writing) => worker[w].op \in Ops)
  BY LinkedFacts
<1>2. UNCHANGED doubtful
  BY DEF WorkerStep, StartPayment, StartScan, NewCycle, FinishScan, Skip, StartTopUp,
       BeginWrite,
       Duplicate, WriteFails, WriteAcknowledged, Crash, LoseLocks
<1>3. KeepsReconcilable
  <2>1. CASE UNCHANGED op
    BY <2>1 DEF KeepsReconcilable
  <2>2. CASE BeginWrite(w)
    BY <1>1, <2>2, ReconcilableStays DEF BeginWrite
  <2>3. CASE WriteFails(w) \/ WriteAcknowledged(w)
    BY <1>1, <2>3, ReconcilableStays DEF WriteFails, WriteAcknowledged, At, Writing
  <2>4. ~(BeginWrite(w) \/ WriteFails(w) \/ WriteAcknowledged(w)) => UNCHANGED op
    BY DEF WorkerStep, StartPayment, StartScan, NewCycle, FinishScan, Skip, StartTopUp,
         Duplicate, Crash, StopReading, LoseLocks, ledgerVars
  <2> QED BY <2>1, <2>2, <2>3, <2>4
<1>4. ~At(w, {"verified"}) \/ (At(w, {"verified"}) /\ ~doubtful[worker[w].loan])
  <2>1. CASE Crash(w)
    BY <2>1 DEF Crash, Noting, Happened
  <2>2. CASE ~Crash(w)
    BY <2>2 DEF WorkerStep, StartPayment, StartScan, NewCycle, FinishScan, Skip,
         StartTopUp,
       BeginWrite, Duplicate, WriteFails, WriteAcknowledged, LoseLocks, At
  <2> QED BY <2>1, <2>2
<1>5. Only(w)
  BY WholeSteps DEF Next
<1>6. \A v \in Workers : At(v, {"verified"}) =>
         \/ At(v, {"verified"})' /\ worker'[v].loan = worker[v].loan
         \/ ~doubtful'[worker[v].loan]
  BY <1>2, <1>4, <1>5 DEF Only, At
<1> QED BY <1>2, <1>3, <1>6, DoubtsStay

LEMMA DoubtsStep == Whole /\ Doubts /\ [Next]_vars => Doubts'
<1> SUFFICES ASSUME Whole, Doubts, [Next]_vars, "apart" \notin upset' PROVE DoubtsCarried'
  BY DEF Doubts
<1>1. DoubtsCarried /\ RowsStay /\ LedgerInv
  BY UpsetGrows, WholeSteps DEF Doubts, Whole, FullInv
<1>2. ASSUME NEW w \in Workers, WorkerStep(w) PROVE DoubtsCarried'
  BY <1>1, <1>2, DoubtsVerify, DoubtsRecord, DoubtsWorker
<1>3. ASSUME UNCHANGED <<doubtful, worker>>, KeepsReconcilable PROVE DoubtsCarried'
  BY <1>1, <1>3, DoubtsStay DEF At
<1>4. ASSUME NEW o \in Ops, OperatorLooks(o) \/ Provider(o) PROVE DoubtsCarried'
  <2>1. KeepsReconcilable
    BY <1>1, <1>4, ReconcilableStays DEF OperatorLooks, Provider
  <2> QED BY <1>3, <1>4, <2>1 DEF OperatorLooks, Provider
<1>5. CASE (\E l \in Loans : Payment(l)) \/ Midnight \/ UNCHANGED vars
  BY <1>3, <1>5 DEF Payment, Repayment, InitiatePayment, ReverseLastPayment, Marks,
       Midnight, NextDay, vars, ledgerVars, KeepsReconcilable
<1> QED BY <1>1, <1>2, <1>4, <1>5, DoubtsOperator DEF Next

LEMMA DoubtsInit == Init => Doubts
BY DEF Init, Doubts, DoubtsCarried

(* A loan in doubt has an operation that a reconciliation can settle, so   *)
(* no loan is kept out of the autopilot for good (_eligible_link,          *)
(* reconcile_latest_for_loan), unless an operation was confirmed apart     *)
(* from its loan.                                                          *)
THEOREM DoubtIsSettleable == Spec => []DoubtCanBeSettled
<1>1. Doubts => DoubtCanBeSettled
  BY DEF Doubts, DoubtsCarried, Carried, DoubtCanBeSettled, WorksOn, At, AtWork
<1>2. Init => Whole /\ Doubts
  BY WholeInit, DoubtsInit
<1>3. Whole /\ Doubts /\ [Next]_vars => (Whole /\ Doubts)'
  BY WholeSteps, DoubtsStep
<1> QED BY <1>1, <1>2, <1>3, PTL DEF Spec

-----------------------------------------------------------------------------
(* The headroom of a day: HeadroomIsShared.                                *)

LEMMA Amounts ==
    ASSUME Inv
    PROVE  /\ \A l \in Loans : held[l].amount \in Nat /\ mandate[l].amount \in Nat
           /\ \A l \in Loans, d \in 0 .. LastDay : allocated[l][d] \in Nat
           /\ \A w \in Workers : worker[w].terms.amount \in Nat /\ worker[w].today \in 0 .. LastDay
           /\ \A o \in Ops : op[o].terms.amount \in Nat
           /\ \A d \in 0 .. LastDay : snapshot[d] \in Int
           /\ day \in 0 .. LastDay /\ LastDay \in Nat /\ Headroom \in Nat
           /\ Settled.amount = 0 /\ InitialTerms.amount = 1
<1>1. \A t \in Terms : t.amount \in Nat
  BY TermsAreAmounts, AmountsAssumption
<1>2. \A l \in Loans, d \in 0 .. LastDay : allocated[l][d] \in Nat
  <2>1. \A l \in Loans, d \in 0 .. LastDay : allocated[l][d] \in 0 .. Maximum
    BY Allocated DEF Inv
  <2> QED BY <2>1, AmountsAssumption
<1>3. \A l \in Loans : held[l] \in Terms /\ mandate[l].amount \in Nat
  BY AmountsAssumption DEF Inv, LoansOK, LedgerTypeOK, Loans
<1>4. \A w \in Workers : worker[w].terms \in Terms /\ worker[w].today \in 0 .. LastDay
  BY DEF Inv, WorkersOK, WorkerType
<1>5. \A o \in Ops : op[o].terms \in Terms
  BY DEF Inv, LedgerTypeOK
<1>6. \A d \in 0 .. LastDay : snapshot[d] \in Int
  <2>1. \A d \in 0 .. LastDay : snapshot[d] \in -1 .. Headroom
    BY DEF Inv, LoansOK
  <2>2. \A x \in -1 .. Headroom : x \in Int
    BY AmountsAssumption
  <2> QED BY <2>1, <2>2
<1>7. day \in 0 .. LastDay /\ LastDay \in Nat /\ Headroom \in Nat
  BY OpsAssumption, AmountsAssumption DEF Inv, LedgerTypeOK
<1> QED BY <1>1, <1>2, <1>3, <1>4, <1>5, <1>6, <1>7, TermsAreAmounts

LEMMA ConsumedSum ==
    ASSUME Inv, NEW d \in 0 .. LastDay
    PROVE  Consumed(d) \in Nat
<1>1. \A l \in Loans : [k \in Loans |-> allocated[k][d]][l] \in Nat
  BY Amounts
<1> QED BY <1>1, LoansAssumption, SumNat DEF Consumed, Loans

(* A deduction is at an amount, or above it, or settled for good.          *)
Over(l, a) == held[l] = Settled \/ a <= held[l].amount

TopUp(w) == At(w, AtWork) /\ worker[w].task = "topup"

(* A top-up of the loan whose reservation may still be given back.         *)
Open(l) == \E w \in Workers : TopUp(w) /\ worker[w].loan = l /\ Unapplied(w)

(* What a deduction may be raised to by what has been sent and applied.    *)
Cap(l, e, base) == base[l] + IF Open(l) THEN 0 ELSE allocated[l][e]

(* A mandate is not above its deduction, nor is what a payment's task or   *)
(* a confirmation would write.                                             *)
Mandates == \A l \in Loans : Over(l, mandate[l].amount)

Payments ==
    \A w \in Workers :
      (At(w, AtWork) /\ worker[w].task = "payment") \/ At(w, {"verified"})
      => Over(worker[w].loan, worker[w].terms.amount)

(* The last reading of the headroom, of the day e: it left g above the     *)
(* amounts base, and top-ups were decided within g.                        *)
Since(e, g, base) ==
    /\ e \in 0 .. day /\ g \in Nat /\ base \in [Loans -> Nat]
    /\ \A d \in 0 .. LastDay : d > e => snapshot[d] = -1
    /\ snapshot[e] <= g /\ Consumed(e) <= g
    /\ SumFunctionOnSet([l \in Loans |-> base[l] - InitialTerms.amount], Loans) + g <= Headroom

TopUpsOf(e, base) ==
    /\ \A w \in Workers : TopUp(w) =>
         /\ worker[w].today = e /\ allocated[worker[w].loan][e] >= 1
         /\ \/ held[worker[w].loan] = Settled
            \/ worker[w].terms.amount <= base[worker[w].loan] + allocated[worker[w].loan][e]
    /\ \A v, w \in Workers : v # w /\ TopUp(v) /\ TopUp(w) => worker[v].loan # worker[w].loan

SentWithin(o, e, base) ==
    \/ held[op[o].deduction] = Settled
    \/ op[o].terms.amount <= base[op[o].deduction]
                             + IF Open(op[o].deduction) THEN 0 ELSE allocated[op[o].deduction][e]
    \/ \E w \in Workers : TopUp(w) /\ At(w, {"calling"}) /\ worker[w].op = o

Within(e, base) ==
    /\ \A l \in Loans : held[l].amount <= Cap(l, e, base)
    /\ \A o \in Ops : wire[o] = "sent" => SentWithin(o, e, base)

Shared(e, g, base) == Since(e, g, base) /\ TopUpsOf(e, base) /\ Within(e, base)

(* Nothing is reserved before the headroom of a day is read.               *)
ReadFirst == \A l \in Loans, d \in 0 .. LastDay : snapshot[d] = -1 => allocated[l][d] = 0

SharingParts == Mandates /\ Payments /\ \E e, g, base : Shared(e, g, base)

Sharing == "headroom" \notin upset => SharingParts

LEMMA SharedIsEnough ==
    ASSUME Inv, NEW e, NEW g, NEW base, Shared(e, g, base)
    PROVE  Raised \in Int /\ Raised <= Headroom
<1> DEFINE h == [l \in Loans |-> held[l].amount - InitialTerms.amount]
           b == [l \in Loans |-> base[l] - InitialTerms.amount]
           a == [l \in Loans |-> allocated[l][e]]
           s == [l \in Loans |-> b[l] + a[l]]
<1>1. e \in 0 .. LastDay /\ g \in Nat /\ base \in [Loans -> Nat] /\ Consumed(e) <= g
  BY Amounts DEF Shared, Since
<1>2. \A l \in Loans : /\ h[l] \in Int /\ b[l] \in Int /\ a[l] \in Int /\ s[l] \in Int
                       /\ s[l] = b[l] + a[l] /\ h[l] <= s[l]
  <2> SUFFICES ASSUME NEW l \in Loans
               PROVE  /\ h[l] \in Int /\ b[l] \in Int /\ a[l] \in Int /\ s[l] \in Int
                      /\ s[l] = b[l] + a[l] /\ h[l] <= s[l]
    OBVIOUS
  <2>1. held[l].amount \in Nat /\ allocated[l][e] \in Nat /\ base[l] \in Nat
        /\ InitialTerms.amount = 1
    BY <1>1, Amounts
  <2>2. held[l].amount <= base[l] + allocated[l][e]
    BY <2>1 DEF Shared, Within, Cap
  <2> QED BY <2>1, <2>2
<1>3. IsFiniteSet(Loans)
  BY LoansAssumption DEF Loans
<1> HIDE DEF h, b, a, s
<1>4. /\ SumFunctionOnSet(h, Loans) <= SumFunctionOnSet(s, Loans)
      /\ SumFunctionOnSet(s, Loans) = SumFunctionOnSet(b, Loans) + SumFunctionOnSet(a, Loans)
      /\ SumFunctionOnSet(h, Loans) \in Int /\ SumFunctionOnSet(b, Loans) \in Int
      /\ SumFunctionOnSet(a, Loans) \in Int /\ SumFunctionOnSet(s, Loans) \in Int
  BY <1>2, <1>3, SumLeq, SumPlus, SumInt
<1>5. Raised = SumFunctionOnSet(h, Loans) /\ Consumed(e) = SumFunctionOnSet(a, Loans)
  BY DEF Raised, Consumed, h, a
<1>6. SumFunctionOnSet(b, Loans) + g <= Headroom /\ Headroom \in Nat
  BY Amounts DEF Shared, Since, b
<1>7. \A hh, ss, bb, aa \in Int, gg, H \in Nat :
         hh <= ss /\ ss = bb + aa /\ aa <= gg /\ bb + gg <= H => hh <= H
  OBVIOUS
<1> QED BY <1>1, <1>4, <1>5, <1>6, <1>7

(* What a step that decides no top-up and applies no write does to the     *)
(* sharing: it may end a top-up, and give back what was not sent.          *)
Reserved(l, d) == allocated'[l][d] = allocated[l][d]
Released(l, d) ==
    /\ allocated'[l][d] = 0 /\ Open(l)
    /\ \A v \in Workers : TopUp(v)' => worker'[v].loan # l

TopUpsGoOn ==
    \A v \in Workers : TopUp(v)' =>
      /\ TopUp(v)
      /\ worker'[v].loan = worker[v].loan /\ worker'[v].today = worker[v].today
      /\ worker'[v].terms = worker[v].terms
      /\ Unapplied(v)' => Unapplied(v)

SentGoOn ==
    \A o \in Ops : wire'[o] = "sent" =>
      \/ /\ wire[o] = "sent"
         /\ \A w \in Workers : TopUp(w) /\ At(w, {"calling"}) /\ worker[w].op = o =>
              \/ TopUp(w)' /\ At(w, {"calling"})' /\ worker'[w].op = o
              \/ ~TopUp(w)' /\ \A d \in 0 .. LastDay : Reserved(worker[w].loan, d)
      \/ /\ op'[o].deduction \in Loans /\ op'[o].terms.amount \in Nat
         /\ Over(op[o].deduction, op[o].terms.amount)'
      \/ \E w \in Workers : TopUp(w)' /\ At(w, {"calling"})' /\ worker'[w].op = o

LEMMA CapStays ==
    ASSUME Inv, NEW e \in 0 .. LastDay, NEW base \in [Loans -> Nat], TopUpsGoOn,
           \A l \in Loans, d \in 0 .. LastDay : Reserved(l, d) \/ Released(l, d)
    PROVE  \A l \in Loans : Cap(l, e, base) \in Nat /\ Cap(l, e, base)' \in Nat
                            /\ Cap(l, e, base) <= Cap(l, e, base)'
<1> SUFFICES ASSUME NEW l \in Loans
             PROVE  Cap(l, e, base) \in Nat /\ Cap(l, e, base)' \in Nat
                    /\ Cap(l, e, base) <= Cap(l, e, base)'
  OBVIOUS
<1>1. allocated[l][e] \in Nat /\ base[l] \in Nat
  BY Amounts
<1>2. Open(l)' => Open(l)
  BY DEF Open, TopUpsGoOn
<1>3. CASE Reserved(l, e)
  BY <1>1, <1>2, <1>3 DEF Cap, Reserved
<1>4. CASE Released(l, e)
  BY <1>1, <1>4 DEF Cap, Released
<1> QED BY <1>3, <1>4

LEMMA ConsumedLess ==
    ASSUME Inv, NEW e \in 0 .. LastDay,
           \A l \in Loans, d \in 0 .. LastDay : Reserved(l, d) \/ Released(l, d)
    PROVE  Consumed(e)' <= Consumed(e) /\ Consumed(e) \in Int /\ Consumed(e)' \in Int
<1> DEFINE a == [l \in Loans |-> allocated[l][e]]
           b == [l \in Loans |-> allocated'[l][e]]
<1>1. \A l \in Loans : b[l] \in Int /\ a[l] \in Int /\ b[l] <= a[l]
  <2> SUFFICES ASSUME NEW l \in Loans PROVE b[l] \in Int /\ a[l] \in Int /\ b[l] <= a[l]
    OBVIOUS
  <2>1. allocated[l][e] \in Nat
    BY Amounts
  <2>2. allocated'[l][e] = allocated[l][e] \/ allocated'[l][e] = 0
    BY DEF Reserved, Released
  <2> QED BY <2>1, <2>2
<1>2. IsFiniteSet(Loans)
  BY LoansAssumption DEF Loans
<1> HIDE DEF a, b
<1>3. /\ SumFunctionOnSet(b, Loans) <= SumFunctionOnSet(a, Loans)
      /\ SumFunctionOnSet(b, Loans) \in Int /\ SumFunctionOnSet(a, Loans) \in Int
  BY <1>1, <1>2, SumLeq, SumInt
<1>4. Consumed(e) = SumFunctionOnSet(a, Loans) /\ Consumed(e)' = SumFunctionOnSet(b, Loans)
  BY DEF Consumed, a, b, Loans
<1> QED BY <1>3, <1>4

LEMMA SharedMoves ==
    ASSUME Whole, RowsStay, NEW e, NEW g, NEW base, Shared(e, g, base), day' \in 0 .. LastDay,
           UNCHANGED snapshot, TopUpsGoOn, SentGoOn,
           \A l \in Loans, d \in 0 .. LastDay : Reserved(l, d) \/ Released(l, d),
           \A l \in Loans : held'[l].amount \in Nat /\ held'[l].amount <= Cap(l, e, base)'
    PROVE  Shared(e, g, base)'
<1>0. Inv /\ LedgerInv
  BY DEF Whole, FullInv
<1>1. e \in 0 .. day /\ e \in 0 .. LastDay /\ g \in Nat /\ base \in [Loans -> Nat]
      /\ snapshot[e] <= g /\ snapshot[e] \in Int /\ day \in 0 .. LastDay /\ LastDay \in Nat
  BY <1>0, Amounts DEF Shared, Since
<1>2. Since(e, g, base)'
  <2>1. Consumed(e)' <= g
    <3>1. Consumed(e)' <= Consumed(e) /\ Consumed(e) \in Int /\ Consumed(e)' \in Int
      BY <1>0, <1>1, ConsumedLess
    <3>2. Consumed(e) <= g
      BY DEF Shared, Since
    <3> QED BY <1>1, <3>1, <3>2
  <2>2. e \in 0 .. day'
    BY <1>1 DEF RowsStay
  <2>3. \A d \in 0 .. LastDay : d > e => snapshot'[d] = -1
    BY DEF Shared, Since
  <2>4. SumFunctionOnSet([l \in Loans |-> base[l] - InitialTerms.amount], Loans) + g <= Headroom
    BY DEF Shared, Since
  <2> QED BY <1>1, <2>1, <2>2, <2>3, <2>4 DEF Since
<1>3. TopUpsOf(e, base)'
  <2>1. ASSUME NEW w \in Workers, TopUp(w)'
        PROVE  /\ worker'[w].today = e /\ allocated'[worker'[w].loan][e] >= 1
               /\ \/ held'[worker'[w].loan] = Settled
                  \/ worker'[w].terms.amount <= base[worker'[w].loan] + allocated'[worker'[w].loan][e]
    <3>1. /\ TopUp(w) /\ worker'[w].loan = worker[w].loan /\ worker'[w].today = worker[w].today
          /\ worker'[w].terms = worker[w].terms
      BY <2>1 DEF TopUpsGoOn
    <3>2. worker[w].loan \in Loans
      BY <3>1, LinkedFacts DEF TopUp
    <3>3. allocated'[worker[w].loan][e] = allocated[worker[w].loan][e]
      BY <1>1, <2>1, <3>1, <3>2 DEF Reserved, Released
    <3>4. held[worker[w].loan] = Settled => held'[worker[w].loan] = Settled
      BY <3>2 DEF RowsStay, Loans
    <3> QED BY <3>1, <3>3, <3>4 DEF Shared, TopUpsOf
  <2>2. \A v, w \in Workers : v # w /\ TopUp(v)' /\ TopUp(w)' => worker'[v].loan # worker'[w].loan
    BY DEF TopUpsGoOn, Shared, TopUpsOf
  <2> QED BY <2>1, <2>2 DEF TopUpsOf
<1>4. \A l \in Loans : Cap(l, e, base) \in Nat /\ Cap(l, e, base)' \in Nat
                        /\ Cap(l, e, base) <= Cap(l, e, base)'
  BY <1>0, <1>1, CapStays
<1>s. ASSUME NEW o \in Ops, NEW l \in Loans, l = op'[o].deduction,
             held'[l] = Settled \/ op'[o].terms.amount <= Cap(l, e, base)'
      PROVE  SentWithin(o, e, base)'
  BY <1>s DEF SentWithin, Cap, Open
<1>6. ASSUME NEW o \in Ops, wire'[o] = "sent" PROVE SentWithin(o, e, base)'
  <2>0. \A x, y, z \in Nat : x <= y /\ y <= z => x <= z
    OBVIOUS
  <2>1. CASE /\ op'[o].deduction \in Loans /\ op'[o].terms.amount \in Nat
             /\ Over(op[o].deduction, op[o].terms.amount)'
    <3>1. PICK l \in Loans : l = op'[o].deduction
      BY <2>1
    <3>2. held'[l] = Settled \/ op'[o].terms.amount <= held'[l].amount
      BY <2>1, <3>1 DEF Over
    <3>3. held'[l] = Settled \/ op'[o].terms.amount <= Cap(l, e, base)'
      BY <1>4, <2>0, <2>1, <3>2
    <3> QED BY <1>s, <3>1, <3>3
  <2>2. CASE /\ wire[o] = "sent"
             /\ \A w \in Workers : TopUp(w) /\ At(w, {"calling"}) /\ worker[w].op = o =>
                  \/ TopUp(w)' /\ At(w, {"calling"})' /\ worker'[w].op = o
                  \/ ~TopUp(w)' /\ \A d \in 0 .. LastDay : Reserved(worker[w].loan, d)
    <3>1. op[o].state # "absent" /\ op[o].deduction \in Loans
      BY <1>0, <2>2 DEF LedgerInv, RowsBegin, Loans
    <3>2. op'[o].deduction = op[o].deduction /\ op'[o].terms = op[o].terms
      BY <3>1 DEF RowsStay
    <3>3. PICK l \in Loans : l = op[o].deduction
      BY <3>1
    <3>4. op[o].terms.amount \in Nat
      BY <1>0, Amounts
    <3>5. CASE held[l] = Settled
      BY <1>s, <3>2, <3>3, <3>5 DEF RowsStay, Loans
    <3>6. CASE op[o].terms.amount <= Cap(l, e, base)
      <4>1. op[o].terms.amount <= Cap(l, e, base)'
        BY <1>4, <2>0, <3>4, <3>6
      <4> QED BY <1>s, <3>2, <3>3, <4>1
    <3>7. CASE held[l] # Settled
               /\ \E w \in Workers : TopUp(w) /\ At(w, {"calling"}) /\ worker[w].op = o
      <4>1. PICK w \in Workers : TopUp(w) /\ At(w, {"calling"}) /\ worker[w].op = o
        BY <3>7
      <4>2. worker[w].loan = l /\ worker[w].terms = op[o].terms
        BY <3>3, <4>1, LinkedFacts DEF Linked, At, Writing
      <4>3. CASE ~TopUp(w)' /\ \A d \in 0 .. LastDay : Reserved(worker[w].loan, d)
        <5>1. op[o].terms.amount <= base[l] + allocated[l][e]
          BY <3>7, <4>1, <4>2 DEF Shared, TopUpsOf
        <5>2. ~Open(l)'
          <6> SUFFICES ASSUME NEW v \in Workers, TopUp(v)', worker'[v].loan = l PROVE FALSE
            BY DEF Open
          <6>1. TopUp(v) /\ worker[v].loan = l
            BY DEF TopUpsGoOn
          <6> QED BY <4>1, <4>2, <4>3, <6>1 DEF Shared, TopUpsOf
        <5>3. Cap(l, e, base)' = base[l] + allocated[l][e]
          BY <1>1, <4>2, <4>3, <5>2 DEF Cap, Reserved
        <5> QED BY <1>s, <3>2, <3>3, <5>1, <5>3
      <4>4. CASE TopUp(w)' /\ At(w, {"calling"})' /\ worker'[w].op = o
        BY <4>4 DEF SentWithin
      <4> QED BY <2>2, <4>1, <4>3, <4>4
    <3>8. op[o].terms.amount <= Cap(l, e, base) \/ held[l] = Settled
          \/ \E w \in Workers : TopUp(w) /\ At(w, {"calling"}) /\ worker[w].op = o
      BY <2>2, <3>3 DEF Shared, Within, SentWithin, Cap
    <3> QED BY <3>5, <3>6, <3>7, <3>8
  <2>3. CASE \E w \in Workers : TopUp(w)' /\ At(w, {"calling"})' /\ worker'[w].op = o
    BY <2>3 DEF SentWithin
  <2> QED BY <1>6, <2>1, <2>2, <2>3 DEF SentGoOn
<1> QED BY <1>2, <1>3, <1>6 DEF Shared, Within

LEMMA SharedGoesOn ==
    ASSUME Whole, RowsStay, NEW e, NEW g, NEW base, Shared(e, g, base), day' \in 0 .. LastDay,
           UNCHANGED <<held, snapshot>>, TopUpsGoOn, SentGoOn,
           \A l \in Loans, d \in 0 .. LastDay : Reserved(l, d) \/ Released(l, d)
    PROVE  Shared(e, g, base)'
<1>0. Inv
  BY DEF Whole, FullInv
<1>1. e \in 0 .. LastDay /\ base \in [Loans -> Nat]
  BY <1>0, Amounts DEF Shared, Since
<1>4. \A l \in Loans : Cap(l, e, base) \in Nat /\ Cap(l, e, base)' \in Nat
                        /\ Cap(l, e, base) <= Cap(l, e, base)'
  BY <1>0, <1>1, CapStays
<1>5. \A l \in Loans : held'[l].amount \in Nat /\ held'[l].amount <= Cap(l, e, base)'
  <2> SUFFICES ASSUME NEW l \in Loans
               PROVE  held'[l].amount \in Nat /\ held'[l].amount <= Cap(l, e, base)'
    OBVIOUS
  <2>1. held[l].amount \in Nat /\ held[l].amount <= Cap(l, e, base)
    BY <1>0, Amounts DEF Shared, Within
  <2>2. \A x, y, z \in Nat : x <= y /\ y <= z => x <= z
    OBVIOUS
  <2> QED BY <1>4, <2>1, <2>2
<1> QED BY <1>5, SharedMoves

(* Deductions only grow, or are settled.                                   *)
Grows == \A l \in Loans : held'[l] = Settled \/ held[l].amount <= held'[l].amount

Writes(w) == (At(w, AtWork) /\ worker[w].task = "payment") \/ At(w, {"verified"})

PaymentGoesOn(v) ==
    Writes(v)' => \/ /\ Writes(v)
                     /\ worker'[v].loan = worker[v].loan /\ worker'[v].terms = worker[v].terms
                  \/ Over(worker[v].loan, worker[v].terms.amount)'

MandatesGoOn ==
    \A l \in Loans : \/ mandate'[l].amount = mandate[l].amount
                     \/ Over(l, mandate[l].amount)'

LEMMA OverStays ==
    ASSUME Whole, Whole', RowsStay, Grows
    PROVE  \A l \in Loans, a \in Nat : Over(l, a) => Over(l, a)'
<1>1. \A l \in Loans : held[l].amount \in Nat /\ held'[l].amount \in Nat
  BY Amounts, AmountsAssumption, TermsAreAmounts
  DEF Whole, FullInv, Inv, LedgerTypeOK, Loans
<1>2. \A l \in Loans : held[l] = Settled => held'[l] = Settled
  BY DEF RowsStay, Loans
<1>3. \A x, y, z \in Nat : x <= y /\ y <= z => x <= z
  OBVIOUS
<1> QED BY <1>1, <1>2, <1>3 DEF Over, Grows

LEMMA MandatesStay ==
    ASSUME Whole, Whole', RowsStay, Grows, Mandates, MandatesGoOn PROVE Mandates'
<1>1. \A l \in Loans : mandate[l].amount \in Nat
  BY Amounts DEF Whole, FullInv
<1>2. \A l \in Loans : Over(l, mandate[l].amount) => Over(l, mandate[l].amount)'
  <2> SUFFICES ASSUME NEW l \in Loans, Over(l, mandate[l].amount)
               PROVE  mandate'[l].amount = mandate[l].amount => Over(l, mandate[l].amount)'
    BY DEF MandatesGoOn
  <2>1. PICK a \in Nat : a = mandate[l].amount
    BY <1>1
  <2>2. Over(l, a)'
    BY <2>1, OverStays
  <2> QED BY <2>1, <2>2 DEF Over
<1> QED BY <1>2 DEF Mandates, MandatesGoOn

LEMMA PaymentsStay ==
    ASSUME Whole, Whole', RowsStay, Grows, Payments, \A v \in Workers : PaymentGoesOn(v)
    PROVE  Payments'
<1> SUFFICES ASSUME NEW v \in Workers, Writes(v)' PROVE Over(worker[v].loan, worker[v].terms.amount)'
  BY DEF Payments, Writes
<1>1. CASE /\ Writes(v)
           /\ worker'[v].loan = worker[v].loan /\ worker'[v].terms = worker[v].terms
  <2>1. worker[v].loan \in Loans /\ worker[v].terms.amount \in Nat
    BY <1>1, LinkedFacts, Amounts DEF Writes, At, AtWork
  <2>2. PICK l \in Loans, a \in Nat : l = worker[v].loan /\ a = worker[v].terms.amount
    BY <2>1
  <2>3. Over(l, a)
    BY <1>1, <2>2 DEF Payments, Writes
  <2>4. Over(l, a)'
    BY <2>3, OverStays
  <2> QED BY <1>1, <2>2, <2>4 DEF Over
<1> QED BY <1>1 DEF PaymentGoesOn

(* A step that reads no headroom, decides no top-up and applies no write.  *)
LEMMA SharingGoesOn ==
    ASSUME Whole, Whole', RowsStay, SharingParts, UNCHANGED <<held, snapshot>>,
           MandatesGoOn, \A v \in Workers : PaymentGoesOn(v), TopUpsGoOn, SentGoOn,
           \A l \in Loans, d \in 0 .. LastDay : Reserved(l, d) \/ Released(l, d)
    PROVE  SharingParts'
<1>1. PICK e, g, base : Shared(e, g, base)
  BY DEF SharingParts
<1>2. day' \in 0 .. LastDay
  BY Amounts DEF Whole, FullInv, Inv, LedgerTypeOK
<1>3. Shared(e, g, base)'
  BY <1>1, <1>2, SharedGoesOn
<1>4. Grows
  BY Amounts DEF Grows, Whole, FullInv
<1>5. Mandates' /\ Payments'
  BY <1>4, MandatesStay, PaymentsStay DEF SharingParts
<1> QED BY <1>3, <1>5 DEF SharingParts

(* Such a step of one worker.                                              *)
TopUpGoesOn(w) ==
    TopUp(w)' => /\ TopUp(w)
                 /\ worker'[w].loan = worker[w].loan /\ worker'[w].today = worker[w].today
                 /\ worker'[w].terms = worker[w].terms
                 /\ Unapplied(w)' => Unapplied(w)

WaitGoesOn(w) ==
    TopUp(w) /\ At(w, {"calling"}) /\ wire[worker[w].op] = "sent" =>
      \/ TopUp(w)' /\ At(w, {"calling"})' /\ worker'[w].op = worker[w].op
      \/ ~TopUp(w)' /\ UNCHANGED allocated

SendsWithin(w) ==
    \A o \in Ops : wire'[o] = "sent" =>
      \/ wire[o] = "sent"
      \/ /\ op'[o].deduction \in Loans /\ op'[o].terms.amount \in Nat
         /\ Over(op[o].deduction, op[o].terms.amount)'
      \/ TopUp(w)' /\ At(w, {"calling"})' /\ worker'[w].op = o

GivesBack(w) ==
    \/ UNCHANGED allocated
    \/ /\ TopUp(w) /\ Unapplied(w) /\ ~TopUp(w)'
       /\ allocated' = [allocated EXCEPT ![worker[w].loan][worker[w].today] = 0]

LEMMA GivesBackEffect ==
    ASSUME Whole, RowsStay, SharingParts, NEW w \in Workers, Only(w), GivesBack(w), TopUpsGoOn
    PROVE  \A l \in Loans, d \in 0 .. LastDay : Reserved(l, d) \/ Released(l, d)
<1>1. CASE UNCHANGED allocated
  BY <1>1 DEF Reserved
<1>2. CASE /\ TopUp(w) /\ Unapplied(w) /\ ~TopUp(w)'
           /\ allocated' = [allocated EXCEPT ![worker[w].loan][worker[w].today] = 0]
  <2>1. worker[w].loan \in Loans /\ worker[w].today \in 0 .. LastDay /\ Inv
    BY <1>2, LinkedFacts, Amounts DEF TopUp
  <2>2. PICK k \in Loans, t \in 0 .. LastDay : k = worker[w].loan /\ t = worker[w].today
    BY <2>1
  <2>3. /\ \A l \in Loans, d \in 0 .. LastDay : (l # k \/ d # t) => allocated'[l][d] = allocated[l][d]
        /\ allocated'[k][t] = 0
    BY <1>2, <2>1, <2>2 DEF Inv, LoansOK
  <2>4. Open(k)
    BY <1>2, <2>2 DEF Open
  <2>5. ASSUME NEW v \in Workers, TopUp(v)', worker'[v].loan = k PROVE FALSE
    <3>1. v # w /\ TopUp(v) /\ worker[v].loan = k
      BY <1>2, <2>5 DEF TopUpsGoOn
    <3> QED BY <1>2, <2>2, <3>1 DEF SharingParts, Shared, TopUpsOf
  <2> QED BY <2>3, <2>4, <2>5 DEF Reserved, Released
<1> QED BY <1>1, <1>2 DEF GivesBack

LEMMA WorkerSharing ==
    ASSUME Whole, Whole', RowsStay, SharingParts, NEW w \in Workers, Only(w),
           UNCHANGED <<held, snapshot>>,
           MandatesGoOn, PaymentGoesOn(w), TopUpGoesOn(w), WaitGoesOn(w), SendsWithin(w),
           GivesBack(w)
    PROVE  SharingParts'
<1>1. TopUpsGoOn
  <2> SUFFICES ASSUME NEW v \in Workers, TopUp(v)', v # w
               PROVE  TopUp(v) /\ worker'[v] = worker[v] /\ (Unapplied(v)' => Unapplied(v))
    BY DEF TopUpsGoOn, TopUpGoesOn
  <2>1. worker'[v] = worker[v]
    BY DEF Only
  <2>2. TopUp(v)
    BY <2>1 DEF TopUp, At
  <2>3. At(v, {"calling"}) /\ wire[worker[v].op] = "applied" => wire'[worker[v].op] = "applied"
    BY LinkedFacts DEF Linked, RowsStay, At, Writing
  <2> QED BY <2>1, <2>2, <2>3 DEF Unapplied, At
<1>2. \A v \in Workers : PaymentGoesOn(v)
  BY DEF Only, PaymentGoesOn, Writes, At
<1>3. SentGoOn
  <2> SUFFICES ASSUME NEW o \in Ops, wire'[o] = "sent", wire[o] = "sent",
                      NEW v \in Workers, TopUp(v), At(v, {"calling"}), worker[v].op = o
               PROVE  \/ TopUp(v)' /\ At(v, {"calling"})' /\ worker'[v].op = o
                      \/ ~TopUp(v)' /\ \A d \in 0 .. LastDay : Reserved(worker[v].loan, d)
    BY DEF SentGoOn, SendsWithin
  <2>1. CASE v = w
    BY <2>1 DEF WaitGoesOn, Reserved
  <2>2. CASE v # w
    BY <2>2 DEF Only, TopUp, At
  <2> QED BY <2>1, <2>2
<1>4. \A l \in Loans, d \in 0 .. LastDay : Reserved(l, d) \/ Released(l, d)
  BY <1>1, GivesBackEffect
<1> QED BY <1>1, <1>2, <1>3, <1>4, SharingGoesOn

(* A worker that rests afterwards.                                         *)
LEMMA RestingWorker ==
    ASSUME Inv, NEW w \in Workers, Rests(w), UNCHANGED wire
    PROVE  /\ Only(w) /\ ~TopUp(w)' /\ ~Writes(w)'
           /\ PaymentGoesOn(w) /\ TopUpGoesOn(w) /\ SendsWithin(w)
<1>1. Only(w) /\ RestsNow(w)
  BY RestEffect
<1>2. ~At(w, AtWork)' /\ ~At(w, {"verified"})'
  BY <1>1 DEF RestsNow, At, AtWork
<1> QED BY <1>1, <1>2 DEF TopUp, Writes, PaymentGoesOn, TopUpGoesOn, SendsWithin

(* What was allocated when a task ends.                                    *)
LEMMA EndGives ==
    ASSUME Whole, NEW w \in Workers, At(w, AtWork), End(w, FALSE), "headroom" \notin upset',
           wire' = wire
    PROVE  /\ GivesBack(w) /\ WaitGoesOn(w)
           /\ TopUp(w) => Unapplied(w)
<1>1. /\ Inv /\ Linked(w) /\ worker[w].loan \in Loans /\ worker[w].today \in 0 .. LastDay
      /\ At(w, Writing) => worker[w].op \in Ops
  BY LinkedFacts, Amounts
<1>2. Rests(w)
  BY DEF End
<1>3. ~TopUp(w)'
  BY <1>1, <1>2, RestingWorker
<1>4. TopUp(w) => ~MayTakeEffect(worker[w].op)
  BY DEF End, Noting, Happened, TopUp
<1>5. TopUp(w) => Unapplied(w)
  <2> SUFFICES ASSUME TopUp(w) PROVE Unapplied(w)
    OBVIOUS
  <2>1. At(w, Writing) => wire[worker[w].op] # "applied"
    BY <1>1, <1>4 DEF MayTakeEffect
  <2>2. At(w, {"decided"}) \/ At(w, {"calling"}) \/ At(w, Writing \ {"calling"})
    BY DEF At, AtWork, Writing
  <2>3. ~At(w, Writing \ {"calling"})
    BY <1>1, <2>1 DEF Linked, At, Writing
  <2> QED BY <2>1, <2>2, <2>3 DEF Unapplied, At, Writing
<1>6. TopUp(w) => allocated' = [allocated EXCEPT ![worker[w].loan][worker[w].today] = 0]
  BY DEF End, TopUp
<1>7. ~TopUp(w) => UNCHANGED allocated
  BY <1>1 DEF End, TopUp, Inv, LoansOK
<1>8. WaitGoesOn(w)
  <2> SUFFICES ASSUME TopUp(w), At(w, {"calling"}), wire[worker[w].op] = "sent" PROVE FALSE
    BY DEF WaitGoesOn
  <2> QED BY <1>1, <1>4 DEF MayTakeEffect, At, Writing
<1> QED BY <1>3, <1>5, <1>6, <1>7, <1>8 DEF GivesBack

LEMMA SharingRests ==
    ASSUME Whole, Whole', RowsStay, SharingParts, "headroom" \notin upset', NEW w \in Workers,
           Skip(w) \/ Duplicate(w) \/ WriteFails(w) \/ Crash(w)
    PROVE  SharingParts'
<1>1. /\ Rests(w) /\ UNCHANGED <<held, snapshot, wire, mandate>> /\ Inv
  BY DEF Skip, Duplicate, WriteFails, Crash, End, Reject, LoseAnswer, StopReading,
       ledgerVars,
     Whole, FullInv
<1>2. /\ Only(w) /\ ~TopUp(w)'
      /\ PaymentGoesOn(w) /\ TopUpGoesOn(w) /\ SendsWithin(w)
  BY <1>1, RestingWorker
<1>3. MandatesGoOn
  BY <1>1 DEF MandatesGoOn
<1>4. WaitGoesOn(w) /\ GivesBack(w)
  <2>1. CASE Skip(w)
    BY <2>1 DEF Skip, WaitGoesOn, GivesBack, TopUp, At, AtWork
  <2>2. CASE Crash(w)
    BY <1>2, <2>2 DEF Crash, WaitGoesOn, GivesBack
  <2>3. CASE Duplicate(w) \/ WriteFails(w)
    <3>1. End(w, FALSE) /\ At(w, AtWork)
      BY <2>3 DEF Duplicate, WriteFails, At, AtWork
    <3> QED BY <1>1, <3>1, EndGives
  <2> QED BY <2>1, <2>2, <2>3
<1> QED BY <1>1, <1>2, <1>3, <1>4, WorkerSharing

LEMMA SharingStartPayment ==
    ASSUME Whole, Whole', RowsStay, SharingParts, NEW w \in Workers, NEW l \in Loans,
           StartPayment(w, l)
    PROVE  SharingParts'
<1>1. /\ Inv /\ At(w, {"idle"}) /\ Starts(w, "decided", "payment", l, AfterPayment(l), day)
      /\ UNCHANGED <<held, snapshot, wire, mandate, allocated>>
  BY DEF StartPayment, ledgerVars, Whole, FullInv
<1>2. Only(w) /\ StartsAt(w, "decided", "payment", l, AfterPayment(l), day)
  BY <1>1, StartEffect
<1>3. ~TopUp(w) /\ ~TopUp(w)'
  BY <1>1, <1>2 DEF TopUp, At, AtWork, StartsAt
<1>4. Over(l, AfterPayment(l).amount)
  <2>1. Over(l, mandate[l].amount)
    BY DEF SharingParts, Mandates
  <2>2. held[l].amount \in Nat /\ Settled.amount = 0
    BY <1>1, Amounts
  <2>3. AfterPayment(l).amount = 0 \/ AfterPayment(l).amount = mandate[l].amount
    BY <2>2 DEF AfterPayment
  <2> QED BY <2>1, <2>2, <2>3 DEF Over
<1>5. PaymentGoesOn(w)
  BY <1>1, <1>2, <1>4 DEF PaymentGoesOn, StartsAt, Over
<1>6. MandatesGoOn
  BY <1>1 DEF MandatesGoOn
<1>7. TopUpGoesOn(w) /\ WaitGoesOn(w) /\ SendsWithin(w) /\ GivesBack(w)
  BY <1>1, <1>3 DEF TopUpGoesOn, WaitGoesOn, SendsWithin, GivesBack
<1> QED BY <1>1, <1>2, <1>5, <1>6, <1>7, WorkerSharing

LEMMA SharingScans ==
    ASSUME Whole, Whole', RowsStay, SharingParts, NEW w \in Workers,
           (\E l \in Loans : StartScan(w, l)) \/ NewCycle(w)
           \/ (FinishScan(w) /\ snapshot[worker[w].today] # -1)
    PROVE  SharingParts'
<1>0. Inv /\ worker[w].today \in 0 .. LastDay
  BY Amounts DEF Whole, FullInv
<1>1. /\ ~At(w, AtWork)
      /\ UNCHANGED <<held, wire, mandate, allocated>>
  BY DEF StartScan, NewCycle, FinishScan, ledgerVars, At, AtWork
<1>2. snapshot' = snapshot
  <2>1. CASE FinishScan(w) /\ snapshot[worker[w].today] # -1
    BY <1>0, <2>1 DEF FinishScan, Inv, LoansOK
  <2> QED BY <2>1 DEF StartScan, NewCycle
<1>3. Only(w) /\ ~At(w, AtWork)'
  <2>1. ASSUME NEW l \in Loans, StartScan(w, l) PROVE Only(w) /\ ~At(w, AtWork)'
    BY <1>0, <2>1, StartEffect DEF StartScan, StartsAt, At, AtWork
  <2>2. CASE NewCycle(w)
    BY <1>0, <2>2, NewCycleEffect DEF At, AtWork
  <2>3. CASE FinishScan(w)
    <3>1. Becomes(w, "offered") \/ Rests(w)
      BY <2>3 DEF FinishScan
    <3>2. CASE Becomes(w, "offered")
      BY <1>0, <3>2, StageEffect DEF StandsAt, At, AtWork
    <3>3. CASE Rests(w)
      BY <1>0, <3>3, RestEffect DEF RestsNow, At, AtWork
    <3> QED BY <3>1, <3>2, <3>3
  <2> QED BY <2>1, <2>2, <2>3
<1>4. ~Writes(w)' /\ ~TopUp(w) /\ ~TopUp(w)'
  BY <1>1, <1>3 DEF Writes, TopUp, At, AtWork
<1>5. MandatesGoOn
  BY <1>1 DEF MandatesGoOn
<1>6. PaymentGoesOn(w) /\ TopUpGoesOn(w) /\ WaitGoesOn(w) /\ SendsWithin(w) /\ GivesBack(w)
  BY <1>1, <1>4 DEF PaymentGoesOn, TopUpGoesOn, WaitGoesOn, SendsWithin, GivesBack
<1> QED BY <1>1, <1>2, <1>3, <1>5, <1>6, WorkerSharing

LEMMA SharingBeginWrite ==
    ASSUME Whole, Whole', RowsStay, SharingParts, NEW w \in Workers, BeginWrite(w)
    PROVE  SharingParts'
<1>0. /\ Inv /\ Linked(w) /\ At(w, {"decided"}) /\ At(w, AtWork) /\ worker[w].loan \in Loans
      /\ worker[w].terms.amount \in Nat /\ Unapplied(w)
      /\ UNCHANGED <<held, snapshot, mandate, allocated>>
  BY LinkedFacts, Amounts DEF BeginWrite, Begin, At, AtWork, Unapplied
<1>1. MandatesGoOn /\ GivesBack(w)
  BY <1>0 DEF MandatesGoOn, GivesBack
<1>2. WaitGoesOn(w)
  BY <1>0 DEF WaitGoesOn, At
<1>3. PICK o \in Ops, s \in {"prepared", "submitting"} :
        /\ Begin(o, worker[w].loan, worker[w].terms, s)
        /\ \/ s = "submitting"
              /\ worker' = [worker EXCEPT ![w].stage = "calling", ![w].op = o]
           \/ s = "prepared" /\ Rests(w)
  BY DEF BeginWrite
<1>4. /\ op'[o].deduction = worker[w].loan /\ op'[o].terms = worker[w].terms
      /\ \A p \in Ops \ {o} : wire'[p] = wire[p]
      /\ s = "prepared" => wire'[o] = "none"
      /\ op[o].state = "absent" /\ wire'[o] \in {"none", "sent"}
  BY <1>0, <1>3 DEF Begin, Inv, LedgerTypeOK
<1>5. CASE s = "prepared"
  <2>1. Rests(w)
    BY <1>3, <1>5
  <2>2. Only(w) /\ RestsNow(w)
    BY <1>0, <2>1, RestEffect
  <2>3. ~At(w, AtWork)' /\ ~At(w, {"verified"})'
    BY <2>2 DEF RestsNow, At, AtWork
  <2>4. PaymentGoesOn(w) /\ TopUpGoesOn(w)
    BY <2>3 DEF TopUp, Writes, PaymentGoesOn, TopUpGoesOn
  <2>5. SendsWithin(w)
    BY <1>4, <1>5 DEF SendsWithin
  <2> QED BY <1>0, <1>1, <1>2, <2>2, <2>4, <2>5, WorkerSharing
<1>6. CASE s = "submitting"
  <2>1. Only(w) /\ StandsAt(w, "calling", o)
    BY <1>0, <1>3, <1>6, CallEffect
  <2>2. PaymentGoesOn(w)
    BY <1>0, <2>1 DEF PaymentGoesOn, Writes, StandsAt, At
  <2>3. TopUpGoesOn(w)
    BY <1>0, <2>1 DEF TopUpGoesOn, TopUp, StandsAt
  <2>4. SendsWithin(w)
    <3>1. CASE worker[w].task = "topup"
      <4>1. TopUp(w)' /\ At(w, {"calling"})' /\ worker'[w].op = o
        BY <2>1, <3>1 DEF StandsAt, TopUp, At, AtWork
      <4> QED BY <1>4, <4>1 DEF SendsWithin
    <3>2. CASE worker[w].task = "payment"
      <4>1. Over(worker[w].loan, worker[w].terms.amount)
        BY <1>0, <3>2 DEF SharingParts, Payments
      <4>2. Over(op[o].deduction, op[o].terms.amount)'
        BY <1>0, <1>4, <4>1 DEF Over
      <4> QED BY <1>0, <1>4, <4>2 DEF SendsWithin
    <3> QED BY <1>0, <3>1, <3>2 DEF Linked, At
  <2> QED BY <1>0, <1>1, <1>2, <2>1, <2>2, <2>3, <2>4, WorkerSharing
<1> QED BY <1>3, <1>5, <1>6

LEMMA SharingAnswered ==
    ASSUME Whole, Whole', RowsStay, SharingParts, NEW w \in Workers,
           WriteAcknowledged(w) \/ Verify(w) \/ LoseLocks(w)
    PROVE  SharingParts'
<1>0. /\ Inv /\ Linked(w) /\ At(w, Writing) /\ At(w, AtWork) /\ worker[w].op \in Ops
      /\ worker[w].loan \in Loans /\ ~At(w, {"verified"}) /\ ~At(w, {"decided"})
      /\ UNCHANGED <<held, snapshot, mandate, allocated, wire>>
  BY LinkedFacts
  DEF WriteAcknowledged, Verify, LoseLocks, Acknowledge, ReadBack, ReadDiffers,
       ledgerVars,
      At, AtWork, Writing
<1>1. MandatesGoOn /\ GivesBack(w) /\ SendsWithin(w)
  BY <1>0 DEF MandatesGoOn, GivesBack, SendsWithin
<1>2. PICK stage : Only(w) /\ StandsAt(w, stage, worker[w].op)
                   /\ \/ stage = "calling" /\ At(w, {"calling"})
                      \/ stage = "reading" /\ wire[worker[w].op] = "applied"
                      \/ /\ stage \in {"verified", "unverified"} /\ At(w, {"reading"})
                         /\ stage = "verified" => held[worker[w].loan] = worker[w].terms
  <2>1. CASE LoseLocks(w)
    BY <1>0, <2>1, LoseLocksEffect
  <2>2. CASE WriteAcknowledged(w)
    BY <1>0, <2>2, StageEffect DEF WriteAcknowledged, Acknowledge
  <2>3. CASE Verify(w)
    <3>1. At(w, {"reading"})
      BY <2>3 DEF Verify
    <3>2. CASE ReadBack(worker[w].op, Caller) /\ Becomes(w, "verified")
      BY <1>0, <3>1, <3>2, StageEffect DEF ReadBack, Linked
    <3>3. CASE Becomes(w, "unverified")
      BY <1>0, <3>1, <3>3, StageEffect
    <3> QED BY <2>3, <3>2, <3>3 DEF Verify
  <2> QED BY <2>1, <2>2, <2>3
<1>3. TopUp(w)' => TopUp(w)
  BY <1>0, <1>2 DEF TopUp, StandsAt
<1>4. Unapplied(w)' => Unapplied(w)
  BY <1>0, <1>2 DEF Unapplied, StandsAt, At
<1>5. TopUpGoesOn(w)
  BY <1>2, <1>3, <1>4 DEF TopUpGoesOn, StandsAt
<1>6. WaitGoesOn(w)
  BY <1>0, <1>2 DEF WaitGoesOn, TopUp, StandsAt, At, AtWork
<1>7. PaymentGoesOn(w)
  <2>1. CASE stage = "verified"
    <3>1. Over(worker[w].loan, worker[w].terms.amount)
      BY <1>0, <1>2, <2>1, Amounts DEF Over, At
    <3>2. Over(worker[w].loan, worker[w].terms.amount)'
      BY <1>0, <1>2, <3>1 DEF Over, StandsAt
    <3> QED BY <3>2 DEF PaymentGoesOn
  <2>2. CASE stage # "verified"
    BY <1>0, <1>2, <2>2 DEF PaymentGoesOn, Writes, StandsAt, At
  <2> QED BY <2>1, <2>2
<1> QED BY <1>0, <1>1, <1>2, <1>5, <1>6, <1>7, WorkerSharing

LEMMA SharingRecord ==
    ASSUME Whole, Whole', RowsStay, SharingParts, "headroom" \notin upset', NEW w \in Workers,
           Record(w)
    PROVE  SharingParts'
<1>0. /\ Inv /\ Linked(w) /\ At(w, AtWork) /\ ~At(w, {"calling"}) /\ ~At(w, {"decided"})
      /\ worker[w].op \in Ops /\ wire[worker[w].op] = "applied"
      /\ worker[w].loan \in Loans /\ worker[w].today \in 0 .. LastDay
      /\ Rests(w) /\ UNCHANGED <<held, snapshot, wire>>
  BY LinkedFacts, Amounts DEF Record, End, ledgerVars, Linked, At, AtWork, Writing
<1>l. PICK l \in Loans : worker[w].loan = l
  BY <1>0
<1>t. PICK t : worker[w].terms = t
  OBVIOUS
<1>1. /\ Only(w) /\ PaymentGoesOn(w) /\ TopUpGoesOn(w) /\ SendsWithin(w)
  BY <1>0, RestingWorker
<1>2. WaitGoesOn(w)
  BY <1>0 DEF WaitGoesOn
<1>3. GivesBack(w)
  <2>1. MayTakeEffect(worker[w].op)
    BY <1>0 DEF MayTakeEffect
  <2>2. ~(worker[w].task = "topup" /\ ~At(w, {"verified"}))
    BY <2>1 DEF Record, End, Noting, Happened
  <2>3. allocated' = allocated
    BY <1>0, <2>2 DEF Record, End, Inv, LoansOK
  <2> QED BY <2>3 DEF GivesBack
<1>4. MandatesGoOn
  <2>1. At(w, {"verified"}) => Over(l, t.amount)
    BY <1>l, <1>t DEF SharingParts, Payments
  <2>2. mandate' = [mandate EXCEPT ![l] =
              IF ~At(w, {"verified"}) THEN @
              ELSE IF t = Settled THEN [@ EXCEPT !.settled = TRUE]
              ELSE [amount |-> t.amount, settled |-> FALSE]]
    BY <1>l, <1>t DEF Record
  <2>3. mandate \in [Loans -> [amount : 0 .. Maximum, settled : BOOLEAN]]
    BY <1>0 DEF Inv, LoansOK
  <2>4. \A k \in Loans : mandate'[k].amount = mandate[k].amount
                         \/ (k = l /\ At(w, {"verified"}) /\ mandate'[k].amount = t.amount)
    BY <2>2, <2>3
  <2> QED BY <1>0, <2>1, <2>4 DEF MandatesGoOn, Over
<1> QED BY <1>0, <1>1, <1>2, <1>3, <1>4, WorkerSharing

(* The other actors, but for the provider.                                 *)
LEMMA SharingOthers ==
    ASSUME Whole, Whole', RowsStay, SharingParts,
           \/ \E l \in Loans : Payment(l)
           \/ \E o \in Ops : OperatorLooks(o) \/ OperatorReads(o)
           \/ Midnight \/ UNCHANGED vars
    PROVE  SharingParts'
<1>1. UNCHANGED <<held, snapshot, wire, worker, allocated>>
  BY DEF Payment, Repayment, InitiatePayment, ReverseLastPayment, Marks, OperatorLooks,
       OperatorReads, Midnight, vars, ledgerVars, Look, ReadBack,
     ReadDiffers, NextDay
<1>2. MandatesGoOn
  <2>1. CASE UNCHANGED mandate
    BY <2>1 DEF MandatesGoOn
  <2>2. ASSUME NEW o \in Ops,
               mandate' = [mandate EXCEPT ![op[o].deduction].settled = (op[o].terms = Settled)]
        PROVE  MandatesGoOn
    <3>1. mandate \in [Loans -> [amount : 0 .. Maximum, settled : BOOLEAN]]
      BY DEF Whole, FullInv, Inv, LoansOK
    <3> DEFINE k == op[o].deduction
               s == op[o].terms = Settled
    <3>2. mandate' = [mandate EXCEPT ![k] = [mandate[k] EXCEPT !.settled = s]]
      BY <2>2
    <3> HIDE DEF k, s
    <3>3. \A l \in Loans : mandate'[l].amount = mandate[l].amount
      BY <3>1, <3>2
    <3> QED BY <3>3 DEF MandatesGoOn
  <2> QED BY <2>1, <2>2 DEF Payment, Repayment, InitiatePayment, ReverseLastPayment,
       Marks, OperatorLooks, OperatorReads, Midnight, vars
<1>3. \A v \in Workers : PaymentGoesOn(v)
  BY <1>1 DEF PaymentGoesOn, Writes, At
<1>4. TopUpsGoOn
  BY <1>1 DEF TopUpsGoOn, TopUp, At, Unapplied
<1>5. SentGoOn
  BY <1>1 DEF SentGoOn, TopUp, At
<1>6. \A l \in Loans, d \in 0 .. LastDay : Reserved(l, d) \/ Released(l, d)
  BY <1>1 DEF Reserved
<1> QED BY <1>1, <1>2, <1>3, <1>4, <1>5, <1>6, SharingGoesOn

LEMMA SharingProvider ==
    ASSUME Whole, Whole', RowsStay, SharingParts, "headroom" \notin upset', NEW o \in Ops,
           Provider(o)
    PROVE  SharingParts'
<1>0. /\ Inv /\ LedgerInv /\ wire[o] = "sent"
      /\ UNCHANGED <<op, worker, allocated, snapshot, mandate, day>>
  BY DEF Whole, FullInv, Provider, ProviderApplies, ProviderRefuses
<1>1. /\ \A p \in Ops \ {o} : wire'[p] = wire[p]
      /\ wire'[o] \in {"applied", "refused"}
  BY <1>0 DEF Provider, ProviderApplies, ProviderRefuses, LedgerInv, LedgerTypeOK
<1>2. TopUpsGoOn
  <2>1. \A v \in Workers : Unapplied(v)' => Unapplied(v)
    <3> SUFFICES ASSUME NEW v \in Workers, Unapplied(v)' PROVE Unapplied(v)
      OBVIOUS
    <3>1. At(v, {"calling"}) => worker[v].op \in Ops
      BY LinkedFacts DEF At, Writing
    <3> QED BY <1>0, <1>1, <3>1 DEF Unapplied, At
  <2> QED BY <1>0, <2>1 DEF TopUpsGoOn, TopUp, At
<1>3. SentGoOn
  BY <1>0, <1>1 DEF SentGoOn, TopUp, At
<1>4. \A l \in Loans, d \in 0 .. LastDay : Reserved(l, d) \/ Released(l, d)
  BY <1>0 DEF Reserved
<1>5. MandatesGoOn /\ \A v \in Workers : PaymentGoesOn(v)
  BY <1>0 DEF MandatesGoOn, PaymentGoesOn, Writes, At
<1>6. CASE ProviderRefuses(o)
  <2>1. held' = held
    BY <1>6 DEF ProviderRefuses
  <2> QED BY <1>0, <1>2, <1>3, <1>4, <1>5, <2>1, SharingGoesOn
<1>7. CASE ProviderApplies(o)
  <2>1. Grows
    <3>1. \A l \in Loans : held[l].amount \in Nat /\ held'[l].amount \in Nat
      BY AmountsAssumption, TermsAreAmounts DEF Whole, FullInv, Inv, LedgerTypeOK, Loans
    <3>2. \A x, y \in Nat : ~(y < x) => x <= y
      OBVIOUS
    <3> QED BY <3>1, <3>2 DEF Provider, Noting, Happened, Grows
  <2>2. Mandates' /\ Payments'
    BY <1>5, <2>1, MandatesStay, PaymentsStay DEF SharingParts
  <2>3. PICK e, g, base : Shared(e, g, base)
    BY DEF SharingParts
  <2>4. e \in 0 .. LastDay /\ base \in [Loans -> Nat] /\ day' \in 0 .. LastDay
    BY <1>0, <2>3, Amounts DEF Shared, Since
  <2>5. \A l \in Loans : Cap(l, e, base) \in Nat /\ Cap(l, e, base)' \in Nat
                          /\ Cap(l, e, base) <= Cap(l, e, base)'
    BY <1>0, <1>2, <1>4, <2>4, CapStays
  <2>6. op[o].deduction \in Loans /\ op[o].terms.amount \in Nat /\ op[o].terms \in Terms
    BY <1>0, Amounts DEF LedgerInv, LedgerTypeOK, RowsBegin, Loans
  <2>7. PICK l \in Loans, t \in Terms : l = op[o].deduction /\ t = op[o].terms
    BY <2>6
  <2>8. /\ \A k \in Loans \ {l} : held'[k] = held[k]
        /\ held'[l] = t /\ held[l] # Settled /\ wire'[o] = "applied"
    BY <1>0, <1>7, <2>7 DEF ProviderApplies, LedgerInv, LedgerTypeOK, Loans
  <2>9. t.amount <= Cap(l, e, base)'
    <3>0. \A x, y, z \in Nat : x <= y /\ y <= z => x <= z
      OBVIOUS
    <3>1. CASE t.amount <= Cap(l, e, base)
      BY <2>5, <2>6, <2>7, <3>0, <3>1
    <3>2. CASE \E w \in Workers : TopUp(w) /\ At(w, {"calling"}) /\ worker[w].op = o
      <4>1. PICK w \in Workers : TopUp(w) /\ At(w, {"calling"}) /\ worker[w].op = o
        BY <3>2
      <4>2. worker[w].loan = l /\ worker[w].terms = t
        BY <2>7, <4>1, LinkedFacts DEF Linked, At, Writing
      <4>3. t.amount <= base[l] + allocated[l][e]
        BY <2>3, <2>8, <4>1, <4>2 DEF Shared, TopUpsOf
      <4>4. ~Open(l)'
        <5> SUFFICES ASSUME NEW v \in Workers, TopUp(v)', worker'[v].loan = l, Unapplied(v)'
                     PROVE  FALSE
          BY DEF Open
        <5>1. TopUp(v) /\ worker[v].loan = l
          BY <1>2 DEF TopUpsGoOn
        <5>2. v = w
          BY <2>3, <4>1, <4>2, <5>1 DEF Shared, TopUpsOf
        <5>3. worker'[w].op = o /\ ~At(w, {"decided"})'
          BY <1>0, <4>1 DEF At
        <5> QED BY <2>8, <5>2, <5>3 DEF Unapplied
      <4> QED BY <1>0, <4>3, <4>4 DEF Cap
    <3>3. SentWithin(o, e, base)
      BY <1>0, <2>3 DEF Shared, Within
    <3> QED BY <2>7, <2>8, <3>1, <3>2, <3>3 DEF SentWithin, Cap
  <2>10. \A k \in Loans : held'[k].amount \in Nat /\ held'[k].amount <= Cap(k, e, base)'
    <3> SUFFICES ASSUME NEW k \in Loans
                 PROVE  held'[k].amount \in Nat /\ held'[k].amount <= Cap(k, e, base)'
      OBVIOUS
    <3>1. CASE k = l
      BY <2>6, <2>7, <2>8, <2>9, <3>1
    <3>2. CASE k # l
      <4>1. held[k].amount \in Nat /\ held[k].amount <= Cap(k, e, base)
        BY <1>0, <2>3, Amounts DEF Shared, Within
      <4>2. \A x, y, z \in Nat : x <= y /\ y <= z => x <= z
        OBVIOUS
      <4> QED BY <2>5, <2>8, <3>2, <4>1, <4>2
    <3> QED BY <3>1, <3>2
  <2>11. Shared(e, g, base)'
    BY <1>0, <1>2, <1>3, <1>4, <2>3, <2>4, <2>10, SharedMoves
  <2> QED BY <2>2, <2>11 DEF SharingParts
<1> QED BY <1>6, <1>7 DEF Provider

LEMMA ReadFirstStays ==
    ASSUME Whole, ReadFirst, [Next]_vars PROVE ReadFirst'
<1>0. Inv
  BY DEF Whole, FullInv
<1>1. CASE UNCHANGED <<allocated, snapshot>>
  BY <1>1 DEF ReadFirst
<1>2. ASSUME NEW l \in Loans, NEW d \in 0 .. LastDay, NEW a, UNCHANGED snapshot,
             a = 0 \/ snapshot[d] # -1 \/ UNCHANGED allocated,
             allocated' = [allocated EXCEPT ![l][d] = a]
      PROVE  ReadFirst'
  <2>1. \A k \in Loans, c \in 0 .. LastDay :
           \/ allocated'[k][c] = allocated[k][c]
           \/ c = d /\ allocated'[k][c] = a
    BY <1>0, <1>2 DEF Inv, LoansOK
  <2> QED BY <1>2, <2>1 DEF ReadFirst
<1>3. ASSUME NEW w \in Workers, NEW confirmed, End(w, confirmed), UNCHANGED snapshot, At(w, AtWork)
      PROVE  ReadFirst'
  <2>1. worker[w].loan \in Loans /\ worker[w].today \in 0 .. LastDay
    BY <1>0, <1>3, LinkedFacts, Amounts
  <2>2. PICK l \in Loans, d \in 0 .. LastDay : l = worker[w].loan /\ d = worker[w].today
    BY <2>1
  <2>3. \/ allocated' = [allocated EXCEPT ![l][d] = 0]
        \/ allocated' = [allocated EXCEPT ![l][d] = allocated[l][d]]
    BY <1>3, <2>2 DEF End
  <2>4. [allocated EXCEPT ![l][d] = allocated[l][d]] = allocated
    BY <1>0 DEF Inv, LoansOK
  <2> QED BY <1>1, <1>2, <1>3, <2>3, <2>4
<1>4. ASSUME NEW w \in Workers, StartTopUp(w) PROVE ReadFirst'
  <2>1. worker[w].loan \in Loans /\ worker[w].today \in 0 .. LastDay
    BY <1>0, <1>4, Amounts DEF StartTopUp, At, Inv, WorkersOK, Holding
  <2>2. PICK l \in Loans, d \in 0 .. LastDay : l = worker[w].loan /\ d = worker[w].today
    BY <2>1
  <2>3. PICK left \in 1 .. Headroom : left = Remaining(d) /\ Reserve(w, l, d, left)
    BY <1>4, <2>2 DEF StartTopUp
  <2>4. snapshot[d] # -1
    <3>1. Consumed(d) \in Nat /\ snapshot[d] \in Int
      BY <1>0, ConsumedSum, Amounts
    <3> QED BY <2>3, <3>1, AmountsAssumption DEF Remaining
  <2>5. UNCHANGED snapshot
    BY <1>4 DEF StartTopUp
  <2> QED BY <1>2, <2>3, <2>4, <2>5 DEF Reserve
<1>5. ASSUME NEW w \in Workers, FinishScan(w) PROVE ReadFirst'
  <2>1. worker[w].today \in 0 .. LastDay
    BY <1>0, Amounts
  <2>2. PICK d \in 0 .. LastDay, live \in 0 .. Headroom :
            d = worker[w].today /\ snapshot' = [snapshot EXCEPT ![d] = live]
    BY <1>5, <2>1 DEF FinishScan
  <2>3. \A c \in 0 .. LastDay : snapshot'[c] = snapshot[c] \/ snapshot'[c] = live
    BY <1>0, <2>2 DEF Inv, LoansOK
  <2>4. live # -1
    BY AmountsAssumption
  <2>5. UNCHANGED allocated
    BY <1>5 DEF FinishScan
  <2> QED BY <2>3, <2>4, <2>5 DEF ReadFirst
<1>6. ASSUME NEW w \in Workers, WorkerStep(w) PROVE ReadFirst'
  <2>1. CASE Duplicate(w) \/ WriteFails(w) \/ Record(w)
    <3>1. /\ At(w, AtWork) /\ UNCHANGED snapshot
          /\ End(w, FALSE) \/ End(w, At(w, {"verified"}))
      BY <2>1 DEF Duplicate, WriteFails, Record, At, AtWork
    <3> QED BY <1>3, <3>1
  <2>2. CASE (\E l \in Loans : StartPayment(w, l) \/ StartScan(w, l)) \/ NewCycle(w) \/ Skip(w)
             \/ BeginWrite(w) \/ WriteAcknowledged(w) \/ Verify(w) \/ Crash(w) \/ LoseLocks(w)
    BY <1>1, <2>2 DEF StartPayment, StartScan, NewCycle, Skip, BeginWrite,
         WriteAcknowledged,
                      Verify, Crash, LoseLocks
  <2> QED BY <1>4, <1>5, <1>6, <2>1, <2>2 DEF WorkerStep
<1>7. CASE ~(\E w \in Workers : WorkerStep(w))
  BY <1>1, <1>7 DEF Next, vars, Payment, Repayment, InitiatePayment,
       ReverseLastPayment, Marks, OperatorLooks, OperatorReads, Provider, Midnight
<1> QED BY <1>6, <1>7

(* The headroom is read: the reading counts what was raised before.        *)
LEMMA SharingReads ==
    ASSUME Whole, Whole', RowsStay, SharingParts, ReadFirst, "headroom" \notin upset',
           NEW w \in Workers, FinishScan(w), snapshot[worker[w].today] = -1
    PROVE  SharingParts'
<1>0. /\ Inv /\ Linked(w) /\ worker[w].today \in 0 .. LastDay /\ ~At(w, AtWork)
      /\ UNCHANGED <<op, held, wire, mandate, allocated, day>>
  BY LinkedFacts, Amounts DEF FinishScan, ledgerVars, At, AtWork
<1>d. PICK d \in 0 .. LastDay : worker[w].today = d
  BY <1>0
<1>1. PICK live \in 0 .. Headroom : live = Affordable /\ snapshot' = [snapshot EXCEPT ![d] = live]
  BY <1>d DEF FinishScan
<1>2. /\ \A c \in 0 .. LastDay : c # d => snapshot'[c] = snapshot[c]
      /\ snapshot'[d] = live /\ snapshot[d] = -1
  BY <1>0, <1>1, <1>d DEF Inv, LoansOK
<1>3. /\ \A v \in Workers \ {w} : ~(At(v, AtWork) /\ worker[v].task = "topup")
      /\ \A o \in Ops : wire[o] # "sent"
  BY <1>2, <1>d DEF FinishScan, Noting, Happened
<1>4. Only(w) /\ ~At(w, AtWork)' /\ ~Writes(w)'
  <2>1. Becomes(w, "offered") \/ Rests(w)
    BY DEF FinishScan
  <2>2. CASE Becomes(w, "offered")
    BY <1>0, <2>2, StageEffect DEF StandsAt, Writes, At, AtWork
  <2>3. CASE Rests(w)
    BY <1>0, <2>3, RestEffect DEF RestsNow, Writes, At, AtWork
  <2> QED BY <2>1, <2>2, <2>3
<1>5. \A v \in Workers : ~TopUp(v)'
  BY <1>3, <1>4 DEF Only, TopUp, At
<1>6. \A l \in Loans : ~Open(l)'
  BY <1>5 DEF Open
<1>7. Mandates' /\ Payments'
  <2>1. Grows
    BY <1>0, Amounts DEF Grows
  <2>2. MandatesGoOn
    BY <1>0 DEF MandatesGoOn
  <2>3. \A v \in Workers : PaymentGoesOn(v)
    BY <1>4 DEF Only, PaymentGoesOn, Writes, At
  <2> QED BY <2>1, <2>2, <2>3, MandatesStay, PaymentsStay DEF SharingParts
<1>8. PICK e, g, base : Shared(e, g, base)
  BY DEF SharingParts
<1>9. e \in 0 .. day /\ e \in 0 .. LastDay /\ g \in Nat /\ base \in [Loans -> Nat]
      /\ d <= day /\ day \in 0 .. LastDay /\ LastDay \in Nat
  BY <1>0, <1>d, <1>8, Amounts DEF Shared, Since, Linked
<1>10. \A l \in Loans, c \in 0 .. LastDay : held[l].amount \in Nat /\ allocated[l][c] \in Nat
  BY <1>0, Amounts
<1>11. \A c \in 0 .. LastDay : Consumed(c)' = Consumed(c)
  BY <1>0 DEF Consumed
<1>12. \A o \in Ops : wire'[o] # "sent"
  BY <1>0, <1>3
<1>13. CASE d < e
  <2>1. Since(e, g, base)'
    <3>1. snapshot'[e] <= g /\ Consumed(e)' <= g
      BY <1>2, <1>8, <1>9, <1>11, <1>13 DEF Shared, Since
    <3>2. \A c \in 0 .. LastDay : c > e => snapshot'[c] = -1
      BY <1>2, <1>8, <1>9, <1>13 DEF Shared, Since
    <3>3. SumFunctionOnSet([l \in Loans |-> base[l] - InitialTerms.amount], Loans) + g <= Headroom
      BY <1>8 DEF Shared, Since
    <3> QED BY <1>0, <1>9, <3>1, <3>2, <3>3 DEF Since
  <2>2. TopUpsOf(e, base)'
    BY <1>5 DEF TopUpsOf
  <2>3. ASSUME NEW l \in Loans PROVE held'[l].amount <= Cap(l, e, base)'
    <3>1. held[l].amount \in Nat /\ allocated[l][e] \in Nat /\ base[l] \in Nat
      BY <1>9, <1>10
    <3>2. held[l].amount <= base[l] + allocated[l][e]
      BY <1>8, <3>1 DEF Shared, Within, Cap
    <3>3. Cap(l, e, base)' = base[l] + allocated[l][e]
      BY <1>0, <1>6 DEF Cap
    <3> QED BY <1>0, <3>2, <3>3
  <2>4. Within(e, base)'
    BY <1>12, <2>3 DEF Within
  <2> QED BY <1>7, <2>1, <2>2, <2>4 DEF SharingParts, Shared
<1>14. CASE ~(d < e)
  <2>0. PICK b \in [Loans -> Nat] : \A l \in Loans : b[l] = held[l].amount
    <3>1. [l \in Loans |-> held[l].amount] \in [Loans -> Nat]
      BY <1>10
    <3> QED BY <3>1
  <2>r. Raised = SumFunctionOnSet([l \in Loans |-> b[l] - InitialTerms.amount], Loans)
    <3>1. [l \in Loans |-> b[l] - InitialTerms.amount] = [l \in Loans |-> held[l].amount - InitialTerms.amount]
      BY <2>0
    <3> QED BY <3>1 DEF Raised
  <2>1. Since(d, live, b)'
    <3>1. Consumed(d) = 0
      <4> DEFINE a == [l \in Loans |-> allocated[l][d]]
      <4>1. \A l \in Loans : a[l] = 0
        BY <1>2 DEF ReadFirst
      <4> HIDE DEF a
      <4>2. SumFunctionOnSet(a, Loans) = 0
        BY <4>1, LoansAssumption, SumZero DEF Loans
      <4> QED BY <4>2 DEF Consumed, a
    <3>2. live \in Nat /\ live <= live /\ 0 <= live
      BY AmountsAssumption
    <3>3. \A c \in 0 .. LastDay : c > d => snapshot'[c] = -1
      <4> SUFFICES ASSUME NEW c \in 0 .. LastDay, c > d PROVE snapshot'[c] = -1
        OBVIOUS
      <4>1. c > e /\ c # d
        BY <1>9, <1>14
      <4> QED BY <1>2, <1>8, <4>1 DEF Shared, Since
    <3>4. SumFunctionOnSet([l \in Loans |-> b[l] - InitialTerms.amount], Loans) + live <= Headroom
      <4>1. Raised \in Int /\ Raised <= Headroom /\ Headroom \in Nat
        BY <1>0, <1>8, SharedIsEnough, Amounts
      <4>2. live = IF Headroom - Raised < 0 THEN 0
                   ELSE IF Headroom < Headroom - Raised THEN Headroom ELSE Headroom - Raised
        BY <1>1 DEF Affordable, Smallest
      <4>3. Raised + live <= Headroom
        BY <3>2, <4>1, <4>2
      <4> QED BY <2>r, <4>3
    <3>5. d \in 0 .. day
      BY <1>9
    <3> QED BY <1>0, <1>2, <1>11, <2>0, <3>1, <3>2, <3>3, <3>4, <3>5 DEF Since
  <2>2. TopUpsOf(d, b)'
    BY <1>5 DEF TopUpsOf
  <2>3. ASSUME NEW l \in Loans PROVE held'[l].amount <= Cap(l, d, b)'
    <3>1. held[l].amount \in Nat /\ allocated[l][d] \in Nat /\ b[l] = held[l].amount
      BY <1>10, <2>0
    <3>2. Cap(l, d, b)' = b[l] + allocated[l][d]
      BY <1>0, <1>6 DEF Cap
    <3> QED BY <1>0, <3>1, <3>2
  <2>4. Within(d, b)'
    BY <1>12, <2>3 DEF Within
  <2>5. Shared(d, live, b)'
    BY <2>1, <2>2, <2>4 DEF Shared
  <2>6. \E ee, gg, bb : Shared(ee, gg, bb)'
    BY <2>5
  <2> QED BY <1>7, <2>6 DEF SharingParts
<1> QED BY <1>13, <1>14

(* What a top-up takes of the headroom that is left.                       *)
LEMMA TakesWhatIsLeft ==
    ASSUME Inv, NEW l \in Loans, NEW h \in Nat, TopsUp(l, h)
    PROVE  /\ Proposed(l, h) \in Nat /\ mandate[l].amount \in Nat
           /\ Proposed(l, h) - mandate[l].amount \in 1 .. h
<1>1. /\ mandate[l].amount \in Nat /\ balance[l] \in Nat /\ Maximum \in Nat
  BY Amounts, AmountsAssumption DEF Inv, LoansOK
<1>2. Proposed(l, h) > mandate[l].amount
  BY DEF TopsUp
<1>3. Proposed(l, h) \in Nat /\ Proposed(l, h) <= mandate[l].amount + h
  BY <1>1 DEF Proposed, Smallest
<1>4. \A p, m, x \in Nat : p > m /\ p <= m + x => p - m \in 1 .. x
  OBVIOUS
<1> QED BY <1>1, <1>2, <1>3, <1>4

LEMMA SharingStartTopUp ==
    ASSUME Whole, Whole', RowsStay, SharingParts, "headroom" \notin upset', NEW w \in Workers,
           StartTopUp(w)
    PROVE  SharingParts'
<1>0. /\ Inv /\ Linked(w) /\ worker[w].today \in 0 .. LastDay /\ worker[w].loan \in Loans
      /\ ~At(w, AtWork)
      /\ UNCHANGED <<op, held, wire, mandate, snapshot, day>>
  BY LinkedFacts, Amounts DEF StartTopUp, ledgerVars, At, AtWork, Inv, WorkersOK,
       Holding
<1>l. PICK l \in Loans, d \in 0 .. LastDay : worker[w].loan = l /\ worker[w].today = d
  BY <1>0
<1>8. PICK e, g, base : Shared(e, g, base)
  BY DEF SharingParts
<1>9. e \in 0 .. day /\ e \in 0 .. LastDay /\ g \in Nat /\ base \in [Loans -> Nat]
      /\ d <= day /\ day \in 0 .. LastDay /\ LastDay \in Nat
  BY <1>0, <1>l, <1>8, Amounts DEF Shared, Since, Linked
<1>1. PICK left \in 1 .. Headroom : left = Remaining(d) /\ Reserve(w, l, d, left)
  BY <1>l DEF StartTopUp
<1>2. allocated[l][d] = 0 /\ d = day
  <2>1. ~(allocated[l][d] > 0 \/ d < day)
    BY <1>l DEF StartTopUp, Noting, Happened
  <2>2. allocated[l][d] \in Nat
    BY <1>0, Amounts
  <2> QED BY <1>9, <2>1, <2>2
<1>3. /\ Consumed(d) \in Nat /\ snapshot[d] \in Int /\ left \in Nat /\ left >= 1
      /\ snapshot[d] = left + Consumed(d)
  <2>1. Consumed(d) \in Nat /\ snapshot[d] \in Int
    BY <1>0, ConsumedSum, Amounts
  <2>2. left \in Nat /\ left >= 1 /\ left = snapshot[d] - Consumed(d)
    BY <1>1, AmountsAssumption DEF Remaining
  <2> QED BY <2>1, <2>2
<1>4. d = e
  <2>1. ~(d > e)
    BY <1>3, <1>8 DEF Shared, Since
  <2> QED BY <1>2, <1>9, <2>1
<1> DEFINE proposed == Proposed(l, left)
<1>t. PICK take \in Nat, t \in Terms \cup {[amount |-> proposed, principal |-> balance[l]]} :
        /\ t = [amount |-> proposed, principal |-> balance[l]]
        /\ take = proposed - mandate[l].amount
  <2>1. proposed - mandate[l].amount \in Nat
    BY <1>0, <1>1, <1>3, TakesWhatIsLeft DEF Reserve
  <2> QED BY <2>1
<1>5. /\ take >= 1 /\ take <= left /\ mandate[l].amount \in Nat
      /\ t.amount = mandate[l].amount + take
  <2>1. /\ proposed \in Nat /\ mandate[l].amount \in Nat
        /\ proposed - mandate[l].amount \in 1 .. left
    BY <1>0, <1>1, <1>3, TakesWhatIsLeft DEF Reserve
  <2>2. t.amount = proposed /\ take = proposed - mandate[l].amount
    BY <1>t
  <2> HIDE DEF proposed
  <2> QED BY <1>3, <2>1, <2>2
<1>6. /\ Only(w) /\ StartsAt(w, "decided", "topup", l, t, d)
      /\ allocated' = [allocated EXCEPT ![l][d] = take]
  <2>1. /\ Starts(w, "decided", "topup", l, t, d)
        /\ allocated' = [allocated EXCEPT ![l][d] = take]
    BY <1>1, <1>t DEF Reserve
  <2> HIDE DEF proposed
  <2> QED BY <1>0, <2>1, StartEffect
<1> HIDE DEF proposed
<1>7. /\ allocated'[l][e] = take
      /\ \A k \in Loans, c \in 0 .. LastDay : k # l => allocated'[k][c] = allocated[k][c]
      /\ allocated[l][e] = 0
  BY <1>0, <1>2, <1>4, <1>6 DEF Inv, LoansOK
<1>10. \A k \in Loans, c \in 0 .. LastDay : held[k].amount \in Nat /\ allocated[k][c] \in Nat
  BY <1>0, Amounts
<1>11. Consumed(e)' <= g
  <2> DEFINE a == [k \in Loans |-> allocated[k][e]]
             b == [k \in Loans |-> allocated'[k][e]]
  <2>1. /\ \A k \in Loans : a[k] \in Int /\ b[k] \in Int
        /\ \A k \in Loans \ {l} : b[k] = a[k]
        /\ a[l] = 0 /\ b[l] = take
    <3>1. \A k \in Loans : allocated[k][e] \in Int
      BY <1>9, <1>10
    <3>2. \A k \in Loans \ {l} : allocated'[k][e] = allocated[k][e]
      BY <1>7, <1>9
    <3>3. take \in Int
      OBVIOUS
    <3> QED BY <1>7, <3>1, <3>2, <3>3
  <2>2. Consumed(e) = SumFunctionOnSet(a, Loans) /\ Consumed(e)' = SumFunctionOnSet(b, Loans)
    BY DEF Consumed, Loans
  <2> HIDE DEF a, b
  <2>3. IsFiniteSet(Loans)
    BY LoansAssumption DEF Loans
  <2>4. SumFunctionOnSet(b, Loans) = SumFunctionOnSet(a, Loans) + (b[l] - a[l])
    BY <2>1, <2>3, SumChanges
  <2>5. snapshot[e] <= g
    BY <1>8 DEF Shared, Since
  <2>6. Consumed(e)' = Consumed(e) + take
    BY <1>3, <1>4, <2>1, <2>2, <2>4
  <2> QED BY <1>3, <1>4, <1>5, <1>9, <2>5, <2>6
<1>12. Since(e, g, base)'
  BY <1>0, <1>8, <1>9, <1>11 DEF Shared, Since
<1>13. /\ TopUp(w)' /\ worker'[w].loan = l /\ worker'[w].today = e /\ worker'[w].terms = t
       /\ Unapplied(w)' /\ ~Writes(w)' /\ ~TopUp(w)
  BY <1>0, <1>4, <1>6 DEF StartsAt, TopUp, Unapplied, Writes, At, AtWork
<1>14. ASSUME NEW v \in Workers, v # w, TopUp(v)'
       PROVE  TopUp(v) /\ worker'[v] = worker[v] /\ worker[v].loan # l /\ worker[v].loan \in Loans
  <2>1. TopUp(v) /\ worker'[v] = worker[v]
    BY <1>6, <1>14 DEF Only, TopUp, At
  <2>2. allocated[worker[v].loan][e] >= 1
    BY <1>8, <2>1 DEF Shared, TopUpsOf
  <2>3. worker[v].loan \in Loans
    BY <2>1, LinkedFacts DEF TopUp
  <2> QED BY <1>7, <2>1, <2>2, <2>3
<1>15. held[l].amount <= base[l]
  <2>1. held[l].amount <= Cap(l, e, base)
    BY <1>8 DEF Shared, Within
  <2>2. base[l] + 0 = base[l]
    BY <1>9
  <2> QED BY <1>7, <2>1, <2>2 DEF Cap
<1>16. TopUpsOf(e, base)'
  <2>1. held[l] = Settled \/ t.amount <= base[l] + take
    <3>1. held[l] = Settled \/ mandate[l].amount <= held[l].amount
      BY DEF SharingParts, Mandates, Over
    <3>2. held[l].amount \in Nat /\ base[l] \in Nat
      BY <1>9, <1>10
    <3>3. \A m, x, b, k \in Nat : m <= x /\ x <= b => m + k <= b + k
      OBVIOUS
    <3> QED BY <1>5, <1>15, <3>1, <3>2, <3>3
  <2>2. ASSUME NEW v \in Workers, TopUp(v)'
        PROVE  /\ worker'[v].today = e /\ allocated'[worker'[v].loan][e] >= 1
               /\ \/ held'[worker'[v].loan] = Settled
                  \/ worker'[v].terms.amount <= base[worker'[v].loan] + allocated'[worker'[v].loan][e]
    <3>1. CASE v = w
      BY <1>0, <1>5, <1>7, <1>13, <2>1, <3>1
    <3>2. CASE v # w
      <4>1. TopUp(v) /\ worker'[v] = worker[v] /\ worker[v].loan # l /\ worker[v].loan \in Loans
        BY <1>14, <2>2, <3>2
      <4>2. allocated'[worker[v].loan][e] = allocated[worker[v].loan][e]
        BY <1>7, <1>9, <4>1
      <4> QED BY <1>0, <1>8, <4>1, <4>2 DEF Shared, TopUpsOf
    <3> QED BY <3>1, <3>2
  <2>3. \A u, v \in Workers : u # v /\ TopUp(u)' /\ TopUp(v)' => worker'[u].loan # worker'[v].loan
    BY <1>8, <1>13, <1>14 DEF Shared, TopUpsOf
  <2> QED BY <2>2, <2>3 DEF TopUpsOf
<1>17. \A k \in Loans : Cap(k, e, base)' = Cap(k, e, base)
  <2> SUFFICES ASSUME NEW k \in Loans PROVE Cap(k, e, base)' = Cap(k, e, base)
    OBVIOUS
  <2>1. CASE k = l
    <3>1. Open(l)'
      BY <1>13 DEF Open
    <3>2. base[l] \in Nat /\ base[l] + 0 = base[l]
      BY <1>9
    <3> QED BY <1>7, <2>1, <3>1, <3>2 DEF Cap
  <2>2. CASE k # l
    <3>1. Open(k)' <=> Open(k)
      <4>1. \A v \in Workers \ {w} : worker'[v] = worker[v]
        BY <1>6 DEF Only
      <4> QED BY <1>0, <1>13, <2>2, <4>1 DEF Open, TopUp, Unapplied, At
    <3> QED BY <1>7, <1>9, <2>2, <3>1 DEF Cap
  <2> QED BY <2>1, <2>2
<1>18. ASSUME NEW o \in Ops, wire'[o] = "sent" PROVE SentWithin(o, e, base)'
  <2>1. wire[o] = "sent" /\ SentWithin(o, e, base)
    BY <1>0, <1>8, <1>18 DEF Shared, Within
  <2>2. op[o].deduction \in Loans /\ LedgerInv
    BY <2>1 DEF Whole, FullInv, LedgerInv, RowsBegin, Loans
  <2>3. PICK k \in Loans : k = op[o].deduction
    BY <2>2
  <2>4. ASSUME held'[k] = Settled \/ op'[o].terms.amount <= Cap(k, e, base)'
        PROVE  SentWithin(o, e, base)'
    BY <1>0, <2>3, <2>4 DEF SentWithin, Cap, Open
  <2>5. CASE held[k] = Settled \/ op[o].terms.amount <= Cap(k, e, base)
    BY <1>0, <1>17, <2>4, <2>5
  <2>6. CASE \E v \in Workers : TopUp(v) /\ At(v, {"calling"}) /\ worker[v].op = o
    <3>1. PICK v \in Workers : TopUp(v) /\ At(v, {"calling"}) /\ worker[v].op = o
      BY <2>6
    <3>2. worker'[v] = worker[v]
      BY <1>6, <1>13, <3>1 DEF Only
    <3>3. TopUp(v)' /\ At(v, {"calling"})' /\ worker'[v].op = o
      BY <3>1, <3>2 DEF TopUp, At
    <3> QED BY <3>3 DEF SentWithin
  <2> QED BY <2>1, <2>3, <2>5, <2>6 DEF SentWithin, Cap
<1>19. Within(e, base)'
  <2>1. \A k \in Loans : held'[k].amount <= Cap(k, e, base)'
    BY <1>0, <1>8, <1>17 DEF Shared, Within
  <2> QED BY <1>18, <2>1 DEF Within
<1>20. Mandates' /\ Payments'
  <2>1. Grows
    BY <1>0, Amounts DEF Grows
  <2>2. MandatesGoOn
    BY <1>0 DEF MandatesGoOn
  <2>3. \A v \in Workers : PaymentGoesOn(v)
    BY <1>6, <1>13 DEF Only, PaymentGoesOn, Writes, At
  <2> QED BY <2>1, <2>2, <2>3, MandatesStay, PaymentsStay DEF SharingParts
<1>21. Shared(e, g, base)'
  BY <1>12, <1>16, <1>19 DEF Shared
<1> QED BY <1>20, <1>21 DEF SharingParts

-----------------------------------------------------------------------------
LEMMA SharingStep ==
    ASSUME Whole, Whole', RowsStay, ReadFirst, Sharing, [Next]_vars PROVE Sharing'
<1> SUFFICES ASSUME "headroom" \notin upset' PROVE SharingParts'
  BY DEF Sharing
<1>1. SharingParts
  BY UpsetGrows DEF Sharing
<1>2. ASSUME NEW w \in Workers, FinishScan(w) PROVE SharingParts'
  <2>1. CASE snapshot[worker[w].today] = -1
    BY <1>1, <1>2, <2>1, SharingReads
  <2>2. CASE snapshot[worker[w].today] # -1
    BY <1>1, <1>2, <2>2, SharingScans
  <2> QED BY <2>1, <2>2
<1>3. ASSUME NEW w \in Workers, WorkerStep(w) PROVE SharingParts'
  BY <1>1, <1>2, <1>3, SharingStartPayment, SharingScans, SharingRests,
     SharingStartTopUp,
     SharingBeginWrite, SharingAnswered, SharingRecord
  DEF WorkerStep
<1>4. ASSUME NEW o \in Ops, Provider(o) PROVE SharingParts'
  BY <1>1, <1>4, SharingProvider
<1> QED BY <1>1, <1>3, <1>4, SharingOthers DEF Next

LEMMA SharingInit == Init => ReadFirst /\ Sharing
<1> SUFFICES ASSUME Init PROVE ReadFirst /\ SharingParts
  BY DEF Sharing
<1>1. Inv
  BY InitInv
<1>2. /\ \A w \in Workers : ~At(w, AtWork) /\ ~At(w, {"verified"})
      /\ \A o \in Ops : wire[o] = "none"
      /\ \A l \in Loans, d \in 0 .. LastDay : allocated[l][d] = 0
      /\ \A l \in Loans : held[l] = InitialTerms /\ mandate[l].amount = InitialTerms.amount
      /\ \A d \in 0 .. LastDay : snapshot[d] = -1
      /\ day = 0
  BY DEF Init, LedgerInit, Idle, At, AtWork, Loans
<1>3. InitialTerms.amount = 1 /\ Headroom \in Nat /\ LastDay \in Nat /\ 0 \in 0 .. LastDay
  BY <1>1, Amounts
<1>4. ReadFirst
  BY <1>2 DEF ReadFirst
<1>5. Mandates /\ Payments
  BY <1>2, <1>3 DEF Mandates, Payments, Over
<1>b. PICK base \in [Loans -> Nat] : \A l \in Loans : base[l] = 1
  <2>1. [l \in Loans |-> 1] \in [Loans -> Nat]
    OBVIOUS
  <2> QED BY <2>1
<1>6. Since(0, 0, base)
  <2>1. SumFunctionOnSet([l \in Loans |-> base[l] - InitialTerms.amount], Loans) = 0
    <3> DEFINE z == [l \in Loans |-> base[l] - InitialTerms.amount]
    <3>1. \A l \in Loans : z[l] = 0
      BY <1>b, <1>3
    <3> HIDE DEF z
    <3>2. SumFunctionOnSet(z, Loans) = 0
      BY <3>1, LoansAssumption, SumZero DEF Loans
    <3> QED BY <3>2 DEF z
  <2>2. Consumed(0) = 0
    <3> DEFINE z == [l \in Loans |-> allocated[l][0]]
    <3>1. \A l \in Loans : z[l] = 0
      BY <1>2, <1>3
    <3> HIDE DEF z
    <3>2. SumFunctionOnSet(z, Loans) = 0
      BY <3>1, LoansAssumption, SumZero DEF Loans
    <3> QED BY <3>2 DEF Consumed, z
  <2> QED BY <1>2, <1>3, <2>1, <2>2 DEF Since
<1>7. TopUpsOf(0, base)
  BY <1>2 DEF TopUpsOf, TopUp
<1>8. Within(0, base)
  <2>1. \A l \in Loans : held[l].amount <= Cap(l, 0, base)
    BY <1>2, <1>3, <1>b DEF Cap
  <2> QED BY <1>2, <2>1 DEF Within
<1>9. Shared(0, 0, base)
  BY <1>6, <1>7, <1>8 DEF Shared
<1> QED BY <1>4, <1>5, <1>9 DEF SharingParts

(* HeadroomIsShared, of every number of loans, workers and operations: the *)
(* deductions never take more than the provider said could be afforded.    *)
THEOREM HeadroomIsNotExceeded == Spec => []HeadroomIsShared
<1>1. Whole /\ Sharing => HeadroomIsShared
  <2> SUFFICES ASSUME Whole, SharingParts PROVE Raised <= Headroom
    BY DEF Sharing, HeadroomIsShared
  <2>1. Inv
    BY DEF Whole, FullInv
  <2> QED BY <2>1, SharedIsEnough DEF SharingParts
<1>2. Init => Whole /\ ReadFirst /\ Sharing
  BY WholeInit, SharingInit
<1>3. Whole /\ ReadFirst /\ Sharing /\ [Next]_vars => (Whole /\ ReadFirst /\ Sharing)'
  <2> SUFFICES ASSUME Whole, ReadFirst, Sharing, [Next]_vars
               PROVE  Whole' /\ ReadFirst' /\ Sharing'
    OBVIOUS
  <2>1. Whole' /\ RowsStay
    BY WholeSteps
  <2> QED BY <2>1, ReadFirstStays, SharingStep
<1> QED BY <1>1, <1>2, <1>3, PTL DEF Spec
=============================================================================
