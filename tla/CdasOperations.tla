--------------------------- MODULE CdasOperations ---------------------------
(***************************************************************************)
(* The ledger of writes to the CDAS payroll provider                       *)
(* (services/cdas_operation_ledger.py, table cdas_provider_operations).    *)
(*                                                                         *)
(* A write is committed before the provider is called, its outcome is      *)
(* committed after the answer, and an outcome that is not known is settled *)
(* by reading the provider: by the caller at once, or later by an          *)
(* operator.  A reader loads the row, waits for the provider and then      *)
(* writes; the row may have moved on meanwhile.                            *)
(*                                                                         *)
(* A write asks for the terms of one deduction: its monthly amount and its *)
(* principal.  Settling a deduction is asking for the terms Settled.       *)
(***************************************************************************)
EXTENDS Integers

CONSTANTS
    Ops,          \* cdas_provider_operations.id, in the order of created_at
    Deductions,   \* DeductionID, one per linked loan
    NoDeduction,  \* of a row that does not exist yet
    Terms,        \* what a write may ask of a deduction
    InitialTerms, \* the terms a deduction was registered with
    Settled,      \* the terms of a settled deduction
    Readers,      \* the ways to reconcile an operation
    Caller,       \* the reader that made the write
    LastDay       \* bound on the days of a behaviour

ASSUME OpsAssumption == Ops \subseteq Nat /\ LastDay \in Nat
ASSUME TermsAssumption == InitialTerms \in Terms /\ Settled \in Terms
ASSUME ReadersAssumption == Caller \in Readers

VARIABLES
    op,    \* rows: state and fingerprint (deduction, terms, effective date)
    wire,  \* external: what became of the request the row stands for
    held,  \* external: the provider's terms per deduction
    view,  \* the state a reader loaded before it asked the provider
    day    \* the effective date of a write made now

ledgerVars == <<op, wire, held, view, day>>

Unresolved == {"prepared", "submitting", "acknowledged", "unknown_provider_state",
               "requires_reconciliation"}
Reconcilable == {"acknowledged", "unknown_provider_state", "requires_reconciliation"}
States == Unresolved \cup {"absent", "rejected", "confirmed"}

(* The type invariant.                                                     *)
LedgerTypeOK ==
    /\ op \in [Ops -> [state : States, deduction : Deductions \cup {NoDeduction}, terms : Terms,
                       date : 0 .. LastDay]]
    /\ wire \in [Ops -> {"none", "sent", "applied", "refused"}]
    /\ held \in [Deductions -> Terms]
    /\ view \in [Ops -> [Readers -> Reconcilable \cup {"none"}]]
    /\ day \in 0 .. LastDay

NoRow == [state |-> "absent", deduction |-> NoDeduction, terms |-> Settled, date |-> 0]

LedgerInit ==
    /\ op = [o \in Ops |-> NoRow]
    /\ wire = [o \in Ops |-> "none"]
    /\ held = [d \in Deductions |-> InitialTerms]
    /\ view = [o \in Ops |-> [r \in Readers |-> "none"]]
    /\ day = 0

SameWrite(o, d, t, date) ==
    op[o].deduction = d /\ op[o].terms = t /\ op[o].date = date

(* The unique index: no other unresolved row has this fingerprint.         *)
FingerprintFree(except, d, t, date) ==
    \A o \in Ops \ except : op[o].state \in Unresolved => ~SameWrite(o, d, t, date)

SetState(o, state) == op' = [op EXCEPT ![o].state = state]

-----------------------------------------------------------------------------
(* The caller: execute_provider_operation.                                 *)

(* begin_provider_operation and mark_operation_submitting: the row is      *)
(* committed twice (in between the process may stop) and the call leaves,  *)
(* or it never does.  Rows are created in the order of their ids.          *)
Begin(o, d, t, state) ==
    /\ op[o].state = "absent"
    /\ \A earlier \in Ops : earlier < o => op[earlier].state # "absent"
    /\ FingerprintFree({}, d, t, day)
    /\ op' = [op EXCEPT ![o] = [state |-> state, deduction |-> d, terms |-> t, date |-> day]]
    /\ \E w \in {"none", "sent"} :
         /\ state = "prepared" => w = "none"
         /\ wire' = [wire EXCEPT ![o] = w]
    /\ UNCHANGED <<held, view, day>>

(* A usable answer: the caller goes on to read the provider back.          *)
Acknowledge(o) ==
    /\ op[o].state = "submitting" /\ wire[o] = "applied"
    /\ SetState(o, "acknowledged")
    /\ view' = [view EXCEPT ![o][Caller] = "acknowledged"]
    /\ UNCHANGED <<wire, held, day>>

(* An answer that is an error, or an error before the call left.           *)
Reject(o) ==
    /\ op[o].state = "submitting" /\ wire[o] \in {"none", "refused"}
    /\ SetState(o, "rejected")
    /\ UNCHANGED <<wire, held, view, day>>

(* Mutant: an error without an answer is taken for a refusal.              *)
LoseAnswer_AsRejection(o) ==
    /\ op[o].state = "submitting"
    /\ SetState(o, "rejected")
    /\ UNCHANGED <<wire, held, view, day>>

(* is_ambiguous_write_error: no answer, or none that can be believed.      *)
LoseAnswer(o) ==
    /\ op[o].state = "submitting"
    /\ SetState(o, "unknown_provider_state")
    /\ UNCHANGED <<wire, held, view, day>>

-----------------------------------------------------------------------------
(* Reconciliation: reconcile_provider_operation.                           *)

(* An operator's request loads the row.                                    *)
Look(o, r) ==
    /\ view[o][r] = "none"
    /\ op[o].state \in Reconcilable
    /\ view' = [view EXCEPT ![o][r] = op[o].state]
    /\ UNCHANGED <<op, wire, held, day>>

(* What the reader commits: a column set to the value it was loaded with   *)
(* is not written, and a second unresolved row of a fingerprint is refused.*)
SecondUnresolved(o, r, state) ==
    /\ state \in Unresolved /\ view[o][r] # state
    /\ ~FingerprintFree({o}, op[o].deduction, op[o].terms, op[o].date)

Write(o, r, state) ==
    IF view[o][r] = state \/ SecondUnresolved(o, r, state)
    THEN UNCHANGED op ELSE SetState(o, state)

(* Mutant: the deduction is found, its terms are not compared.             *)
ReadBack_IdentityOnly(o, r) ==
    /\ view[o][r] # "none"
    /\ Write(o, r, "confirmed")
    /\ view' = [view EXCEPT ![o][r] = "none"]
    /\ UNCHANGED <<wire, held, day>>

(* The provider shows the terms that were asked for.                       *)
ReadBack(o, r) ==
    /\ view[o][r] # "none"
    /\ held[op[o].deduction] = op[o].terms
    /\ Write(o, r, "confirmed")
    /\ view' = [view EXCEPT ![o][r] = "none"]
    /\ UNCHANGED <<wire, held, day>>

(* Mutant: what the provider does not show yet was refused.                *)
ReadDiffers_AsRejection(o, r) ==
    /\ view[o][r] # "none"
    /\ Write(o, r, "rejected")
    /\ view' = [view EXCEPT ![o][r] = "none"]
    /\ UNCHANGED <<wire, held, day>>

(* It shows others, shows them late, or the read fails.                    *)
ReadDiffers(o, r) ==
    /\ view[o][r] # "none"
    /\ Write(o, r, "requires_reconciliation")
    /\ view' = [view EXCEPT ![o][r] = "none"]
    /\ UNCHANGED <<wire, held, day>>

(* The reader stops before it writes.                                      *)
StopReading(o, r) ==
    /\ view[o][r] # "none"
    /\ view' = [view EXCEPT ![o][r] = "none"]
    /\ UNCHANGED <<op, wire, held, day>>

-----------------------------------------------------------------------------
(* External: the provider and the calendar.                                *)

(* A settled deduction takes no new terms.                                 *)
ProviderApplies(o) ==
    /\ wire[o] = "sent"
    /\ held[op[o].deduction] # Settled
    /\ wire' = [wire EXCEPT ![o] = "applied"]
    /\ held' = [held EXCEPT ![op[o].deduction] = op[o].terms]
    /\ UNCHANGED <<op, view, day>>

ProviderRefuses(o) ==
    /\ wire[o] = "sent"
    /\ wire' = [wire EXCEPT ![o] = "refused"]
    /\ UNCHANGED <<op, held, view, day>>

NextDay ==
    /\ day < LastDay
    /\ day' = day + 1
    /\ UNCHANGED <<op, wire, held, view>>

OpStep(o) ==
    \/ \E d \in Deductions, t \in Terms, s \in {"prepared", "submitting"} : Begin(o, d, t, s)
    \/ Acknowledge(o) \/ Reject(o) \/ LoseAnswer(o)
    \/ \E r \in Readers : Look(o, r) \/ ReadBack(o, r) \/ ReadDiffers(o, r) \/ StopReading(o, r)
    \/ ProviderApplies(o) \/ ProviderRefuses(o)

LedgerNext == NextDay \/ \E o \in Ops : OpStep(o)

LedgerSpec == LedgerInit /\ [][LedgerNext]_ledgerVars

-----------------------------------------------------------------------------
(* Properties.                                                             *)

(* A write that was called refused never takes effect at the provider: an  *)
(* operator who repeats it on that word does not do it twice.              *)
RejectedIsNotApplied ==
    \A o \in Ops : op[o].state = "rejected" => wire[o] \in {"none", "refused"}

(* A confirmed write did reach the provider: its terms were applied, by    *)
(* this row or by one that asked for the same, or are those the deduction  *)
(* was registered with.                                                    *)
WasApplied(o) ==
    \/ op[o].terms = InitialTerms
    \/ \E p \in Ops : /\ wire[p] = "applied"
                      /\ op[p].deduction = op[o].deduction
                      /\ op[p].terms = op[o].terms
ConfirmedWasApplied == \A o \in Ops : op[o].state = "confirmed" => WasApplied(o)
=============================================================================
