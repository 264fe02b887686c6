--------------------------- MODULE MCCdasAutopilot ---------------------------
(* An employee with two loans.                                             *)
EXTENDS CdasAutopilot, TLC
CONSTANTS l1, l2, w1, w2
MCTerms == [amount : 0 .. Maximum, principal : 0 .. InitialBalance]
MCInitialTerms == [amount |-> 1, principal |-> InitialBalance]
MCSettled == [amount |-> 0, principal |-> 0]
Symmetry == Permutations(Deductions) \cup Permutations(Workers)
=============================================================================
