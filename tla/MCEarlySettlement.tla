-------------------------- MODULE MCEarlySettlement --------------------------
(* Two installments of two, the second not yet due; a settlement rebates   *)
(* one or two, by the date the borrower asks it for.                       *)
EXTENDS EarlySettlement
MCInstallments == {1, 2}
MCDue == [i \in MCInstallments |-> 2]
MCFuture == {2}
MCRevised == {2, 3}
=============================================================================
