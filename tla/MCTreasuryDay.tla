----------------------------- MODULE MCTreasuryDay -----------------------------
(* Amounts that tell the kinds of rows apart: every sum of at most one row *)
(* of each kind is different.                                              *)
EXTENDS TreasuryDay

MCAmount == [r \in Rows |-> CASE r \in Payments -> 2
                             [] r \in Expenses -> 1
                             [] r \in Funds -> 4
                             [] r \in Transfers -> 8]

(* One row, or a fund and a row of another kind.                           *)
MCMixes == {S \in SUBSET Rows :
               Cardinality(S) = 1 \/ (Cardinality(S) = 2 /\ S \cap Funds # {})}
=============================================================================
