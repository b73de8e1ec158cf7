---------------------------- MODULE MCRepayments ----------------------------
(***************************************************************************)
(* Small instances of Repayments for TLC: two installments of 2, and       *)
(* payments that cover an installment, part of one, or both.              *)
(***************************************************************************)
EXTENDS Repayments, TLC

CONSTANTS r1, r2, full, part, both, none

TwoRequests == {r1, r2}
RequestSymmetry == Permutations(TwoRequests)

Installments == {1, 2}
DueOf == [s \in Installments |-> 2]

Amounts    == (full :> 2) @@ (part :> 1) @@ (both :> 4)
Selections == (full :> {1}) @@ (part :> {1}) @@ (both :> {1, 2})

Cancelling == {"CANCELLED"}

Payments == {full, part, both}
=============================================================================
