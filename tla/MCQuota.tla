------------------------------- MODULE MCQuota -------------------------------
(***************************************************************************)
(* A small instance of SubscriptionQuota for TLC: a plan with a small      *)
(* limit, and one without, of which no charges are followed.               *)
(***************************************************************************)
EXTENDS SubscriptionQuota, TLC

CONSTANTS r1, r2, basic, flat, none

TwoRequests == {r1, r2}
RequestSymmetry == Permutations(TwoRequests)

TwoPlans == {basic, flat}
Limits == (basic :> 1) @@ (flat :> 0)
Charges == (basic :> 3) @@ (flat :> 0)
=============================================================================
