----------------------------- MODULE MCOnboarding -----------------------------
(* Two handlers at a time, two users, two KYCs.                            *)
EXTENDS Onboarding, TLC

Symmetry == Permutations(Requests) \union Permutations(Users)
=============================================================================
