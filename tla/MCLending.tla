------------------------------ MODULE MCLending ------------------------------
(***************************************************************************)
(* Small instances of Lending for TLC.                                     *)
(***************************************************************************)
EXTENDS Lending, TLC

CONSTANTS r1, r2, t1, none

OneRequest  == {r1}
TwoRequests == {r1, r2}
Payments    == {t1}

RequestSymmetry == Permutations(TwoRequests)

\* Reviews a lender makes of a fresh application.
Reviews == {"UNDER_REVIEW", "APPROVED", "REJECTED"}

\* The lifecycle as the clients drive it, without PATCH and without blockchain.
LifecycleOps ==
  {"createLoan", "create", "signContract", "signAndDisburse", "disburse",
   "generateContractPdf", "remove", "reportContract",
   "recordTransaction", "updateStatus", "removeLoan"}

ApprovalOps == {"createLoan", "review", "create", "signContract",
                "generateContractPdf", "signAndDisburse", "reportContract"}

\* Everything that calls the ContractRegistry.
ChainOps == {"createLoan", "create", "signContract", "generateContractPdf",
             "update", "remove", "removeLoan"}

SerialOps == LifecycleOps \union ChainOps \union {"review"}
=============================================================================
