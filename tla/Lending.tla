------------------------------- MODULE Lending -------------------------------
(***************************************************************************)
(* The lending core: the contract and the loan handlers running together   *)
(* on the same rows, with crashes of the server process, and what must be  *)
(* true of the rows.                                                       *)
(***************************************************************************)
EXTENDS ContractHandlers, LoanHandlers

\* The Node process dies: every running handler is lost, no row is.
Crash ==
  /\ Crashes
  /\ \E r \in Requests : req[r].pc # "idle"
  /\ req' = [r \in Requests |-> Idle]
  /\ UNCHANGED <<loan, contract, dtx, settled, chain>>

Step(r) == ContractStep(r)

Next ==
  \/ \E r \in Requests : ContractCall(r) \/ LoanCall(r) \/ Step(r)
  \/ Crash

Spec == Init /\ [][Next]_vars

\* The event loop resumes every suspended handler: an await that settles is
\* run to the next one.
FairSpec == Spec /\ \A r \in Requests : WF_vars(Step(r))

-----------------------------------------------------------------------------
(* Safety, whatever the interleaving.                                      *)

\* The lender's signature is on the row only beside the borrower's, although
\* signContract and signAndDisburse write back a list of signatures they read
\* before other requests ran (contracts.service.ts:640, 766, 910).
BorrowerSignsFirst == "TENANT" \in contract.sigs => "BORROWER" \in contract.sigs

\* A row with status SIGNED carries both signatures: no handler restores
\* SIGNED from a stale snapshot over a list that lost one
\* (contracts.service.ts:750-755).
SignedByBoth == contract.status = "SIGNED" => contract.sigs = Signers

\* An ACTIVE contract has its payment schedules: ACTIVE is written by
\* activation, or restored by signContract from a snapshot taken after one
\* (contracts.service.ts:208-240, 755).
ActiveIsScheduled == contract.status = "ACTIVE" => contract.scheduled

\* The transaction named by disbursementInfo was, at some moment, a COMPLETED
\* transaction of this very contract, although the check, the write and the
\* transaction's own updates are separate (contracts.service.ts:180-206).
DisbursementWasPaid ==
  contract.tx # NoTx => <<contract.tx, contract.id>> \in settled

\* A hash stored as the result of a ContractRegistry call is backed by what
\* the registry holds for this contract, even when receipts are lost, calls
\* revert and the process dies between the chain and the row.
HashesAreBacked ==
  /\ contract.hash = "create" => chain[contract.id].exists
  /\ contract.signHash = "sign" => chain[contract.id].signed

-----------------------------------------------------------------------------
(* Safety when one request runs at a time (Requests is a singleton).       *)

\* An ACTIVE contract is signed by both parties
\* (contracts.service.ts:975-979 'Contract must be SIGNED to disburse').
ActiveIsSigned == contract.status = "ACTIVE" => contract.sigs = Signers

\* Once a disbursement names its payment, later payouts of the contract do
\* not lose it: a payout without one inherits the one on the row
\* (contracts.service.ts:849-852, 981-984).
PaymentIsNotLost ==
  [][contract.tx # NoTx /\ contract'.id = contract.id => contract'.tx # NoTx]_vars

\* A review that approves the loan is followed by its contract, unless the
\* loan is gone: generateFromLoanApproval runs after APPROVED was written, and
\* may lose the race to draft only to another contract for the same loan
\* (loans.service.ts:791-800, contracts.service.ts:1134-1140).
ApprovalDrafts ==
  \A r \in Requests :
    req[r].op = "generateFromLoanApproval" ~> ContractExists \/ ~LoanExists

\* The contract behaves as the abstract agreement.
TheAgreement ==
  INSTANCE Agreement WITH
    stage   <- IF ContractExists THEN contract.status ELSE "NONE",
    parties <- contract.sigs,
    loan    <- loan

ImplementsAgreement == TheAgreement!ASpec

-----------------------------------------------------------------------------
(* What the messages say, and overlapping requests do not keep             *)

\* While the loan stays, a contract is taken away only while it is a draft
\* (contracts.service.ts:1071 'Only draft contracts can be deleted'; the
\* delete of 1107 names the row by its id alone).  It does not hold: a
\* contract signed, generated or paid out after remove read it is deleted.
OnlyDraftsAreDeleted ==
  [][contract.id # 0 /\ contract'.id = 0 /\ loan' # "NONE"
       => contract.status = "DRAFT"]_vars

=============================================================================
