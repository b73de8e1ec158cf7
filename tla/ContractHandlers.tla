-------------------------- MODULE ContractHandlers --------------------------
(***************************************************************************)
(* ContractsService: one action per stretch of a handler between two       *)
(* awaits that matter.  The first action of a handler reads the contract   *)
(* row and applies the guards to what it read; a call the guards turn away *)
(* changes nothing and is not an action.  The last action is the database  *)
(* write, which uses the row as it was read.                               *)
(*                                                                         *)
(* Abstracted: the caller is the contract's borrower or a member of its    *)
(* tenant, whichever the handler accepts; amounts, dates, PDF, mail and    *)
(* activity logs; the subscription counter that orchestrate() reads and    *)
(* consumeUsage() increments (see SubscriptionQuota).  What remains of     *)
(* orchestrate() is its verdict: deny, or who pays the gas.                *)
(***************************************************************************)
EXTENDS LendingState

GasPayers == {"USER", "PLATFORM"}

\* Where a handler waits next when its blockchain section runs or is skipped.
AfterGuards == IF BlockchainEnabled THEN "chain" ELSE "commit"

\* A client that sends blockchainData may send a hash with it.
ClientHashes(client) == IF client THEN {"client", "none"} ELSE {"none"}

\* orchestrate() is not eligible: every handler throws.
Deny(r) == Finish(r) /\ UNCHANGED chain

-----------------------------------------------------------------------------
(* create and generateFromLoanApproval: insert a DRAFT contract.           *)

\* A fresh contract id for the row the handler will insert.
PendingRow(client, hash) == [NoContract EXCEPT !.id = NewId, !.status = "PENDING"]
DraftRow(client, hash) ==
  [NoContract EXCEPT !.id = NewId, !.hash = hash, !.data = client]

\* A contract is drafted for a loan that has none.
MayDraftApproved == LoanExists /\ ~ContractExists /\ loan # "APPROVED"
MayDraft == LoanExists /\ ~ContractExists

\* The hash kept from a BlockchainService call: null is no hash.
KeptEvenIfNull(ok, kind) == kind
HashFrom(ok, kind) == IF ok THEN kind ELSE "none"

\* create: the loan is there, no contract is, then the id is drawn.
\* orchestrate() is called even when the blockchain is disabled.
BeginCreate(r) ==
  /\ Call(r, "create") /\ MayDraft /\ FreshIds # {}
  /\ \E client \in ClientRecords : \E hash \in ClientHashes(client) :
       Suspend(r, [Idle EXCEPT !.op = "create", !.pc = "chain",
                               !.snap = DraftRow(client, hash)])
  /\ UNCHANGED <<loan, contract, dtx, settled, chain>>

\* generateFromLoanApproval, awaited by LoansService.review after it has
\* already written APPROVED: throws when a contract exists.
BeginGenerate(r) ==
  /\ At(r, {"generateFromLoanApproval"}, "approve")
  /\ IF MayDraft
     THEN /\ FreshIds # {}
          /\ Suspend(r, [req[r] EXCEPT !.pc = AfterGuards,
                                       !.snap = DraftRow(FALSE, "none")])
     ELSE Finish(r)
  /\ UNCHANGED <<loan, contract, dtx, settled, chain>>

\* orchestrate() and, unless the client sent a hash, recordContract(); a null
\* result is tolerated.
RecordNewContract(r) ==
  /\ At(r, {"create", "generateFromLoanApproval"}, "chain")
  /\ \/ Deny(r)
     \/ /\ ~BlockchainEnabled \/ req[r].snap.hash = "client"
        /\ Suspend(r, [req[r] EXCEPT !.pc = "commit"])
        /\ UNCHANGED chain
     \/ /\ BlockchainEnabled /\ req[r].snap.hash = "none"
        /\ \E ok \in BOOLEAN :
             /\ RecordContract(req[r].snap.id, ok)
             /\ Suspend(r, [req[r] EXCEPT
                  !.pc = "commit",
                  !.snap.hash = HashFrom(ok, "create"),
                  !.snap.data = req[r].snap.data \/ ok])
  /\ UNCHANGED <<loan, contract, dtx, settled>>

\* contract.create: loanId is unique and references the loan row.
InsertContract(r) ==
  /\ At(r, {"create", "generateFromLoanApproval"}, "commit")
  /\ contract' = IF LoanExists /\ ~ContractExists THEN req[r].snap ELSE contract
  /\ Finish(r)
  /\ UNCHANGED <<loan, dtx, settled, chain>>

-----------------------------------------------------------------------------
(* signContract.                                                           *)

\* Nobody signs twice, and the lender signs after the borrower.
MaySignInAnyOrder(signer) == signer \notin contract.sigs
MaySign(signer) ==
  /\ signer \notin contract.sigs
  /\ signer = "TENANT" => "BORROWER" \in contract.sigs

\* No guard on the status.
BeginSign(r) ==
  /\ Call(r, "signContract") /\ ContractExists
  /\ \E signer \in Signers, client \in ClientRecords :
     \E hash \in ClientHashes(client) :
       /\ MaySign(signer)
       /\ Suspend(r, [Idle EXCEPT
            !.op = "signContract", !.pc = AfterGuards, !.snap = contract,
            !.signer = signer, !.client = client, !.hash = hash,
            !.signHash = contract.signHash])
  /\ UNCHANGED <<loan, contract, dtx, settled, chain>>

\* resolvedSignTxHash before the chain is asked: the client's hash, else the
\* signTxHash already stored, else the row's blockchainTxHash, whatever call
\* that one came from.
ResolvedSignHash(r) ==
  IF req[r].hash # "none" THEN req[r].hash
  ELSE IF req[r].snap.signHash # "none" THEN req[r].snap.signHash
  ELSE req[r].snap.hash

\* orchestrate(), then ContractRegistry.signContract only when no hash is
\* resolved, the client brought no blockchainData either and the platform
\* pays; a null result throws.
RecordSignature(r) ==
  /\ At(r, {"signContract"}, "chain")
  /\ \/ Deny(r)
     \/ /\ ResolvedSignHash(r) # "none"
        /\ Suspend(r, [req[r] EXCEPT !.pc = "commit",
                                     !.hash = ResolvedSignHash(r),
                                     !.signHash = ResolvedSignHash(r)])
        /\ UNCHANGED chain
     \/ /\ ResolvedSignHash(r) = "none" /\ req[r].client
        /\ Suspend(r, [req[r] EXCEPT !.pc = "commit"])
        /\ UNCHANGED chain
     \/ /\ ResolvedSignHash(r) = "none" /\ ~req[r].client
        /\ \E payer \in GasPayers :
             \/ payer = "USER" /\ Finish(r) /\ UNCHANGED chain
             \/ /\ payer = "PLATFORM"
                /\ SignOnChain(req[r].snap.id, TRUE)
                /\ Suspend(r, [req[r] EXCEPT !.pc = "commit",
                                             !.hash = "sign", !.signHash = "sign"])
             \/ /\ payer = "PLATFORM"
                /\ SignOnChain(req[r].snap.id, FALSE)
                /\ Finish(r)
  /\ UNCHANGED <<loan, contract, dtx, settled>>

\* The signatures written: those read at the start and the new one.
NewSignatures(r) == req[r].snap.sigs \union {req[r].signer}

\* Both signatures make the contract SIGNED and the loan CONTRACT_SIGNED;
\* otherwise the status read at the start is written back.
SignedByLenderStatus(r) ==
  IF req[r].snap.sigs # {} \/ req[r].snap.status = "GENERATED"
  THEN "SIGNED" ELSE req[r].snap.status
SignedStatus(r) ==
  IF NewSignatures(r) = Signers THEN "SIGNED" ELSE req[r].snap.status

SignedLoan(r) == IF NewSignatures(r) = Signers THEN "CONTRACT_SIGNED" ELSE loan

\* blockchainData is written when the merged object has a key, with the
\* signTxHash the handler knows of.
WriteData(row, r) ==
  IF req[r].snap.data \/ req[r].client \/ req[r].signHash # "none"
  THEN [row EXCEPT !.data = TRUE, !.signHash = req[r].signHash]
  ELSE row

WriteHash(row, h) == IF h = "none" THEN row ELSE [row EXCEPT !.hash = h]

\* The $transaction of signContract: the contract row, and the loan row when
\* both have signed.
CommitSignature(r) ==
  /\ At(r, {"signContract"}, "commit")
  /\ IF RowStillThere(r)
     THEN /\ contract' = WriteHash(WriteData(
               [contract EXCEPT !.sigs = NewSignatures(r),
                                !.status = SignedStatus(r)], r),
               req[r].hash)
          /\ loan' = SignedLoan(r)
     ELSE UNCHANGED <<contract, loan>>
  /\ Finish(r)
  /\ UNCHANGED <<dtx, settled, chain>>

-----------------------------------------------------------------------------
(* signAndDisburse and disburse.                                           *)

\* resolvedDisbursementTxId: the DTO's transaction, else the one on the row.
OnlyGivenTx(given) == given
ResolvedTx(given) == IF given # NoTx THEN given ELSE contract.tx

\* The shared beginning of both handlers: the gateway methods (ESEWA,
\* KHALTI, FONEPAY) need a transaction; a transaction is looked up before
\* anything is written.
BeginPayout(r, op) ==
  \E given \in DisbursementTxs \union {NoTx}, gateway \in BOOLEAN,
     client \in ClientRecords : \E hash \in ClientHashes(client) :
    /\ gateway => ResolvedTx(given) # NoTx
    /\ client => op = "signAndDisburse"
    /\ Suspend(r, [Idle EXCEPT
         !.op = op, !.snap = contract, !.tx = ResolvedTx(given),
         !.pc = IF ResolvedTx(given) = NoTx THEN "commit" ELSE "payment",
         !.client = client, !.hash = hash,
         !.signHash = contract.signHash])

BeginSignAndDisburse(r) ==
  /\ Call(r, "signAndDisburse") /\ ContractExists
  /\ contract.status \in {"GENERATED", "SIGNED", "ACTIVE"}
  /\ "BORROWER" \in contract.sigs
  /\ BeginPayout(r, "signAndDisburse")
  /\ UNCHANGED <<loan, contract, dtx, settled, chain>>

BeginDisburse(r) ==
  /\ Call(r, "disburse") /\ ContractExists
  /\ contract.status \in {"SIGNED", "ACTIVE"}
  /\ BeginPayout(r, "disburse")
  /\ UNCHANGED <<loan, contract, dtx, settled, chain>>

\* ensureDisbursementPaymentCompleted: of this contract, and COMPLETED now.
PaymentOfContract(r) == dtx[req[r].tx].owner = req[r].snap.id
PaymentCompleted(r) ==
  /\ dtx[req[r].tx].owner = req[r].snap.id
  /\ dtx[req[r].tx].status = "COMPLETED"

CheckDisbursementPayment(r) ==
  /\ At(r, {"signAndDisburse", "disburse"}, "payment")
  /\ IF PaymentCompleted(r)
     THEN Suspend(r, [req[r] EXCEPT !.pc = "commit"])
     ELSE Finish(r)
  /\ UNCHANGED <<loan, contract, dtx, settled, chain>>

\* The $transaction of both: ACTIVE, disbursementInfo overwritten, then
\* ensureContractActivatedState (schedules if there are none, LOAN_PROVIDED).
\* The update locks the contract row first, so it is one step.
ActivatedUnscheduled(r) == [contract EXCEPT !.status = "ACTIVE", !.tx = req[r].tx]
Activated(r) ==
  [contract EXCEPT !.status = "ACTIVE", !.tx = req[r].tx, !.scheduled = TRUE]

\* signAndDisburse adds the lender's signature to the list it read.
PayoutWithoutSignature(r) == req[r].snap.sigs
PayoutSignatures(r) == req[r].snap.sigs \union {"TENANT"}

CommitSignAndDisburse(r) ==
  /\ At(r, {"signAndDisburse"}, "commit")
  /\ IF RowStillThere(r)
     THEN /\ contract' = WriteHash(WriteData(
               [Activated(r) EXCEPT !.sigs = PayoutSignatures(r)], r),
               req[r].hash)
          /\ loan' = "LOAN_PROVIDED"
     ELSE UNCHANGED <<contract, loan>>
  /\ Finish(r)
  /\ UNCHANGED <<dtx, settled, chain>>

CommitDisburse(r) ==
  /\ At(r, {"disburse"}, "commit")
  /\ IF RowStillThere(r)
     THEN contract' = Activated(r) /\ loan' = "LOAN_PROVIDED"
     ELSE UNCHANGED <<contract, loan>>
  /\ Finish(r)
  /\ UNCHANGED <<dtx, settled, chain>>

-----------------------------------------------------------------------------
(* generateContractPdf.                                                    *)

\* The PDF can be made again until the lender has signed.
PdfUntilPaidOut == {"DRAFT", "GENERATED", "SIGNED"}
PdfStatuses == {"DRAFT", "GENERATED"}

BeginGeneratePdf(r) ==
  /\ Call(r, "generateContractPdf") /\ ContractExists
  /\ contract.status \in PdfStatuses
  /\ Suspend(r, [Idle EXCEPT !.op = "generateContractPdf", !.pc = AfterGuards,
                             !.snap = contract])
  /\ UNCHANGED <<loan, contract, dtx, settled, chain>>

\* orchestrate() and updateContract(id, 'GENERATED'); null is tolerated.
RecordGenerated(r) ==
  /\ At(r, {"generateContractPdf"}, "chain")
  /\ \/ Deny(r)
     \/ \E ok \in BOOLEAN :
          /\ UpdateOnChain(req[r].snap.id, ok)
          /\ Suspend(r, [req[r] EXCEPT !.pc = "commit",
                                       !.hash = HashFrom(ok, "status")])
  /\ UNCHANGED <<loan, contract, dtx, settled>>

\* The contract is written first, with whatever hash there is, null included;
\* the loan is a second write outside any transaction.
CommitPdf(r) ==
  /\ At(r, {"generateContractPdf"}, "commit")
  /\ IF RowStillThere(r)
     THEN /\ contract' = [contract EXCEPT !.status = "GENERATED", !.hash = req[r].hash]
          /\ Suspend(r, [req[r] EXCEPT !.pc = "loan"])
     ELSE UNCHANGED contract /\ Finish(r)
  /\ UNCHANGED <<loan, dtx, settled, chain>>

MarkLoanGenerated(r) ==
  /\ At(r, {"generateContractPdf"}, "loan")
  /\ loan' = IF LoanExists THEN "CONTRACT_GENERATED" ELSE loan
  /\ Finish(r)
  /\ UNCHANGED <<contract, dtx, settled, chain>>

-----------------------------------------------------------------------------
(* update: PATCH of the status.                                            *)

BeginUpdate(r) ==
  /\ Call(r, "update") /\ ContractExists
  /\ \E status \in PatchStatuses, client \in ClientRecords :
       Suspend(r, [Idle EXCEPT
         !.op = "update", !.pc = "write", !.snap = contract, !.status = status,
         !.client = client, !.hash = IF client THEN "client" ELSE "none"])
  /\ UNCHANGED <<loan, contract, dtx, settled, chain>>

\* The row is updated before the blockchain section runs.
WriteUpdate(r) ==
  /\ At(r, {"update"}, "write")
  /\ IF RowStillThere(r)
     THEN contract' = WriteHash([contract EXCEPT !.status = req[r].status], req[r].hash)
     ELSE UNCHANGED contract
  /\ IF RowStillThere(r) /\ BlockchainEnabled
     THEN Suspend(r, [req[r] EXCEPT !.pc = "chain"])
     ELSE Finish(r)
  /\ UNCHANGED <<loan, dtx, settled, chain>>

\* 'Blockchain update failed. Cannot update contract status.': the platform
\* pays, the call returned null and no hash was known before.
BlockchainUpdateFails(r) ==
  /\ At(r, {"update"}, "chain")
  /\ ~req[r].client /\ req[r].snap.hash = "none"
  /\ UpdateOnChain(req[r].snap.id, FALSE)
  /\ Finish(r)
  /\ UNCHANGED <<loan, contract, dtx, settled>>

\* resolvedBlockchainTxHash: the client's, the chain's, or the one read.
RecordUpdate(r) ==
  /\ At(r, {"update"}, "chain")
  /\ \/ Deny(r)
     \/ \E h \in HashKinds :
          /\ \/ req[r].client /\ h = "client" /\ UNCHANGED chain
             \/ /\ ~req[r].client /\ h = req[r].snap.hash
                /\ UNCHANGED chain
             \/ /\ ~req[r].client /\ h = "status"
                /\ UpdateOnChain(req[r].snap.id, TRUE)
          /\ IF h = "none" THEN Finish(r)
             ELSE Suspend(r, [req[r] EXCEPT !.pc = "commit", !.hash = h])
  /\ UNCHANGED <<loan, contract, dtx, settled>>

CommitUpdateHash(r) ==
  /\ At(r, {"update"}, "commit")
  /\ contract' = IF RowStillThere(r)
                 THEN [contract EXCEPT !.hash = req[r].hash] ELSE contract
  /\ Finish(r)
  /\ UNCHANGED <<loan, dtx, settled, chain>>

-----------------------------------------------------------------------------
(* remove and reportContract.                                              *)

\* transactions.contract_id is ON DELETE SET NULL.
Disown(id) ==
  [t \in DisbursementTxs |->
     IF dtx[t].owner = id THEN [dtx[t] EXCEPT !.owner = 0] ELSE dtx[t]]

Removable == contract.status = "DRAFT"

BeginRemove(r) ==
  /\ Call(r, "remove") /\ ContractExists /\ Removable
  /\ Suspend(r, [Idle EXCEPT !.op = "remove", !.pc = AfterGuards, !.snap = contract])
  /\ UNCHANGED <<loan, contract, dtx, settled, chain>>

\* orchestrate() and, unless the user pays, deleteContract(): null throws.
RecordRemoval(r) ==
  /\ At(r, {"remove"}, "chain")
  /\ \/ Deny(r)
     \/ \E ok \in BOOLEAN :
          /\ UpdateOnChain(req[r].snap.id, ok)
          /\ IF ok THEN Suspend(r, [req[r] EXCEPT !.pc = "commit"]) ELSE Finish(r)
     \/ /\ Suspend(r, [req[r] EXCEPT !.pc = "commit"])   \* gasPayer USER
        /\ UNCHANGED chain
  /\ UNCHANGED <<loan, contract, dtx, settled>>

\* contract.delete by id only: the status is not looked at again.
DeleteContract(r) ==
  /\ At(r, {"remove"}, "commit")
  /\ IF RowStillThere(r)
     THEN contract' = NoContract /\ dtx' = Disown(contract.id)
     ELSE UNCHANGED <<contract, dtx>>
  /\ Finish(r)
  /\ UNCHANGED <<loan, settled, chain>>

\* reportContract: by the borrower, from any status; nothing it read is used.
Report(r) ==
  /\ Call(r, "reportContract") /\ ContractExists
  /\ contract' = [contract EXCEPT !.status = "REPORTED"]
  /\ UNCHANGED <<loan, dtx, settled, chain, req>>

-----------------------------------------------------------------------------
ContractStep(r) ==
  \/ BeginGenerate(r) \/ RecordNewContract(r) \/ InsertContract(r)
  \/ RecordSignature(r) \/ CommitSignature(r)
  \/ CheckDisbursementPayment(r) \/ CommitSignAndDisburse(r) \/ CommitDisburse(r)
  \/ RecordGenerated(r) \/ CommitPdf(r) \/ MarkLoanGenerated(r)
  \/ WriteUpdate(r) \/ BlockchainUpdateFails(r) \/ RecordUpdate(r)
  \/ CommitUpdateHash(r) \/ RecordRemoval(r) \/ DeleteContract(r)

ContractCall(r) ==
  \/ BeginCreate(r) \/ BeginSign(r) \/ BeginSignAndDisburse(r)
  \/ BeginDisburse(r) \/ BeginGeneratePdf(r) \/ BeginUpdate(r)
  \/ BeginRemove(r) \/ Report(r)
=============================================================================
