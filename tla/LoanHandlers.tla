---------------------------- MODULE LoanHandlers ----------------------------
(***************************************************************************)
(* LoansService, and the handlers of the transactions and payments         *)
(* services that write DISBURSEMENT transactions, as the contract handlers *)
(* see them.  None of these uses a row it read before an await, so each is *)
(* one action on a free request slot; review goes on inside                *)
(* ContractsService.generateFromLoanApproval.                              *)
(***************************************************************************)
EXTENDS LendingState

\* create: a loan starts as DRAFT.  The client may supply the id, so a removed
\* loan can come back.  The LoanRegistry call is tolerated when it fails.
CreateLoan(r) ==
  /\ Call(r, "createLoan") /\ ~LoanExists
  /\ loan' = "DRAFT"
  /\ UNCHANGED <<contract, dtx, settled, chain, req>>

\* review: writes the lender's status over any current one; an approval goes
\* on to draft the contract, which can still throw.
Review(r) ==
  /\ Call(r, "review") /\ LoanExists
  /\ \E status \in ReviewStatuses :
       /\ loan' = status
       /\ IF status = "APPROVED"
          THEN Suspend(r, [Idle EXCEPT !.op = "generateFromLoanApproval",
                                       !.pc = "approve"])
          ELSE UNCHANGED req
  /\ UNCHANGED <<contract, dtx, settled, chain>>

\* remove: whatever the status, one $transaction deletes schedules,
\* transactions, contract and loan.  A null from deleteLoan is tolerated.
RemoveLoan(r) ==
  /\ Call(r, "removeLoan") /\ LoanExists
  /\ loan' = "NONE"
  /\ contract' = NoContract
  /\ dtx' = [t \in DisbursementTxs |->
               IF ContractExists /\ dtx[t].owner = contract.id
               THEN NoTransaction ELSE dtx[t]]
  /\ UNCHANGED <<settled, chain, req>>

\* A DISBURSEMENT row for the contract: PENDING from TransactionsService.create,
\* COMPLETED from PaymentsService.verifyPayment.
RecordTransaction(r) ==
  /\ Call(r, "recordTransaction") /\ ContractExists
  /\ \E t \in DisbursementTxs, status \in {"PENDING", "COMPLETED"} :
       /\ dtx[t] = NoTransaction
       /\ dtx' = [dtx EXCEPT ![t] = [owner |-> contract.id, status |-> status]]
       /\ settled' = IF status = "COMPLETED"
                     THEN settled \union {<<t, contract.id>>} ELSE settled
  /\ UNCHANGED <<loan, contract, chain, req>>

\* TransactionsService.updateStatus (any status over any other), the end of
\* TransactionsService.create and the gateway webhook (COMPLETED).
UpdateStatus(r) ==
  /\ Call(r, "updateStatus")
  /\ \E t \in DisbursementTxs, status \in TransactionStatuses :
       /\ dtx[t] # NoTransaction
       /\ dtx' = [dtx EXCEPT ![t].status = status]
       /\ settled' = IF status = "COMPLETED" /\ dtx[t].owner # 0
                     THEN settled \union {<<t, dtx[t].owner>>} ELSE settled
  /\ UNCHANGED <<loan, contract, chain, req>>

LoanCall(r) ==
  \/ CreateLoan(r) \/ Review(r) \/ RemoveLoan(r)
  \/ RecordTransaction(r) \/ UpdateStatus(r)
=============================================================================
