---------------------------- MODULE LendingProofs ----------------------------
(***************************************************************************)
(* For any number of requests, transactions and contract ids and any       *)
(* workload: the rows and handlers of Lending are well typed, and the      *)
(* lender's signature is never on the row without the borrower's.  Then    *)
(* what the rows promise whatever the interleaving and the crashes: the    *)
(* actions are summed up by what they do to a slot and to the contract     *)
(* row, and every invariant is proved from these sums.  Last come the      *)
(* theorems for one request at a time, and the refinement.                 *)
(***************************************************************************)
EXTENDS Lending, TLAPS

-----------------------------------------------------------------------------
(* Types.                                                                  *)

\* The rows and the slot every model starts with.
LEMMA BlankRecords ==
  /\ NoContract \in ContractRows
  /\ Idle \in RequestRecords
  /\ NoTransaction \in TransactionRows
<1>1. 0 \in 0 .. MaxContracts
  BY LendingAssumption
<1>2. NoContract \in ContractRows
  BY <1>1 DEF NoContract, ContractRows, ContractStatuses, Signers, HashKinds
<1>3. Idle \in RequestRecords
  BY <1>2 DEF Idle, RequestRecords, PCs, Operations, Signers, ContractStatuses, HashKinds
<1>4. NoTransaction \in TransactionRows
  BY <1>1 DEF NoTransaction, TransactionRows
<1> QED BY <1>2, <1>3, <1>4

\* A drawn id is one that is free.
LEMMA FreshIdIsFresh ==
  ASSUME FreshIds # {} PROVE NewId \in FreshIds /\ NewId \in ContractIds
BY DEF NewId, FreshIds

LEMMA InitType == Init => TypeOK
<1> SUFFICES ASSUME Init PROVE TypeOK
  OBVIOUS
<1> USE BlankRecords
<1>1. loan \in LoanStatuses \union {"NONE"}
  BY DEF Init
<1>2. contract \in ContractRows /\ req \in [Requests -> RequestRecords]
  BY DEF Init
<1>3. dtx \in [DisbursementTxs -> TransactionRows]
  BY DEF Init
<1>4. chain \in [ContractIds -> [exists: BOOLEAN, signed: BOOLEAN]]
  BY DEF Init, NotOnChain
<1> QED BY <1>1, <1>2, <1>3, <1>4 DEF TypeOK, Init

\* Writing one slot, with locals or with none, keeps the type of the slots.
LEMMA SuspendType ==
  ASSUME TypeOK, NEW r \in Requests, NEW locals \in RequestRecords, Suspend(r, locals)
  PROVE  req' \in [Requests -> RequestRecords]
BY DEF TypeOK, Suspend

LEMMA FinishType ==
  ASSUME TypeOK, NEW r \in Requests, Finish(r)
  PROVE  req' \in [Requests -> RequestRecords]
BY BlankRecords DEF TypeOK, Finish

\* What a handler in slot r holds and what a step does to one request.
LEMMA SlotType ==
  ASSUME TypeOK, NEW r \in Requests
  PROVE  /\ req[r] \in RequestRecords
         /\ req[r].snap \in ContractRows
         /\ req[r].hash \in HashKinds /\ req[r].signHash \in HashKinds
         /\ req[r].tx \in DisbursementTxs \union {NoTx}
         /\ req[r].signer \in Signers
         /\ req[r].status \in ContractStatuses
BY DEF TypeOK, RequestRecords

\* The locals a handler resumes with, built from those it had.
LEMMA ResumeType ==
  ASSUME NEW q \in RequestRecords, NEW pc \in PCs,
         NEW h \in HashKinds, NEW s \in HashKinds, NEW row \in ContractRows
  PROVE  /\ [q EXCEPT !.pc = pc] \in RequestRecords
         /\ [q EXCEPT !.pc = pc, !.hash = h] \in RequestRecords
         /\ [q EXCEPT !.pc = pc, !.hash = h, !.signHash = s] \in RequestRecords
         /\ [q EXCEPT !.pc = pc, !.snap = row] \in RequestRecords
BY DEF RequestRecords

LEMMA AfterGuardsType == AfterGuards \in PCs
BY DEF AfterGuards, PCs

LEMMA ClientHashType ==
  ASSUME NEW client
  PROVE  /\ (IF client THEN "client" ELSE "none") \in HashKinds
         /\ ClientHashes(client) \subseteq {"none", "client"}
         /\ {"none", "client"} \subseteq HashKinds
BY DEF HashKinds, ClientHashes

\* The row a creating handler is about to insert.
LEMMA DraftRowType ==
  ASSUME FreshIds # {}, NEW client \in BOOLEAN, NEW hash \in {"none", "client"}
  PROVE  DraftRow(client, hash) \in ContractRows
<1>1. NewId \in 0 .. MaxContracts
  BY FreshIdIsFresh DEF ContractIds
<1> HIDE DEF NewId
<1> QED
  BY <1>1, BlankRecords DEF DraftRow, ContractRows, HashKinds

\* The first action of every contract handler.
LEMMA CallType ==
  ASSUME TypeOK, NEW r \in Requests, ContractCall(r)
  PROVE  TypeOK'
<1> USE LendingAssumption, BlankRecords
<1>t. contract \in ContractRows /\ contract.signHash \in HashKinds
      /\ contract.tx \in DisbursementTxs \union {NoTx}
  BY DEF TypeOK, ContractRows
<1>1. CASE BeginCreate(r)
  <2>1. PICK client \in ClientRecords, hash \in {"none", "client"} :
          Suspend(r, [Idle EXCEPT !.op = "create", !.pc = "chain",
                               !.snap = DraftRow(client, hash)])
    BY <1>1, ClientHashType DEF BeginCreate
  <2>2. client \in BOOLEAN
    BY <2>1
  <2>3. DraftRow(client, hash) \in ContractRows
    BY <1>1, <2>2, ClientHashType, DraftRowType DEF BeginCreate
  <2>4. [Idle EXCEPT !.op = "create", !.pc = "chain",
           !.snap = DraftRow(client, hash)] \in RequestRecords
    BY <2>2, <2>3 DEF RequestRecords, Operations, PCs
  <2> QED BY <1>1, <2>1, <2>4, SuspendType DEF BeginCreate, TypeOK
<1>2. CASE BeginSign(r)
  <2>1. PICK signer \in Signers, client \in ClientRecords,
             hash \in {"none", "client"} :
       Suspend(r, [Idle EXCEPT
            !.op = "signContract", !.pc = AfterGuards, !.snap = contract,
            !.signer = signer, !.client = client, !.hash = hash,
            !.signHash = contract.signHash])
    BY <1>2, ClientHashType DEF BeginSign
  <2>2. client \in BOOLEAN /\ "signContract" \in Operations
    BY <2>1 DEF Operations
  <2>3. [Idle EXCEPT
            !.op = "signContract", !.pc = AfterGuards, !.snap = contract,
            !.signer = signer, !.client = client, !.hash = hash,
            !.signHash = contract.signHash] \in RequestRecords
    BY <1>t, <2>2, AfterGuardsType, ClientHashType DEF RequestRecords
  <2> QED BY <1>2, <2>1, <2>3, SuspendType DEF BeginSign, TypeOK
<1>3. ASSUME NEW op \in {"signAndDisburse", "disburse"}, BeginPayout(r, op)
      PROVE  req' \in [Requests -> RequestRecords]
  <2>1. PICK given \in DisbursementTxs \union {NoTx}, client \in ClientRecords,
             hash \in {"none", "client"} :
          Suspend(r, [Idle EXCEPT
            !.op = op, !.snap = contract, !.tx = ResolvedTx(given),
            !.pc = IF ResolvedTx(given) = NoTx THEN "commit" ELSE "payment",
            !.client = client, !.hash = hash,
            !.signHash = contract.signHash])
    BY <1>3, ClientHashType DEF BeginPayout
  <2>2. client \in BOOLEAN /\ op \in Operations
    BY <2>1 DEF Operations
  <2>3. ResolvedTx(given) \in DisbursementTxs \union {NoTx}
    BY <1>t DEF ResolvedTx
  <2>4. (IF ResolvedTx(given) = NoTx THEN "commit" ELSE "payment") \in PCs
    BY DEF PCs
  <2>5. [Idle EXCEPT
            !.op = op, !.snap = contract, !.tx = ResolvedTx(given),
            !.pc = IF ResolvedTx(given) = NoTx THEN "commit" ELSE "payment",
            !.client = client, !.hash = hash,
            !.signHash = contract.signHash] \in RequestRecords
    BY <1>t, <2>2, <2>3, <2>4, ClientHashType DEF RequestRecords
  <2> QED BY <2>1, <2>5, SuspendType
<1>4. CASE BeginSignAndDisburse(r)
  BY <1>3, <1>4 DEF BeginSignAndDisburse, TypeOK
<1>5. CASE BeginDisburse(r)
  BY <1>3, <1>5 DEF BeginDisburse, TypeOK
<1>6. ASSUME NEW op \in Operations,
             Suspend(r, [Idle EXCEPT !.op = op, !.pc = AfterGuards, !.snap = contract])
      PROVE  req' \in [Requests -> RequestRecords]
  <2>1. [Idle EXCEPT !.op = op, !.pc = AfterGuards, !.snap = contract] \in RequestRecords
    BY <1>t, AfterGuardsType DEF RequestRecords
  <2> QED BY <1>6, <2>1, SuspendType
<1>7. CASE BeginGeneratePdf(r)
  BY <1>6, <1>7 DEF BeginGeneratePdf, TypeOK, Operations
<1>8. CASE BeginUpdate(r)
  <2>1. PICK status \in PatchStatuses, client \in ClientRecords :
          Suspend(r, [Idle EXCEPT
            !.op = "update", !.pc = "write", !.snap = contract, !.status = status,
            !.client = client, !.hash = IF client THEN "client" ELSE "none"])
    BY <1>8 DEF BeginUpdate
  <2>2. client \in BOOLEAN /\ status \in ContractStatuses
    BY <2>1
  <2>3. "update" \in Operations /\ "write" \in PCs
    BY DEF Operations, PCs
  <2>4. [Idle EXCEPT
            !.op = "update", !.pc = "write", !.snap = contract, !.status = status,
            !.client = client, !.hash = IF client THEN "client" ELSE "none"]
          \in RequestRecords
    BY <1>t, <2>2, <2>3, ClientHashType DEF RequestRecords
  <2> QED BY <1>8, <2>1, <2>4, SuspendType DEF BeginUpdate, TypeOK
<1>9. CASE BeginRemove(r)
  BY <1>6, <1>9 DEF BeginRemove, TypeOK, Operations
<1>10. CASE Report(r)
  <2>1. [contract EXCEPT !.status = "REPORTED"] \in ContractRows
    BY <1>t DEF ContractRows, ContractStatuses
  <2> QED BY <1>10, <2>1 DEF Report, TypeOK
<1> QED
  BY <1>1, <1>2, <1>4, <1>5, <1>7, <1>8, <1>9, <1>10 DEF ContractCall

\* Rows that the writes of the handlers build.
LEMMA WrittenRowType ==
  ASSUME TypeOK, NEW r \in Requests, NEW row \in ContractRows
  PROVE  /\ WriteHash(row, req[r].hash) \in ContractRows
         /\ WriteData(row, r) \in ContractRows
<1>1. req[r].hash \in HashKinds /\ req[r].signHash \in HashKinds
  BY SlotType
<1> QED BY <1>1 DEF WriteHash, WriteData, ContractRows

\* Whatever the ContractRegistry answers.
LEMMA ChainType ==
  ASSUME TypeOK, NEW id, NEW ok \in BOOLEAN,
         RecordContract(id, ok) \/ SignOnChain(id, ok) \/ UpdateOnChain(id, ok)
         \/ UNCHANGED chain
  PROVE  chain' \in [ContractIds -> [exists: BOOLEAN, signed: BOOLEAN]]
BY DEF TypeOK, RecordContract, SignOnChain, UpdateOnChain

\* The later actions of every contract handler.
LEMMA StepType ==
  ASSUME TypeOK, NEW r \in Requests, ContractStep(r)
  PROVE  TypeOK'
<1> USE BlankRecords
<1> DEFINE Requests2 == [Requests -> RequestRecords]
           Chain2 == [ContractIds -> [exists: BOOLEAN, signed: BOOLEAN]]
<1>q. req[r] \in RequestRecords /\ req[r].snap \in ContractRows
  BY SlotType
<1>t. contract \in ContractRows
  BY DEF TypeOK
<1>p. {"chain", "commit", "loan", "idle"} \subseteq PCs
  BY DEF PCs
<1>h. {"none", "create", "sign", "status", "client"} \subseteq HashKinds
  BY DEF HashKinds
<1>1. ASSUME NEW pc \in PCs, Suspend(r, [req[r] EXCEPT !.pc = pc])
      PROVE  req' \in Requests2
  BY <1>q, <1>h, <1>1, ResumeType, SuspendType
<1>2. ASSUME NEW h \in HashKinds,
             Suspend(r, [req[r] EXCEPT !.pc = "commit", !.hash = h])
      PROVE  req' \in Requests2
  BY <1>q, <1>p, <1>2, ResumeType, SuspendType
<1>3. ASSUME NEW h \in HashKinds,
             Suspend(r, [req[r] EXCEPT !.pc = "commit", !.hash = h, !.signHash = h])
      PROVE  req' \in Requests2
  <2>1. [req[r] EXCEPT !.pc = "commit", !.hash = h, !.signHash = h] \in RequestRecords
    BY <1>q, <1>p DEF RequestRecords
  <2> QED BY <1>3, <2>1, SuspendType
<1>4. ASSUME Finish(r) PROVE req' \in Requests2
  BY <1>4, FinishType
<1>5. CASE BeginGenerate(r)
  <2>1. CASE MayDraft
    <3>1. DraftRow(FALSE, "none") \in ContractRows
      BY <1>5, <2>1, DraftRowType DEF BeginGenerate
    <3>2. [req[r] EXCEPT !.pc = AfterGuards, !.snap = DraftRow(FALSE, "none")] \in RequestRecords
      BY <1>q, <3>1, AfterGuardsType, ResumeType, <1>h
    <3> QED BY <1>5, <2>1, <3>2, SuspendType DEF BeginGenerate, TypeOK
  <2>2. CASE ~MayDraft
    BY <1>4, <1>5, <2>2 DEF BeginGenerate, TypeOK
  <2> QED BY <2>1, <2>2
<1>6. CASE RecordNewContract(r)
  <2>1. CASE Deny(r)
    BY <1>4, <1>6, <2>1 DEF RecordNewContract, Deny, TypeOK
  <2>2. CASE Suspend(r, [req[r] EXCEPT !.pc = "commit"]) /\ UNCHANGED chain
    BY <1>1, <1>6, <1>p, <2>2 DEF RecordNewContract, TypeOK
  <2>3. ASSUME NEW ok \in BOOLEAN, NEW data \in BOOLEAN,
               RecordContract(req[r].snap.id, ok),
               Suspend(r, [req[r] EXCEPT
                  !.pc = "commit",
                  !.snap.hash = HashFrom(ok, "create"),
                  !.snap.data = data])
        PROVE  TypeOK'
    <3>1. HashFrom(ok, "create") \in HashKinds
      BY <1>h DEF HashFrom
    <3> DEFINE row == [req[r].snap EXCEPT !.hash = HashFrom(ok, "create"), !.data = data]
    <3>2. row \in ContractRows
      BY <1>q, <3>1 DEF ContractRows
    <3>3. [req[r] EXCEPT !.pc = "commit",
                         !.snap.hash = HashFrom(ok, "create"), !.snap.data = data]
            = [req[r] EXCEPT !.pc = "commit", !.snap = row]
      BY <1>q DEF RequestRecords
    <3>4. [req[r] EXCEPT !.pc = "commit", !.snap = row] \in RequestRecords
      BY <1>q, <1>p, <1>h, <3>2, ResumeType
    <3>5. req' \in Requests2
      BY <2>3, <3>3, <3>4, SuspendType
    <3>6. chain' \in Chain2
      BY <2>3, ChainType
    <3> QED BY <1>6, <3>5, <3>6 DEF RecordNewContract, TypeOK
  <2>4. req[r].snap.data \in BOOLEAN
    BY <1>q DEF ContractRows
  <2> QED BY <1>6, <2>1, <2>2, <2>3, <2>4 DEF RecordNewContract
<1>7. CASE InsertContract(r)
  BY <1>4, <1>7, <1>q DEF InsertContract, TypeOK
<1>8. CASE RecordSignature(r)
  <2>1. ResolvedSignHash(r) \in HashKinds
    BY <1>q, <1>h DEF ResolvedSignHash, RequestRecords, ContractRows
  <2>2. req' \in Requests2
    BY <1>1, <1>3, <1>4, <1>8, <1>h, <1>p, <2>1 DEF RecordSignature, Deny
  <2>3. chain' \in Chain2
    BY <1>8, ChainType DEF RecordSignature, Deny
  <2> QED BY <1>8, <2>2, <2>3 DEF RecordSignature, TypeOK
<1>9. CASE CommitSignature(r)
  <2> DEFINE row == [contract EXCEPT !.sigs = NewSignatures(r), !.status = SignedStatus(r)]
  <2>1. NewSignatures(r) \in SUBSET Signers /\ SignedStatus(r) \in ContractStatuses
    BY <1>q DEF NewSignatures, SignedStatus, RequestRecords, ContractRows, ContractStatuses
  <2>2. row \in ContractRows
    BY <1>t, <2>1 DEF ContractRows
  <2>3. WriteData(row, r) \in ContractRows
    BY <2>2, WrittenRowType
  <2>4. WriteHash(WriteData(row, r), req[r].hash) \in ContractRows
    BY <2>3, WrittenRowType
  <2>5. SignedLoan(r) \in LoanStatuses \union {"NONE"}
    BY DEF SignedLoan, TypeOK, LoanStatuses
  <2> QED BY <1>4, <1>9, <2>4, <2>5 DEF CommitSignature, TypeOK
<1>10. CASE CheckDisbursementPayment(r)
  BY <1>1, <1>4, <1>10, <1>p DEF CheckDisbursementPayment, TypeOK
<1>a. Activated(r) \in ContractRows
  BY <1>q, <1>t DEF Activated, ContractRows, RequestRecords, ContractStatuses
<1>11. CASE CommitSignAndDisburse(r)
  <2> DEFINE row == [Activated(r) EXCEPT !.sigs = PayoutSignatures(r)]
  <2>1. PayoutSignatures(r) \in SUBSET Signers
    BY <1>q DEF PayoutSignatures, ContractRows, Signers
  <2>2. row \in ContractRows
    BY <1>a, <2>1 DEF ContractRows
  <2>3. WriteData(row, r) \in ContractRows
    BY <2>2, WrittenRowType
  <2>4. WriteHash(WriteData(row, r), req[r].hash) \in ContractRows
    BY <2>3, WrittenRowType
  <2> QED BY <1>4, <1>11, <2>4 DEF CommitSignAndDisburse, TypeOK, LoanStatuses
<1>12. CASE CommitDisburse(r)
  BY <1>4, <1>12, <1>a DEF CommitDisburse, TypeOK, LoanStatuses
<1>13. CASE RecordGenerated(r)
  <2>1. req' \in Requests2
    BY <1>2, <1>4, <1>13, <1>h DEF RecordGenerated, Deny, HashFrom
  <2>2. chain' \in Chain2
    BY <1>13, ChainType DEF RecordGenerated, Deny
  <2> QED BY <1>13, <2>1, <2>2 DEF RecordGenerated, TypeOK
<1>14. CASE CommitPdf(r)
  <2>1. [contract EXCEPT !.status = "GENERATED", !.hash = req[r].hash] \in ContractRows
    BY <1>q, <1>t DEF ContractRows, RequestRecords, ContractStatuses
  <2> QED BY <1>1, <1>4, <1>14, <1>p, <2>1 DEF CommitPdf, TypeOK
<1>15. CASE MarkLoanGenerated(r)
  BY <1>4, <1>15 DEF MarkLoanGenerated, TypeOK, LoanStatuses
<1>16. CASE WriteUpdate(r)
  <2> DEFINE row == [contract EXCEPT !.status = req[r].status]
  <2>1. row \in ContractRows
    BY <1>q, <1>t DEF ContractRows, RequestRecords
  <2>2. WriteHash(row, req[r].hash) \in ContractRows
    BY <2>1, WrittenRowType
  <2> QED BY <1>1, <1>4, <1>16, <1>p, <2>2 DEF WriteUpdate, TypeOK
<1>17. CASE BlockchainUpdateFails(r)
  BY <1>4, <1>17 DEF BlockchainUpdateFails, UpdateOnChain, TypeOK
<1>18. CASE RecordUpdate(r)
  <2>1. req' \in Requests2
    BY <1>2, <1>4, <1>18 DEF RecordUpdate, Deny
  <2>2. chain' = chain
    BY <1>18 DEF RecordUpdate, Deny, UpdateOnChain
  <2> QED BY <1>18, <2>1, <2>2 DEF RecordUpdate, TypeOK
<1>19. CASE CommitUpdateHash(r)
  <2>1. [contract EXCEPT !.hash = req[r].hash] \in ContractRows
    BY <1>q, <1>t DEF ContractRows, RequestRecords
  <2> QED BY <1>4, <1>19, <2>1 DEF CommitUpdateHash, TypeOK
<1>20. CASE RecordRemoval(r)
  <2>1. req' \in Requests2
    BY <1>1, <1>4, <1>20, <1>p DEF RecordRemoval, Deny
  <2>2. chain' = chain
    BY <1>20 DEF RecordRemoval, Deny, UpdateOnChain
  <2> QED BY <1>20, <2>1, <2>2 DEF RecordRemoval, TypeOK
<1>21. CASE DeleteContract(r)
  <2>1. Disown(contract.id) \in [DisbursementTxs -> TransactionRows]
    BY DEF Disown, TypeOK, TransactionRows, NoTransaction
  <2> QED BY <1>4, <1>21, <2>1 DEF DeleteContract, TypeOK
<1> QED
  BY <1>5, <1>6, <1>7, <1>8, <1>9, <1>10, <1>11, <1>12, <1>13, <1>14, <1>15,
     <1>16, <1>17, <1>18, <1>19, <1>20, <1>21 DEF ContractStep

\* The handlers of loans and of DISBURSEMENT transactions.
LEMMA LoanCallType ==
  ASSUME TypeOK, NEW r \in Requests, LoanCall(r)
  PROVE  TypeOK'
<1> USE LendingAssumption, BlankRecords
<1>1. CASE CreateLoan(r)
  BY <1>1 DEF CreateLoan, TypeOK, LoanStatuses
<1>2. CASE Review(r)
  <2>1. [Idle EXCEPT !.op = "generateFromLoanApproval", !.pc = "approve"] \in RequestRecords
    BY DEF RequestRecords, Operations, PCs
  <2>2. req' \in [Requests -> RequestRecords]
    BY <1>2, <2>1, SuspendType DEF Review, TypeOK
  <2> QED BY <1>2, <2>2 DEF Review, TypeOK
<1>3. CASE RemoveLoan(r)
  BY <1>3 DEF RemoveLoan, TypeOK
<1>4. CASE RecordTransaction(r)
  <2>1. PICK t \in DisbursementTxs, status \in {"PENDING", "COMPLETED"} :
          /\ dtx' = [dtx EXCEPT ![t] = [owner |-> contract.id, status |-> status]]
          /\ settled' = IF status = "COMPLETED"
                        THEN settled \union {<<t, contract.id>>} ELSE settled
    BY <1>4 DEF RecordTransaction
  <2>2. contract.id \in 0 .. MaxContracts /\ contract.id \in ContractIds
    BY <1>4 DEF RecordTransaction, ContractExists, TypeOK, ContractRows, ContractIds
  <2>3. [owner |-> contract.id, status |-> status] \in TransactionRows
    BY <2>2 DEF TransactionRows, TransactionStatuses
  <2> QED BY <1>4, <2>1, <2>2, <2>3 DEF RecordTransaction, TypeOK
<1>5. CASE UpdateStatus(r)
  <2>1. PICK t \in DisbursementTxs, status \in TransactionStatuses :
          /\ dtx' = [dtx EXCEPT ![t].status = status]
          /\ settled' = IF status = "COMPLETED" /\ dtx[t].owner # 0
                        THEN settled \union {<<t, dtx[t].owner>>} ELSE settled
    BY <1>5 DEF UpdateStatus
  <2>2. dtx[t] \in TransactionRows
    BY DEF TypeOK
  <2>3. dtx[t].owner # 0 => dtx[t].owner \in ContractIds
    BY <2>2 DEF TransactionRows, ContractIds
  <2>4. [dtx[t] EXCEPT !.status = status] \in TransactionRows
    BY <2>2 DEF TransactionRows
  <2>5. dtx' \in [DisbursementTxs -> TransactionRows]
    BY <2>1, <2>4 DEF TypeOK
  <2> QED BY <1>5, <2>1, <2>3, <2>5 DEF UpdateStatus, TypeOK
<1> QED BY <1>1, <1>2, <1>3, <1>4, <1>5 DEF LoanCall

\* The type invariant is inductive.
LEMMA NextType == TypeOK /\ [Next]_vars => TypeOK'
<1> SUFFICES ASSUME TypeOK, [Next]_vars PROVE TypeOK'
  OBVIOUS
<1>1. ASSUME NEW r \in Requests, ContractCall(r) \/ LoanCall(r) \/ ContractStep(r)
      PROVE  TypeOK'
  BY <1>1, CallType, LoanCallType, StepType
<1>2. CASE Crash
  BY <1>2, BlankRecords DEF Crash, TypeOK
<1>3. CASE UNCHANGED vars
  BY <1>3 DEF vars, TypeOK
<1> QED BY <1>1, <1>2, <1>3 DEF Next, Step

\* Every reachable state has the shape of the rows of the Prisma schema,
\* however many requests run and whatever they are.
THEOREM TypeCorrect == Spec => []TypeOK
<1>1. Init => TypeOK
  BY InitType
<1>2. TypeOK /\ [Next]_vars => TypeOK'
  BY NextType
<1> QED BY <1>1, <1>2, PTL DEF Spec

-----------------------------------------------------------------------------
(* The order of the signatures.  The row alone is not inductive: a handler  *)
(* writes back the list it read, so the same must be true of every list a   *)
(* handler still holds, and a lender's handler must hold one that the       *)
(* borrower signed.                                                         *)

Ordered(row) == "TENANT" \in row.sigs => "BORROWER" \in row.sigs

SlotOrdered(q) ==
  /\ Ordered(q.snap)
  /\ q.op = "signContract" /\ q.signer = "TENANT" => "BORROWER" \in q.snap.sigs
  /\ q.op = "signAndDisburse" => "BORROWER" \in q.snap.sigs

OrderInv == Ordered(contract) /\ \A r \in Requests : SlotOrdered(req[r])

\* An empty slot and no contract are in order.
LEMMA OrderIdle == SlotOrdered(Idle) /\ Ordered(NoContract)
BY DEF SlotOrdered, Ordered, Idle, NoContract

\* A contract handler starts from the list on the row; the lender's guard is
\* what puts the borrower on it.
LEMMA OrderCall ==
  ASSUME TypeOK, OrderInv, NEW r \in Requests, ContractCall(r)
  PROVE  OrderInv'
<1> USE DEF SlotOrdered, Ordered, OrderInv, TypeOK, Suspend, Idle
<1>1. CASE BeginCreate(r)
  BY <1>1 DEF BeginCreate, DraftRow, NoContract
<1>2. CASE BeginSign(r)
  BY <1>2 DEF BeginSign, MaySign
<1>3. CASE BeginSignAndDisburse(r)
  BY <1>3 DEF BeginSignAndDisburse, BeginPayout
<1>4. CASE BeginDisburse(r)
  BY <1>4 DEF BeginDisburse, BeginPayout
<1>5. CASE BeginGeneratePdf(r)
  BY <1>5 DEF BeginGeneratePdf
<1>6. CASE BeginUpdate(r)
  BY <1>6 DEF BeginUpdate
<1>7. CASE BeginRemove(r)
  BY <1>7 DEF BeginRemove
<1>8. CASE Report(r)
  BY <1>8 DEF Report, ContractRows
<1> QED BY <1>1, <1>2, <1>3, <1>4, <1>5, <1>6, <1>7, <1>8 DEF ContractCall

\* A step that leaves slot r with q, or empty, keeps the other slots.
LEMMA OrderSuspend ==
  ASSUME OrderInv, NEW r \in Requests, NEW q, SlotOrdered(q), Suspend(r, q), TypeOK,
         Ordered(contract')
  PROVE  OrderInv'
BY DEF OrderInv, Suspend, TypeOK, SlotOrdered, Ordered

LEMMA OrderFinish ==
  ASSUME OrderInv, NEW r \in Requests, Finish(r), TypeOK, Ordered(contract')
  PROVE  OrderInv'
BY OrderIdle, OrderSuspend DEF Finish, Suspend

\* Resuming changes the program counter and the resolved hashes only.
LEMMA OrderResume ==
  ASSUME NEW q \in RequestRecords, SlotOrdered(q), NEW pc, NEW h, NEW s, NEW d
  PROVE  /\ SlotOrdered([q EXCEPT !.pc = pc])
         /\ SlotOrdered([q EXCEPT !.pc = pc, !.hash = h])
         /\ SlotOrdered([q EXCEPT !.pc = pc, !.hash = h, !.signHash = s])
         /\ SlotOrdered([q EXCEPT !.pc = pc, !.snap.hash = h, !.snap.data = d])
<1>1. q.snap \in ContractRows
  BY DEF RequestRecords
<1> QED BY <1>1 DEF SlotOrdered, Ordered, RequestRecords, ContractRows

\* A write restores a list some handler held, with the signer it allowed.
LEMMA OrderStep ==
  ASSUME TypeOK, OrderInv, NEW r \in Requests, ContractStep(r)
  PROVE  OrderInv'
<1>q. req[r] \in RequestRecords /\ req[r].snap \in ContractRows /\ SlotOrdered(req[r])
  BY SlotType DEF OrderInv
<1>c. contract \in ContractRows /\ Ordered(contract)
  BY DEF OrderInv, TypeOK
<1>s. ASSUME NEW pc, NEW h, NEW s, NEW d, contract' = contract,
        \/ Suspend(r, [req[r] EXCEPT !.pc = pc])
        \/ Suspend(r, [req[r] EXCEPT !.pc = pc, !.hash = h])
        \/ Suspend(r, [req[r] EXCEPT !.pc = pc, !.hash = h, !.signHash = s])
        \/ Suspend(r, [req[r] EXCEPT !.pc = pc, !.snap.hash = h, !.snap.data = d])
        \/ Finish(r)
      PROVE OrderInv'
  BY <1>q, <1>c, <1>s, OrderResume, OrderSuspend, OrderFinish
<1>w. ASSUME NEW row \in ContractRows, Ordered(row)
      PROVE  Ordered(WriteHash(WriteData(row, r), req[r].hash))
  BY <1>w DEF Ordered, WriteHash, WriteData, ContractRows
<1>1. CASE BeginGenerate(r)
  <2>1. SlotOrdered([req[r] EXCEPT !.pc = AfterGuards, !.snap = DraftRow(FALSE, "none")])
    BY <1>q, <1>1 DEF BeginGenerate, At, SlotOrdered, Ordered, DraftRow, NoContract,
                      RequestRecords
  <2> QED BY <1>c, <1>1, <2>1, OrderSuspend, OrderFinish DEF BeginGenerate
<1>2. CASE RecordNewContract(r)
  BY <1>s, <1>2 DEF RecordNewContract, Deny
<1>3. CASE InsertContract(r)
  <2>1. Ordered(contract')
    BY <1>q, <1>c, <1>3 DEF InsertContract, SlotOrdered
  <2> QED BY <1>3, <2>1, OrderFinish DEF InsertContract
<1>4. CASE RecordSignature(r)
  BY <1>s, <1>4 DEF RecordSignature, Deny
<1>5. CASE CommitSignature(r)
  <2> DEFINE row == [contract EXCEPT !.sigs = NewSignatures(r), !.status = SignedStatus(r)]
  <2>1. row \in ContractRows
    BY <1>q, <1>c DEF NewSignatures, SignedStatus, RequestRecords, ContractRows,
                      ContractStatuses
  <2>2. Ordered(row)
    BY <1>q, <1>c, <1>5 DEF CommitSignature, At, SlotOrdered, Ordered, NewSignatures,
                            RequestRecords, ContractRows, Signers
  <2>3. Ordered(WriteHash(WriteData(row, r), req[r].hash))
    BY <1>w, <2>1, <2>2
  <2> QED BY <1>c, <1>5, <2>3, OrderFinish DEF CommitSignature
<1>6. CASE CheckDisbursementPayment(r)
  BY <1>s, <1>6 DEF CheckDisbursementPayment
<1>a. Activated(r) \in ContractRows /\ Ordered(Activated(r))
  BY <1>q, <1>c DEF Activated, Ordered, ContractRows, RequestRecords, ContractStatuses
<1>7. CASE CommitSignAndDisburse(r)
  <2> DEFINE row == [Activated(r) EXCEPT !.sigs = PayoutSignatures(r)]
  <2>1. row \in ContractRows
    BY <1>q, <1>a DEF PayoutSignatures, ContractRows, Signers
  <2>2. Ordered(row)
    BY <1>q, <1>a, <1>7 DEF CommitSignAndDisburse, At, SlotOrdered, Ordered,
                            PayoutSignatures, ContractRows
  <2>3. Ordered(WriteHash(WriteData(row, r), req[r].hash))
    BY <1>w, <2>1, <2>2
  <2> QED BY <1>c, <1>7, <2>3, OrderFinish DEF CommitSignAndDisburse
<1>8. CASE CommitDisburse(r)
  BY <1>a, <1>c, <1>8, OrderFinish DEF CommitDisburse
<1>9. CASE RecordGenerated(r)
  BY <1>s, <1>9 DEF RecordGenerated, Deny
<1>10. CASE CommitPdf(r)
  <2>1. Ordered([contract EXCEPT !.status = "GENERATED", !.hash = req[r].hash])
    BY <1>c DEF Ordered, ContractRows
  <2>2. SlotOrdered([req[r] EXCEPT !.pc = "loan"])
    BY <1>q, OrderResume
  <2> QED BY <1>c, <1>10, <2>1, <2>2, OrderSuspend, OrderFinish DEF CommitPdf
<1>11. CASE MarkLoanGenerated(r)
  BY <1>s, <1>11 DEF MarkLoanGenerated
<1>12. CASE WriteUpdate(r)
  <2>1. Ordered(WriteHash([contract EXCEPT !.status = req[r].status], req[r].hash))
    BY <1>c DEF Ordered, WriteHash, ContractRows
  <2>2. SlotOrdered([req[r] EXCEPT !.pc = "chain"])
    BY <1>q, OrderResume
  <2> QED BY <1>c, <1>12, <2>1, <2>2, OrderSuspend, OrderFinish DEF WriteUpdate
<1>13. CASE BlockchainUpdateFails(r)
  BY <1>s, <1>13 DEF BlockchainUpdateFails
<1>14. CASE RecordUpdate(r)
  BY <1>s, <1>14 DEF RecordUpdate, Deny
<1>15. CASE CommitUpdateHash(r)
  <2>1. Ordered([contract EXCEPT !.hash = req[r].hash])
    BY <1>c DEF Ordered, ContractRows
  <2> QED BY <1>c, <1>15, <2>1, OrderFinish DEF CommitUpdateHash
<1>16. CASE RecordRemoval(r)
  BY <1>s, <1>16 DEF RecordRemoval, Deny
<1>17. CASE DeleteContract(r)
  BY <1>c, <1>17, OrderIdle, OrderFinish DEF DeleteContract
<1> QED
  BY <1>1, <1>2, <1>3, <1>4, <1>5, <1>6, <1>7, <1>8, <1>9, <1>10, <1>11, <1>12,
     <1>13, <1>14, <1>15, <1>16, <1>17 DEF ContractStep

\* The lender's signature never stands alone, whatever the interleaving, the
\* crashes and the number of requests.
THEOREM SignatureOrder == Spec => []BorrowerSignsFirst
<1>1. Init => OrderInv
  BY OrderIdle DEF Init, OrderInv, Ordered, NoContract
<1>2. TypeOK /\ OrderInv /\ [Next]_vars => OrderInv'
  <2> SUFFICES ASSUME TypeOK, OrderInv, [Next]_vars PROVE OrderInv'
    OBVIOUS
  <2>1. ASSUME NEW r \in Requests, LoanCall(r) PROVE OrderInv'
    <3>1. SlotOrdered([Idle EXCEPT !.op = "generateFromLoanApproval", !.pc = "approve"])
      BY OrderIdle DEF SlotOrdered, Ordered, Idle
    <3>2. Ordered(contract')
      BY <2>1, OrderIdle DEF LoanCall, CreateLoan, Review, RemoveLoan, RecordTransaction,
                             UpdateStatus, OrderInv
    <3>3. CASE req' = req
      BY <3>2, <3>3 DEF OrderInv
    <3>4. CASE Review(r) /\ req' # req
      BY <3>1, <3>2, <3>4, OrderSuspend DEF Review
    <3> QED BY <2>1, <3>3, <3>4 DEF LoanCall, CreateLoan, RemoveLoan, RecordTransaction,
                                    UpdateStatus
  <2>2. ASSUME NEW r \in Requests, ContractCall(r) \/ ContractStep(r) PROVE OrderInv'
    BY <2>2, OrderCall, OrderStep
  <2>3. CASE Crash
    BY <2>3, OrderIdle DEF Crash, OrderInv, Ordered
  <2>4. CASE UNCHANGED vars
    BY <2>4 DEF vars, OrderInv, Ordered
  <2> QED BY <2>1, <2>2, <2>3, <2>4 DEF Next, Step
<1>3. OrderInv => BorrowerSignsFirst
  BY DEF OrderInv, Ordered, BorrowerSignsFirst
<1> QED BY <1>1, <1>2, <1>3, TypeCorrect, PTL DEF Spec
-----------------------------------------------------------------------------
(* Slots and the steps that concern them.                                  *)

Creators == {"create", "generateFromLoanApproval"}
Payouts  == {"signAndDisburse", "disburse"}

\* A slot that holds the row of a contract it is going to insert.
Drafting(q) == q.op \in Creators /\ q.pc \in {"chain", "commit"}

-----------------------------------------------------------------------------
(* What a step does to the slot it runs in: empties it, takes it for a     *)
(* handler that has just read the row, draws an id for a new contract, or  *)
(* lets the handler go on.                                                 *)

OtherSlotsKept(r) == \A s \in Requests \ {r} : req'[s] = req[s]

Emptied(r) == req'[r] = Idle

Awaiting(r) == req'[r].op \in Creators /\ req'[r].pc = "approve" /\ req'[r].snap = NoContract

Read(r) ==
  /\ ContractExists /\ contract' = contract
  /\ req'[r].snap = contract
  /\ req'[r].op \notin Creators \union {"NONE"} /\ req'[r].pc # "idle"
  /\ req'[r].op = "signContract" => MaySign(req'[r].signer)
  /\ req'[r].op = "signAndDisburse" =>
       contract.status \in {"GENERATED", "SIGNED", "ACTIVE"} /\ "BORROWER" \in contract.sigs
  /\ req'[r].op = "disburse" => contract.status \in {"SIGNED", "ACTIVE"}
  /\ req'[r].op \in Payouts =>
       (req'[r].pc = "commit" => req'[r].tx = NoTx) /\ (req'[r].tx = NoTx => contract.tx = NoTx)
  /\ req'[r].op = "generateContractPdf" =>
       contract.status \in PdfStatuses /\ req'[r].pc = AfterGuards
  /\ req'[r].op = "remove" => contract.status = "DRAFT"
  /\ req'[r].op = "update" => req'[r].status \in PatchStatuses

DrawsId(r) ==
  /\ req'[r].op \in Creators /\ req'[r].pc \in {"chain", "commit"} /\ contract' = contract
  /\ req'[r].snap.id \in FreshIds
  /\ req'[r].snap.status = "DRAFT" /\ req'[r].snap.sigs = {}
  /\ req'[r].snap.tx = NoTx /\ ~req'[r].snap.scheduled

\* Only generateContractPdf and update write the row and go on after it.
Advances(r, pc) ==
  LET q == req[r]
  IN /\ pc # "idle"
     /\ q.op \notin {"generateContractPdf", "update"} => contract' = contract
     /\ q.op = "generateContractPdf" =>
          \/ q.pc = "chain" /\ pc = "commit" /\ contract' = contract
          \/ /\ q.pc = "commit" /\ pc = "loan"
             /\ contract'.id = q.snap.id /\ contract'.status = "GENERATED"
     /\ q.op = "update" => pc # "write"

\* The row read, and what was computed from the request, stay; a creating
\* handler fills in the hash of the row it holds.
GoesOn(r) ==
  LET q == req[r]  p == req'[r]
  IN /\ q.op # "NONE" /\ p.op = q.op /\ p.signer = q.signer /\ p.tx = q.tx
     /\ p.status = q.status
     /\ p.snap.id = q.snap.id /\ p.snap.status = q.snap.status
     /\ p.snap.sigs = q.snap.sigs /\ p.snap.tx = q.snap.tx
     /\ p.snap.scheduled = q.snap.scheduled
     /\ q.op \notin Creators => p.snap = q.snap
     /\ q.op \in Creators => Drafting(q) /\ Drafting(p)
     /\ q.op \in Payouts => p.pc = "commit" /\ PaymentCompleted(r) /\ UNCHANGED settled
     /\ Advances(r, p.pc)

SlotStep(r) ==
  /\ OtherSlotsKept(r)
  /\ Emptied(r) \/ Awaiting(r) \/ Read(r) \/ DrawsId(r) \/ GoesOn(r)

LEMMA OneSlot ==
  ASSUME TypeOK, NEW r \in Requests, NEW q, Suspend(r, q)
  PROVE  req'[r] = q /\ OtherSlotsKept(r)
BY DEF TypeOK, Suspend, OtherSlotsKept

LEMMA FinishSlot ==
  ASSUME TypeOK, NEW r \in Requests, Finish(r) PROVE SlotStep(r)
BY DEF TypeOK, Finish, SlotStep, Emptied, OtherSlotsKept

LEMMA CallSlot ==
  ASSUME TypeOK, NEW r \in Requests, ContractCall(r), ~Report(r)
  PROVE  SlotStep(r)
<1>1. CASE BeginCreate(r)
  <2>1. PICK client \in ClientRecords, hash \in {"none", "client"} :
          Suspend(r, [Idle EXCEPT !.op = "create", !.pc = "chain",
                               !.snap = DraftRow(client, hash)])
    BY <1>1, ClientHashType DEF BeginCreate
  <2> DEFINE q == [Idle EXCEPT !.op = "create", !.pc = "chain",
                               !.snap = DraftRow(client, hash)]
  <2>q. q.op = "create" /\ q.pc = "chain" /\ q.snap = DraftRow(client, hash)
    BY DEF Idle
  <2> HIDE DEF q
  <2>2. /\ req'[r].op = "create" /\ req'[r].pc = "chain" /\ req'[r].snap = DraftRow(client, hash)
        /\ OtherSlotsKept(r)
    BY <2>1, <2>q, OneSlot DEF q
  <2>3. NewId \in FreshIds
    BY <1>1, FreshIdIsFresh DEF BeginCreate
  <2> HIDE DEF NewId
  <2>4. DrawsId(r)
    BY <1>1, <2>2, <2>3 DEF DrawsId, DraftRow, NoContract, Creators, BeginCreate
  <2> QED BY <2>2, <2>4 DEF SlotStep
<1>2. CASE BeginSign(r)
  <2>1. PICK signer \in Signers, client \in ClientRecords,
             hash \in {"none", "client"} :
          /\ MaySign(signer)
          /\ Suspend(r, [Idle EXCEPT
               !.op = "signContract", !.pc = AfterGuards, !.snap = contract,
               !.signer = signer, !.client = client, !.hash = hash,
               !.signHash = contract.signHash])
    BY <1>2, ClientHashType DEF BeginSign
  <2> DEFINE q == [Idle EXCEPT
               !.op = "signContract", !.pc = AfterGuards, !.snap = contract,
               !.signer = signer, !.client = client, !.hash = hash,
               !.signHash = contract.signHash]
  <2>q. q.op = "signContract" /\ q.snap = contract /\ q.signer = signer /\ q.pc # "idle"
    BY DEF Idle, AfterGuards
  <2>s. Suspend(r, q)
    BY <2>1
  <2> HIDE DEF q
  <2>2. /\ req'[r].op = "signContract" /\ req'[r].snap = contract /\ req'[r].signer = signer
        /\ req'[r].pc # "idle" /\ OtherSlotsKept(r)
    BY <2>q, <2>s, OneSlot
  <2>3. Read(r)
    BY <1>2, <2>1, <2>2 DEF Read, BeginSign, Creators, Payouts
  <2> QED BY <2>2, <2>3 DEF SlotStep
<1>3. ASSUME NEW op \in Payouts, BeginPayout(r, op)
      PROVE  /\ req'[r].op = op /\ req'[r].snap = contract /\ OtherSlotsKept(r)
             /\ req'[r].pc # "idle" /\ (req'[r].pc = "commit" => req'[r].tx = NoTx)
             /\ req'[r].tx = NoTx => contract.tx = NoTx
  <2>1. PICK given \in DisbursementTxs \union {NoTx}, client \in ClientRecords,
             hash \in {"none", "client"} :
          Suspend(r, [Idle EXCEPT
            !.op = op, !.snap = contract, !.tx = ResolvedTx(given),
            !.pc = IF ResolvedTx(given) = NoTx THEN "commit" ELSE "payment",
            !.client = client, !.hash = hash,
            !.signHash = contract.signHash])
    BY <1>3, ClientHashType DEF BeginPayout
  <2> DEFINE pc == IF ResolvedTx(given) = NoTx THEN "commit" ELSE "payment"
             q == [Idle EXCEPT
            !.op = op, !.snap = contract, !.tx = ResolvedTx(given), !.pc = pc,
            !.client = client, !.hash = hash,
            !.signHash = contract.signHash]
  <2>q. q.op = op /\ q.snap = contract /\ q.tx = ResolvedTx(given) /\ q.pc = pc
    BY DEF Idle
  <2>s. Suspend(r, q)
    BY <2>1
  <2> HIDE DEF q
  <2>2. /\ req'[r].op = op /\ req'[r].snap = contract /\ req'[r].tx = ResolvedTx(given)
        /\ req'[r].pc = pc /\ OtherSlotsKept(r)
    BY <2>q, <2>s, OneSlot
  <2> QED BY <2>2 DEF ResolvedTx
<1>4. CASE BeginSignAndDisburse(r)
  <2>1. Read(r)
    BY <1>3, <1>4 DEF BeginSignAndDisburse, Read, Payouts, Creators
  <2> QED BY <1>3, <1>4, <2>1 DEF BeginSignAndDisburse, SlotStep, Payouts
<1>5. CASE BeginDisburse(r)
  <2>1. Read(r)
    BY <1>3, <1>5 DEF BeginDisburse, Read, Payouts, Creators
  <2> QED BY <1>3, <1>5, <2>1 DEF BeginDisburse, SlotStep, Payouts
<1>6. ASSUME NEW op \in {"generateContractPdf", "remove"},
             Suspend(r, [Idle EXCEPT !.op = op, !.pc = AfterGuards, !.snap = contract])
      PROVE  /\ req'[r].op = op /\ req'[r].snap = contract /\ OtherSlotsKept(r)
             /\ req'[r].pc = AfterGuards /\ req'[r].pc # "idle"
  <2> DEFINE q == [Idle EXCEPT !.op = op, !.pc = AfterGuards, !.snap = contract]
  <2>1. q.op = op /\ q.snap = contract /\ q.pc = AfterGuards
    BY DEF Idle
  <2>2. Suspend(r, q)
    BY <1>6
  <2> HIDE DEF q
  <2> QED BY <2>1, <2>2, OneSlot DEF AfterGuards
<1>7. CASE BeginGeneratePdf(r)
  <2>1. Read(r)
    BY <1>6, <1>7 DEF BeginGeneratePdf, Read, Payouts, Creators
  <2> QED BY <1>6, <1>7, <2>1 DEF BeginGeneratePdf, SlotStep
<1>8. CASE BeginUpdate(r)
  <2>1. PICK status \in PatchStatuses, client \in ClientRecords :
          Suspend(r, [Idle EXCEPT
            !.op = "update", !.pc = "write", !.snap = contract, !.status = status,
            !.client = client, !.hash = IF client THEN "client" ELSE "none"])
    BY <1>8 DEF BeginUpdate
  <2> DEFINE q == [Idle EXCEPT
            !.op = "update", !.pc = "write", !.snap = contract, !.status = status,
            !.client = client, !.hash = IF client THEN "client" ELSE "none"]
  <2>q. q.op = "update" /\ q.snap = contract /\ q.status = status /\ q.pc = "write"
    BY DEF Idle
  <2>s. Suspend(r, q)
    BY <2>1
  <2> HIDE DEF q
  <2>2. /\ req'[r].op = "update" /\ req'[r].snap = contract /\ req'[r].status = status
        /\ req'[r].pc = "write" /\ OtherSlotsKept(r)
    BY <2>q, <2>s, OneSlot
  <2>3. Read(r)
    BY <1>8, <2>1, <2>2 DEF Read, BeginUpdate, Creators, Payouts
  <2> QED BY <2>2, <2>3 DEF SlotStep
<1>9. CASE BeginRemove(r)
  <2>1. Read(r)
    BY <1>6, <1>9 DEF BeginRemove, Removable, Read, Payouts, Creators
  <2> QED BY <1>6, <1>9, <2>1 DEF BeginRemove, SlotStep
<1> QED BY <1>1, <1>2, <1>4, <1>5, <1>7, <1>8, <1>9 DEF ContractCall

\* A handler that goes on writes its own program counter and hashes.
LEMMA ResumeSlot ==
  ASSUME TypeOK, NEW r \in Requests, req[r].op # "NONE", req[r].op \notin Creators \union Payouts,
         NEW pc, NEW h, NEW s, Advances(r, pc),
         \/ Suspend(r, [req[r] EXCEPT !.pc = pc])
         \/ Suspend(r, [req[r] EXCEPT !.pc = pc, !.hash = h])
         \/ Suspend(r, [req[r] EXCEPT !.pc = pc, !.hash = h, !.signHash = s])
  PROVE  SlotStep(r)
<1>1. req[r] \in RequestRecords
  BY SlotType
<1>2. ASSUME NEW q, Suspend(r, q), q.op = req[r].op, q.signer = req[r].signer,
             q.tx = req[r].tx, q.status = req[r].status, q.snap = req[r].snap, q.pc = pc
      PROVE  SlotStep(r)
  BY <1>2, OneSlot DEF SlotStep, GoesOn
<1>3. CASE Suspend(r, [req[r] EXCEPT !.pc = pc])
  <2> DEFINE q == [req[r] EXCEPT !.pc = pc]
  <2>1. /\ q.op = req[r].op /\ q.pc = pc /\ q.signer = req[r].signer
        /\ q.tx = req[r].tx /\ q.status = req[r].status /\ q.snap = req[r].snap
    BY <1>1 DEF RequestRecords
  <2> HIDE DEF q
  <2> QED BY <1>2, <1>3, <2>1 DEF q
<1>4. CASE Suspend(r, [req[r] EXCEPT !.pc = pc, !.hash = h])
  <2> DEFINE q == [req[r] EXCEPT !.pc = pc, !.hash = h]
  <2>1. /\ q.op = req[r].op /\ q.pc = pc /\ q.signer = req[r].signer
        /\ q.tx = req[r].tx /\ q.status = req[r].status /\ q.snap = req[r].snap
    BY <1>1 DEF RequestRecords
  <2> HIDE DEF q
  <2> QED BY <1>2, <1>4, <2>1 DEF q
<1>5. CASE Suspend(r, [req[r] EXCEPT !.pc = pc, !.hash = h, !.signHash = s])
  <2> DEFINE q == [req[r] EXCEPT !.pc = pc, !.hash = h, !.signHash = s]
  <2>1. /\ q.op = req[r].op /\ q.pc = pc /\ q.signer = req[r].signer
        /\ q.tx = req[r].tx /\ q.status = req[r].status /\ q.snap = req[r].snap
    BY <1>1 DEF RequestRecords
  <2> HIDE DEF q
  <2> QED BY <1>2, <1>5, <2>1 DEF q
<1> QED BY <1>3, <1>4, <1>5

LEMMA StepSlot ==
  ASSUME TypeOK, NEW r \in Requests, ContractStep(r)
  PROVE  SlotStep(r)
<1>q. req[r] \in RequestRecords /\ req[r].snap \in ContractRows
  BY SlotType
<1>1. CASE BeginGenerate(r)
  <2>1. CASE MayDraft
    <3> DEFINE row == DraftRow(FALSE, "none")
               q == [req[r] EXCEPT !.pc = AfterGuards, !.snap = row]
    <3>1. q.op = req[r].op /\ q.pc = AfterGuards /\ q.snap = row
      BY <1>q DEF RequestRecords
    <3>2. Suspend(r, q) /\ contract' = contract /\ req[r].op = "generateFromLoanApproval"
      BY <1>1, <2>1 DEF BeginGenerate, At
    <3>3. NewId \in FreshIds
      BY <1>1, <2>1, FreshIdIsFresh DEF BeginGenerate
    <3> HIDE DEF NewId
    <3>4. row.id \in FreshIds /\ row.status = "DRAFT" /\ row.sigs = {} /\ row.tx = NoTx
          /\ ~row.scheduled
      BY <3>3 DEF DraftRow, NoContract
    <3>5. AfterGuards \in {"chain", "commit"}
      BY DEF AfterGuards
    <3> HIDE DEF q, row
    <3>6. DrawsId(r) /\ OtherSlotsKept(r)
      BY <3>1, <3>2, <3>4, <3>5, OneSlot DEF DrawsId, Creators
    <3> QED BY <3>6 DEF SlotStep
  <2>2. CASE ~MayDraft
    BY <1>1, <2>2, FinishSlot DEF BeginGenerate
  <2> QED BY <2>1, <2>2
<1>2. CASE RecordNewContract(r)
  <2>0. req[r].op \in Creators /\ req[r].pc = "chain" /\ Advances(r, "commit")
    BY <1>2 DEF RecordNewContract, At, Creators, Advances
  <2>g. ASSUME NEW q, Suspend(r, q), q.op = req[r].op, q.pc = "commit",
               q.signer = req[r].signer, q.tx = req[r].tx, q.status = req[r].status,
               q.snap.id = req[r].snap.id, q.snap.status = req[r].snap.status,
               q.snap.sigs = req[r].snap.sigs, q.snap.tx = req[r].snap.tx,
               q.snap.scheduled = req[r].snap.scheduled
        PROVE  SlotStep(r)
    BY <2>0, <2>g, OneSlot DEF SlotStep, GoesOn, Drafting, Creators, Payouts
  <2>1. CASE Finish(r)
    BY <2>1, FinishSlot
  <2>2. CASE Suspend(r, [req[r] EXCEPT !.pc = "commit"])
    <3> DEFINE q == [req[r] EXCEPT !.pc = "commit"]
    <3>1. /\ q.op = req[r].op /\ q.pc = "commit" /\ q.signer = req[r].signer
          /\ q.tx = req[r].tx /\ q.status = req[r].status /\ q.snap = req[r].snap
      BY <1>q DEF RequestRecords
    <3> HIDE DEF q
    <3> QED BY <2>2, <2>g, <3>1 DEF q
  <2>3. ASSUME NEW ok, NEW data, Suspend(r, [req[r] EXCEPT !.pc = "commit",
                          !.snap.hash = HashFrom(ok, "create"), !.snap.data = data])
        PROVE  SlotStep(r)
    <3> DEFINE h == HashFrom(ok, "create")
               q == [req[r] EXCEPT !.pc = "commit", !.snap.hash = h, !.snap.data = data]
    <3>1. /\ q.op = req[r].op /\ q.pc = "commit" /\ q.signer = req[r].signer
          /\ q.tx = req[r].tx /\ q.status = req[r].status
          /\ q.snap = [req[r].snap EXCEPT !.hash = h, !.data = data]
      BY <1>q DEF RequestRecords
    <3>2. Suspend(r, q)
      BY <2>3
    <3> HIDE DEF q, h
    <3>3. /\ q.snap.id = req[r].snap.id /\ q.snap.status = req[r].snap.status
          /\ q.snap.sigs = req[r].snap.sigs /\ q.snap.tx = req[r].snap.tx
          /\ q.snap.scheduled = req[r].snap.scheduled
      BY <1>q, <3>1 DEF ContractRows
    <3> QED BY <2>g, <3>1, <3>2, <3>3
  <2> QED BY <1>2, <2>1, <2>2, <2>3 DEF RecordNewContract, Deny
<1>3. CASE CheckDisbursementPayment(r)
  <2>1. CASE PaymentCompleted(r)
    <3> DEFINE q == [req[r] EXCEPT !.pc = "commit"]
    <3>1. /\ q.op = req[r].op /\ q.pc = "commit" /\ q.signer = req[r].signer
          /\ q.tx = req[r].tx /\ q.status = req[r].status /\ q.snap = req[r].snap
      BY <1>q DEF RequestRecords
    <3>2. Suspend(r, q) /\ req[r].op \in Payouts /\ UNCHANGED settled
          /\ Advances(r, "commit")
      BY <1>3, <2>1 DEF CheckDisbursementPayment, At, Payouts, Advances
    <3> HIDE DEF q
    <3> QED BY <2>1, <3>1, <3>2, OneSlot DEF SlotStep, GoesOn, Payouts, Creators
  <2>2. CASE Finish(r)
    BY <2>2, FinishSlot
  <2> QED BY <1>3, <2>1, <2>2 DEF CheckDisbursementPayment
<1>4. CASE Finish(r)
  BY <1>4, FinishSlot
<1>5. CASE /\ RecordSignature(r) \/ RecordGenerated(r) \/ CommitPdf(r) \/ WriteUpdate(r)
              \/ RecordUpdate(r) \/ RecordRemoval(r)
           /\ ~Finish(r)
  <2>1. req[r].op # "NONE" /\ req[r].op \notin Creators \union Payouts
    BY <1>5 DEF RecordSignature, RecordGenerated, CommitPdf, WriteUpdate, RecordUpdate,
                RecordRemoval, At, Creators, Payouts
  <2>2. \E pc, h, s :
          /\ \/ Suspend(r, [req[r] EXCEPT !.pc = pc])
             \/ Suspend(r, [req[r] EXCEPT !.pc = pc, !.hash = h])
             \/ Suspend(r, [req[r] EXCEPT !.pc = pc, !.hash = h, !.signHash = s])
          /\ Advances(r, pc)
    <3>1. CASE CommitPdf(r)
      <4>1. contract' = [contract EXCEPT !.status = "GENERATED", !.hash = req[r].hash]
            /\ contract.id = req[r].snap.id /\ contract \in ContractRows
        BY <1>5, <3>1 DEF CommitPdf, RowStillThere, TypeOK
      <4>2. contract'.id = req[r].snap.id /\ contract'.status = "GENERATED"
        BY <4>1 DEF ContractRows
      <4>3. Advances(r, "loan") /\ Suspend(r, [req[r] EXCEPT !.pc = "loan"])
        BY <1>5, <3>1, <4>2 DEF CommitPdf, Advances, At
      <4> QED BY <4>3
    <3>2. CASE RecordSignature(r)
      <4>1. Advances(r, "commit")
        BY <3>2 DEF RecordSignature, Advances, At
      <4> QED BY <1>5, <3>2, <4>1 DEF RecordSignature, Deny
    <3>3. CASE RecordGenerated(r)
      <4>1. Advances(r, "commit")
        BY <3>3 DEF RecordGenerated, Advances, At
      <4> QED BY <1>5, <3>3, <4>1 DEF RecordGenerated, Deny
    <3>4. CASE WriteUpdate(r)
      <4>1. Advances(r, "chain")
        BY <3>4 DEF WriteUpdate, Advances, At
      <4> QED BY <1>5, <3>4, <4>1 DEF WriteUpdate
    <3>5. CASE RecordUpdate(r)
      <4>1. Advances(r, "commit")
        BY <3>5 DEF RecordUpdate, Advances, At
      <4> QED BY <1>5, <3>5, <4>1 DEF RecordUpdate, Deny
    <3>6. CASE RecordRemoval(r)
      <4>1. Advances(r, "commit")
        BY <3>6 DEF RecordRemoval, Advances, At
      <4> QED BY <1>5, <3>6, <4>1 DEF RecordRemoval, Deny
    <3> QED BY <1>5, <3>1, <3>2, <3>3, <3>4, <3>5, <3>6
  <2> QED BY <2>1, <2>2, ResumeSlot
<1> QED
  BY <1>1, <1>2, <1>3, <1>4, <1>5
  DEF ContractStep, InsertContract, CommitSignature, CommitSignAndDisburse, CommitDisburse,
      MarkLoanGenerated, BlockchainUpdateFails, CommitUpdateHash, DeleteContract

-----------------------------------------------------------------------------
(* What a step does to the contract row: nothing, removes it, inserts the  *)
(* row a slot holds, or updates some of its columns.                       *)

RowInserted(r) ==
  /\ At(r, Creators, "commit") /\ ~ContractExists /\ LoanExists
  /\ contract' = req[r].snap /\ Emptied(r)

RowSigned(r) ==
  /\ At(r, {"signContract"}, "commit") /\ contract.id = req[r].snap.id /\ Emptied(r)
  /\ contract'.sigs = NewSignatures(r) /\ contract'.status = SignedStatus(r)
  /\ contract'.tx = contract.tx /\ contract'.scheduled = contract.scheduled

RowPaid(r) ==
  /\ At(r, Payouts, "commit") /\ contract.id = req[r].snap.id /\ Emptied(r)
  /\ contract'.sigs =
       IF req[r].op = "signAndDisburse" THEN PayoutSignatures(r) ELSE contract.sigs
  /\ contract'.status = "ACTIVE" /\ contract'.tx = req[r].tx /\ contract'.scheduled = TRUE

RowRestated(r) ==
  /\ contract'.sigs = contract.sigs
  /\ contract'.tx = contract.tx /\ contract'.scheduled = contract.scheduled
  /\ \/ contract'.status \in {contract.status, "GENERATED", "REPORTED"}
     \/ req[r].op = "update" /\ contract'.status = req[r].status

RowUpdated(r) ==
  /\ ContractExists /\ contract'.id = contract.id
  /\ RowSigned(r) \/ RowPaid(r) \/ RowRestated(r)
  /\ \/ contract'.hash = contract.hash /\ contract'.signHash = contract.signHash
     \/ /\ req[r].snap.id = contract.id
        /\ contract'.hash \in {contract.hash, req[r].hash}
        /\ contract'.signHash \in {contract.signHash, req[r].signHash}

RowStep(r) ==
  \/ contract' = contract
  \/ contract' = NoContract
  \/ RowInserted(r)
  \/ RowUpdated(r)

LEMMA WrittenColumns ==
  ASSUME TypeOK, NEW r \in Requests, NEW row \in ContractRows, NEW w,
         w = WriteHash(WriteData(row, r), req[r].hash)
  PROVE  /\ w.id = row.id /\ w.status = row.status /\ w.sigs = row.sigs
         /\ w.tx = row.tx /\ w.scheduled = row.scheduled
         /\ w.hash \in {row.hash, req[r].hash}
         /\ w.signHash \in {row.signHash, req[r].signHash}
BY DEF WriteHash, WriteData, ContractRows

\* What the three commits of a signature or a payout leave in the row.
LEMMA SignatureRow ==
  ASSUME TypeOK, NEW r \in Requests, CommitSignature(r), RowStillThere(r)
  PROVE  RowUpdated(r) /\ RowSigned(r)
<1>q. req[r] \in RequestRecords /\ req[r].snap \in ContractRows /\ contract \in ContractRows
  BY SlotType DEF TypeOK
<1> DEFINE row == [contract EXCEPT !.sigs = NewSignatures(r), !.status = SignedStatus(r)]
<1>1. NewSignatures(r) \in SUBSET Signers /\ SignedStatus(r) \in ContractStatuses
  BY <1>q DEF NewSignatures, SignedStatus, RequestRecords, ContractRows, ContractStatuses
<1>2. /\ row \in ContractRows /\ row.id = contract.id /\ row.status = SignedStatus(r)
      /\ row.sigs = NewSignatures(r) /\ row.tx = contract.tx
      /\ row.scheduled = contract.scheduled /\ row.hash = contract.hash
      /\ row.signHash = contract.signHash
  BY <1>q, <1>1 DEF ContractRows
<1>3. contract' = WriteHash(WriteData(row, r), req[r].hash)
  BY DEF CommitSignature
<1> HIDE DEF row
<1>4. /\ contract'.id = row.id /\ contract'.status = row.status /\ contract'.sigs = row.sigs
      /\ contract'.tx = row.tx /\ contract'.scheduled = row.scheduled
      /\ contract'.hash \in {row.hash, req[r].hash}
      /\ contract'.signHash \in {row.signHash, req[r].signHash}
  BY <1>2, <1>3, WrittenColumns
<1>5. At(r, {"signContract"}, "commit") /\ Emptied(r) /\ contract.id = req[r].snap.id
      /\ ContractExists
  BY DEF CommitSignature, RowStillThere, TypeOK, Finish, Emptied
<1> QED BY <1>2, <1>4, <1>5 DEF RowUpdated, RowSigned

LEMMA PayoutRow ==
  ASSUME TypeOK, NEW r \in Requests, CommitSignAndDisburse(r) \/ CommitDisburse(r),
         RowStillThere(r)
  PROVE  RowUpdated(r) /\ RowPaid(r)
<1>q. req[r] \in RequestRecords /\ req[r].snap \in ContractRows /\ contract \in ContractRows
  BY SlotType DEF TypeOK
<1>a. /\ Activated(r) \in ContractRows /\ Activated(r).id = contract.id
      /\ Activated(r).status = "ACTIVE" /\ Activated(r).sigs = contract.sigs
      /\ Activated(r).tx = req[r].tx /\ Activated(r).scheduled = TRUE
      /\ Activated(r).hash = contract.hash /\ Activated(r).signHash = contract.signHash
  BY <1>q DEF Activated, ContractRows, RequestRecords, ContractStatuses
<1>e. At(r, Payouts, "commit") /\ Emptied(r) /\ contract.id = req[r].snap.id /\ ContractExists
  BY DEF CommitSignAndDisburse, CommitDisburse, RowStillThere, At, Payouts, TypeOK, Finish, Emptied
<1>1. CASE CommitSignAndDisburse(r)
  <2> DEFINE row == [Activated(r) EXCEPT !.sigs = PayoutSignatures(r)]
  <2>1. PayoutSignatures(r) \in SUBSET Signers
    BY <1>q DEF PayoutSignatures, ContractRows, Signers
  <2>2. /\ row \in ContractRows /\ row.id = contract.id /\ row.status = "ACTIVE"
        /\ row.sigs = PayoutSignatures(r) /\ row.tx = req[r].tx /\ row.scheduled = TRUE
        /\ row.hash = contract.hash /\ row.signHash = contract.signHash
    BY <1>a, <2>1 DEF ContractRows
  <2>3. contract' = WriteHash(WriteData(row, r), req[r].hash) /\ req[r].op = "signAndDisburse"
    BY <1>1 DEF CommitSignAndDisburse, At
  <2> HIDE DEF row
  <2>4. /\ contract'.id = row.id /\ contract'.status = row.status /\ contract'.sigs = row.sigs
        /\ contract'.tx = row.tx /\ contract'.scheduled = row.scheduled
        /\ contract'.hash \in {row.hash, req[r].hash}
        /\ contract'.signHash \in {row.signHash, req[r].signHash}
    BY <2>2, <2>3, WrittenColumns
  <2> QED BY <1>e, <2>2, <2>3, <2>4 DEF RowUpdated, RowPaid
<1>2. CASE CommitDisburse(r)
  <2>1. contract' = Activated(r) /\ req[r].op = "disburse"
    BY <1>2 DEF CommitDisburse, At
  <2> QED BY <1>a, <1>e, <2>1 DEF RowUpdated, RowPaid
<1> QED BY <1>1, <1>2

LEMMA RestatedRow ==
  ASSUME TypeOK, NEW r \in Requests, RowStillThere(r),
         CommitPdf(r) \/ WriteUpdate(r) \/ CommitUpdateHash(r)
  PROVE  /\ RowUpdated(r) /\ RowRestated(r)
         /\ CommitPdf(r) => contract'.status = "GENERATED"
         /\ WriteUpdate(r) => contract'.status = req[r].status
         /\ CommitUpdateHash(r) => contract'.status = contract.status
<1>c. contract \in ContractRows /\ ContractExists /\ contract.id = req[r].snap.id
  BY DEF TypeOK, RowStillThere
<1>1. CASE CommitPdf(r)
  <2>1. contract' = [contract EXCEPT !.status = "GENERATED", !.hash = req[r].hash]
        /\ req[r].op = "generateContractPdf" /\ req[r].pc = "commit"
    BY <1>1 DEF CommitPdf, At
  <2> QED BY <1>c, <2>1 DEF RowUpdated, RowRestated, ContractRows, WriteUpdate, CommitUpdateHash, At
<1>2. CASE WriteUpdate(r)
  <2>1. contract' = WriteHash([contract EXCEPT !.status = req[r].status], req[r].hash)
        /\ req[r].op = "update" /\ req[r].pc = "write"
    BY <1>2 DEF WriteUpdate, At
  <2> QED BY <1>c, <2>1 DEF RowUpdated, RowRestated, ContractRows, WriteHash, CommitPdf,
                            CommitUpdateHash, At
<1>3. CASE CommitUpdateHash(r)
  <2>1. contract' = [contract EXCEPT !.hash = req[r].hash]
        /\ req[r].op = "update" /\ req[r].pc = "commit"
    BY <1>3 DEF CommitUpdateHash, At
  <2> QED BY <1>c, <2>1 DEF RowUpdated, RowRestated, ContractRows, CommitPdf, WriteUpdate, At
<1> QED BY <1>1, <1>2, <1>3

LEMMA StepRow ==
  ASSUME TypeOK, NEW r \in Requests, ContractStep(r)
  PROVE  RowStep(r)
<1>f. Finish(r) => Emptied(r)
  BY DEF TypeOK, Finish, Emptied
<1>1. CASE InsertContract(r)
  BY <1>1, <1>f DEF InsertContract, RowStep, RowInserted, At, Creators
<1>2. CASE CommitSignature(r) /\ RowStillThere(r)
  BY <1>2, SignatureRow DEF RowStep
<1>3. CASE (CommitSignAndDisburse(r) \/ CommitDisburse(r)) /\ RowStillThere(r)
  BY <1>3, PayoutRow DEF RowStep
<1>4. CASE (CommitPdf(r) \/ WriteUpdate(r) \/ CommitUpdateHash(r)) /\ RowStillThere(r)
  BY <1>4, RestatedRow DEF RowStep
<1>5. CASE DeleteContract(r) /\ RowStillThere(r)
  BY <1>5 DEF DeleteContract, RowStep
<1>6. CASE contract' = contract
  BY <1>6 DEF RowStep
<1> QED
  BY <1>1, <1>2, <1>3, <1>4, <1>5, <1>6
  DEF ContractStep, BeginGenerate, RecordNewContract, CommitSignature, RecordSignature,
      CheckDisbursementPayment, CommitSignAndDisburse, CommitDisburse, RecordGenerated, CommitPdf,
      MarkLoanGenerated, WriteUpdate, BlockchainUpdateFails, RecordUpdate, CommitUpdateHash,
      RecordRemoval, DeleteContract

LEMMA CallRow ==
  ASSUME TypeOK, NEW r \in Requests, ContractCall(r) \/ LoanCall(r)
  PROVE  RowStep(r)
<1>1. CASE Report(r)
  <2>1. contract' = [contract EXCEPT !.status = "REPORTED"] /\ ContractExists
        /\ contract \in ContractRows
    BY <1>1 DEF Report, TypeOK
  <2> QED BY <2>1 DEF RowStep, RowUpdated, RowRestated, ContractRows
<1> QED
  BY <1>1 DEF RowStep, ContractCall, BeginCreate, BeginSign,
     BeginSignAndDisburse, BeginDisburse, BeginGeneratePdf, BeginUpdate, BeginRemove,
     LoanCall, CreateLoan, Review, RemoveLoan, RecordTransaction, UpdateStatus, Call

\* The slots after a call on a loan, a report or a transaction.
LEMMA LoanCallSlot ==
  ASSUME TypeOK, NEW r \in Requests, LoanCall(r) \/ Report(r)
  PROVE  (req' = req /\ req[r].pc = "idle") \/ SlotStep(r)
<1>1. ASSUME Suspend(r, [Idle EXCEPT !.op = "generateFromLoanApproval", !.pc = "approve"])
      PROVE  SlotStep(r)
  <2> DEFINE q == [Idle EXCEPT !.op = "generateFromLoanApproval", !.pc = "approve"]
  <2>1. q.op = "generateFromLoanApproval" /\ q.pc = "approve" /\ q.snap = NoContract
    BY DEF Idle
  <2> HIDE DEF q
  <2> QED BY <1>1, <2>1, OneSlot DEF q, SlotStep, Awaiting, Creators
<1> QED
  BY <1>1 DEF LoanCall, CreateLoan, Review, RemoveLoan, RecordTransaction, UpdateStatus, Report,
     Call

\* Every step: what becomes of the slots and of the row.
LEMMA StepSums ==
  ASSUME TypeOK, Next
  PROVE  \/ \E r \in Requests :
              ((req' = req /\ req[r].pc = "idle") \/ SlotStep(r)) /\ RowStep(r)
         \/ contract' = contract /\ req' = [r \in Requests |-> Idle]
BY CallSlot, CallRow, StepSlot, StepRow, LoanCallSlot DEF Next, Step, Crash

-----------------------------------------------------------------------------
(* What slots hold.  A row that is going to be inserted has an id nothing  *)
(* else refers to, so no snapshot is ever of a contract inserted later.    *)

DraftHeld(r) ==
  LET q == req[r]
  IN /\ q.snap.id \in ContractIds /\ contract.id # q.snap.id
     /\ \A s \in Requests \ {r} : req[s].snap.id # q.snap.id
     /\ q.snap.status = "DRAFT" /\ q.snap.sigs = {}
     /\ q.snap.tx = NoTx /\ ~q.snap.scheduled

SlotHeld(r) ==
  LET q == req[r]
  IN /\ Drafting(q) => DraftHeld(r)
     /\ q.op \in Creators => Drafting(q) \/ q.snap = NoContract
     /\ q.op \notin Creators \union {"NONE"} => q.snap.id # 0
     /\ q.op = "NONE" => q = Idle
     /\ q.op = "update" => q.status \in PatchStatuses

HeldInv == \A r \in Requests : SlotHeld(r)

LEMMA IdleHeld ==
  ASSUME NEW r \in Requests
  PROVE  req[r] = Idle => SlotHeld(r)
BY DEF SlotHeld, Idle, Drafting, Creators

LEMMA ZeroIsNoId == 0 \notin ContractIds /\ NoContract.id = 0 /\ Idle.snap = NoContract
BY DEF ContractIds, NoContract, Idle

\* The id of the row after a step is the one it had, none, or that of a slot.
LEMMA NextRowId ==
  ASSUME TypeOK, HeldInv, NEW r \in Requests, RowStep(r)
  PROVE  contract'.id \in {contract.id, 0} \/ (RowInserted(r) /\ contract'.id = req[r].snap.id)
BY ZeroIsNoId DEF RowStep, RowInserted, RowUpdated

LEMMA HeldStep ==
  ASSUME TypeOK, HeldInv, NEW r \in Requests, req' = req \/ SlotStep(r), RowStep(r)
  PROVE  HeldInv'
<1> USE ZeroIsNoId
<1>t. /\ req \in [Requests -> RequestRecords]
      /\ \A s \in Requests : req[s].snap.id \in 0 .. MaxContracts
  BY SlotType DEF TypeOK, ContractRows
\* The snapshots of the slots: as they were, of the row, drawn, or none.
<1>i. /\ \A s \in Requests \ {r} : req'[s] = req[s]
      /\ \/ req'[r].snap.id \in {req[r].snap.id, 0}
         \/ Read(r) /\ req'[r].snap.id = contract.id
         \/ DrawsId(r)
  BY DEF SlotStep, Emptied, Awaiting, Read, GoesOn, OtherSlotsKept
<1>1. ASSUME NEW s \in Requests, s # r PROVE SlotHeld(s)'
  <2>1. req'[s] = req[s] /\ SlotHeld(s)
    BY <1>1, <1>i DEF HeldInv
  <2>2. ASSUME Drafting(req[s]) PROVE DraftHeld(s)'
    <3>1. DraftHeld(s)
      BY <2>1, <2>2 DEF SlotHeld
    <3>2. contract'.id # req[s].snap.id
      BY <1>1, <3>1, NextRowId DEF DraftHeld
    <3>3. req'[r].snap.id # req[s].snap.id
      BY <1>1, <1>i, <3>1 DEF DraftHeld, DrawsId, FreshIds
    <3>4. \A b \in Requests \ {s} : req'[b].snap.id # req[s].snap.id
      BY <1>i, <3>1, <3>3 DEF DraftHeld
    <3> QED BY <2>1, <3>1, <3>2, <3>4 DEF DraftHeld
  <2> QED BY <2>1, <2>2 DEF SlotHeld
<1>2. SlotHeld(r)'
  <2>0. SlotHeld(r)
    BY DEF HeldInv
  <2>1. CASE req' = req
    <3>1. ASSUME Drafting(req[r]) PROVE DraftHeld(r)'
      <4>1. DraftHeld(r)
        BY <2>0, <3>1 DEF SlotHeld
      <4>2. ~RowInserted(r)
        BY <2>1, <4>1 DEF RowInserted, Emptied, DraftHeld
      <4> QED BY <2>1, <4>1, <4>2, NextRowId DEF DraftHeld
    <3> QED BY <2>0, <2>1, <3>1 DEF SlotHeld
  <2>2. CASE Emptied(r)
    BY <2>2 DEF Emptied, SlotHeld, Idle, Drafting, Creators
  <2>3. CASE Awaiting(r)
    BY <2>3 DEF Awaiting, SlotHeld, Drafting, Creators
  <2>4. CASE Read(r)
    BY <2>4 DEF Read, SlotHeld, Drafting, ContractExists
  <2>5. CASE DrawsId(r)
    <3>1. /\ req'[r].snap.id \in ContractIds /\ contract'.id # req'[r].snap.id
          /\ \A s \in Requests \ {r} : req'[s].snap.id # req'[r].snap.id
      BY <1>i, <2>5 DEF DrawsId, FreshIds
    <3> QED BY <2>5, <3>1 DEF DrawsId, SlotHeld, DraftHeld, Drafting, Creators
  <2>6. CASE GoesOn(r)
    <3>1. ASSUME Drafting(req'[r]) PROVE DraftHeld(r)'
      <4>1. Drafting(req[r]) /\ DraftHeld(r)
        BY <2>0, <2>6, <3>1 DEF GoesOn, SlotHeld, Drafting
      <4>2. ~RowInserted(r)
        BY <2>6, <4>1 DEF GoesOn, RowInserted, Emptied, Idle
      <4>3. contract'.id # req[r].snap.id
        BY <4>1, <4>2, NextRowId DEF DraftHeld
      <4> QED BY <1>i, <2>6, <4>1, <4>3 DEF GoesOn, DraftHeld
    <3> QED BY <2>0, <2>6, <3>1 DEF GoesOn, SlotHeld
  <2> QED BY <2>1, <2>2, <2>3, <2>4, <2>5, <2>6 DEF SlotStep
<1> QED BY <1>1, <1>2 DEF HeldInv

LEMMA AlwaysHeld == Spec => [](TypeOK /\ HeldInv)
<1>1. Init => HeldInv
  BY IdleHeld DEF Init, HeldInv
<1>2. TypeOK /\ HeldInv /\ [Next]_vars => HeldInv'
  <2> SUFFICES ASSUME TypeOK, HeldInv, [Next]_vars PROVE HeldInv'
    OBVIOUS
  <2>1. CASE Next
    <3>1. CASE contract' = contract /\ req' = [r \in Requests |-> Idle]
      BY <3>1 DEF HeldInv, SlotHeld, Idle, Drafting, Creators
    <3> QED BY <2>1, <3>1, StepSums, HeldStep
  <2>2. CASE UNCHANGED vars
    BY <2>2 DEF vars, HeldInv, SlotHeld, DraftHeld
  <2> QED BY <2>1, <2>2
<1> QED BY <1>1, <1>2, TypeCorrect, PTL DEF Spec

-----------------------------------------------------------------------------
(* SIGNED and the signatures.  A handler writes a status and a list it read *)
(* together, so it is enough that they belonged together when it read them. *)

BothOn(row) == row.status = "SIGNED" => row.sigs = Signers

SlotSigned(q) ==
  /\ BothOn(q.snap)
  /\ q.op = "signContract" => q.signer \notin q.snap.sigs

SignedInv == BothOn(contract) /\ \A r \in Requests : SlotSigned(req[r])

LEMMA SignedStep ==
  ASSUME TypeOK, HeldInv, SignedInv, "SIGNED" \notin PatchStatuses,
         NEW r \in Requests, req' = req \/ SlotStep(r), RowStep(r)
  PROVE  SignedInv'
<1>b. BothOn(NoContract) /\ SlotSigned(Idle)
  BY DEF BothOn, SlotSigned, NoContract, Idle
<1>q. SlotHeld(r) /\ SlotSigned(req[r]) /\ BothOn(contract) /\ req[r].signer \in Signers
  BY SlotType DEF HeldInv, SignedInv
<1>1. BothOn(contract')
  <2>1. CASE RowInserted(r)
    BY <1>q, <2>1 DEF RowInserted, SlotSigned
  <2>2. CASE RowSigned(r)
    BY <1>q, <2>2 DEF RowSigned, At, SlotSigned, BothOn, NewSignatures, SignedStatus
  <2>3. CASE RowPaid(r)
    BY <2>3 DEF RowPaid, BothOn
  <2>4. CASE RowRestated(r)
    BY <1>q, <2>4 DEF RowRestated, SlotHeld, BothOn
  <2> QED BY <1>b, <1>q, <2>1, <2>2, <2>3, <2>4 DEF RowStep, RowUpdated
<1>2. SlotSigned(req'[r])
  <2>1. CASE Emptied(r)
    BY <1>b, <2>1 DEF Emptied
  <2>2. CASE Awaiting(r)
    BY <1>b, <2>2 DEF Awaiting, SlotSigned, Creators
  <2>3. CASE Read(r)
    BY <1>q, <2>3 DEF Read, MaySign, SlotSigned
  <2>4. CASE DrawsId(r)
    BY <2>4 DEF DrawsId, SlotSigned, BothOn, Creators
  <2>5. CASE GoesOn(r)
    BY <1>q, <2>5 DEF GoesOn, SlotSigned, BothOn
  <2> QED BY <1>q, <2>1, <2>2, <2>3, <2>4, <2>5 DEF SlotStep
<1>3. \A s \in Requests \ {r} : req'[s] = req[s]
  BY DEF SlotStep, OtherSlotsKept
<1> QED BY <1>1, <1>2, <1>3 DEF SignedInv

\* A row with status SIGNED carries both signatures, however stale the rows the
\* handlers write back, unless a client may patch the status to SIGNED itself.
THEOREM SignedHolds ==
  ASSUME "SIGNED" \notin PatchStatuses
  PROVE  Spec => []SignedByBoth
<1>1. Init => SignedInv
  BY DEF Init, SignedInv, BothOn, SlotSigned, NoContract, Idle
<1>2. TypeOK /\ HeldInv /\ SignedInv /\ [Next]_vars => SignedInv'
  <2> SUFFICES ASSUME TypeOK, HeldInv, SignedInv, [Next]_vars PROVE SignedInv'
    OBVIOUS
  <2>1. CASE contract' = contract /\ req' = [r \in Requests |-> Idle]
    BY <2>1 DEF SignedInv, BothOn, SlotSigned, NoContract, Idle
  <2>2. CASE UNCHANGED vars
    BY <2>2 DEF vars, SignedInv
  <2> QED BY <2>1, <2>2, StepSums, SignedStep
<1>3. SignedInv => SignedByBoth
  BY DEF SignedInv, BothOn, SignedByBoth
<1> QED BY <1>1, <1>2, <1>3, AlwaysHeld, PTL DEF Spec

-----------------------------------------------------------------------------
(* ACTIVE and the schedules.  signContract may restore ACTIVE from what it *)
(* read; schedules are never taken from a contract again, and no contract  *)
(* is inserted under an id that was read before.                           *)

SlotScheduled(q) ==
  q.snap.status = "ACTIVE" /\ ContractExists /\ q.snap.id = contract.id
    => contract.scheduled

ScheduledInv == ActiveIsScheduled /\ \A r \in Requests : SlotScheduled(req[r])

LEMMA ScheduledStep ==
  ASSUME TypeOK, HeldInv, ScheduledInv, "ACTIVE" \notin PatchStatuses,
         NEW r \in Requests, req' = req \/ SlotStep(r), RowStep(r)
  PROVE  ScheduledInv'
<1>b. NoContract.status # "ACTIVE" /\ NoContract.id = 0 /\ Idle.snap = NoContract
  BY DEF NoContract, Idle
<1>q. SlotHeld(r) /\ SlotScheduled(req[r]) /\ ActiveIsScheduled
  BY DEF HeldInv, ScheduledInv
<1>3. \A s \in Requests \ {r} : req'[s] = req[s]
  BY DEF SlotStep, OtherSlotsKept
<1>d. RowInserted(r) => DraftHeld(r)
  BY <1>q DEF RowInserted, At, SlotHeld, Drafting
<1>1. ActiveIsScheduled'
  <2>1. CASE RowInserted(r)
    BY <1>d, <2>1 DEF RowInserted, DraftHeld, ActiveIsScheduled
  <2>2. CASE RowSigned(r) /\ ContractExists
    BY <1>q, <2>2 DEF RowSigned, SignedStatus, SlotScheduled, ActiveIsScheduled
  <2>3. CASE RowPaid(r)
    BY <2>3 DEF RowPaid, ActiveIsScheduled
  <2>4. CASE RowRestated(r)
    BY <1>q, <2>4 DEF RowRestated, SlotHeld, ActiveIsScheduled
  <2> QED BY <1>b, <1>q, <2>1, <2>2, <2>3, <2>4 DEF RowStep, RowUpdated, ActiveIsScheduled
\* What was read of the contract that is there now stays true of it.
<1>2. ASSUME NEW s \in Requests, req'[s].snap.id = req[s].snap.id,
             req'[s].snap.status = req[s].snap.status
      PROVE  SlotScheduled(req[s])'
  <2>1. SlotScheduled(req[s])
    BY DEF ScheduledInv
  <2>2. CASE contract' = contract
    BY <1>2, <2>1, <2>2 DEF SlotScheduled, ContractExists
  <2>3. CASE contract' = NoContract
    BY <1>b, <2>3 DEF SlotScheduled, ContractExists
  <2>4. CASE RowInserted(r)
    <3>1. s # r => req'[s].snap.id # contract'.id
      BY <1>d, <1>2, <2>4 DEF RowInserted, DraftHeld
    <3>2. s = r => req'[s].snap.status # "ACTIVE"
      BY <1>b, <2>4 DEF RowInserted, Emptied
    <3> QED BY <3>1, <3>2 DEF SlotScheduled
  <2>5. CASE RowUpdated(r)
    <3>1. contract'.scheduled = contract.scheduled \/ contract'.scheduled
      BY <2>5 DEF RowUpdated, RowSigned, RowPaid, RowRestated
    <3> QED BY <1>2, <2>1, <2>5, <3>1 DEF RowUpdated, SlotScheduled
  <2> QED BY <2>2, <2>3, <2>4, <2>5 DEF RowStep
<1>4. SlotScheduled(req[r])'
  <2>1. CASE Emptied(r) \/ Awaiting(r) \/ DrawsId(r)
    BY <1>b, <2>1 DEF Emptied, Awaiting, DrawsId, SlotScheduled
  <2>2. CASE Read(r)
    BY <1>q, <2>2 DEF Read, SlotScheduled, ActiveIsScheduled
  <2>3. CASE GoesOn(r) \/ req' = req
    BY <1>2, <2>3 DEF GoesOn
  <2> QED BY <2>1, <2>2, <2>3 DEF SlotStep
<1> QED BY <1>1, <1>2, <1>3, <1>4 DEF ScheduledInv

\* An ACTIVE contract has its payment schedules, whatever the interleaving,
\* unless a client may patch the status to ACTIVE itself.
THEOREM ActiveIsScheduledHolds ==
  ASSUME "ACTIVE" \notin PatchStatuses
  PROVE  Spec => []ActiveIsScheduled
<1>1. Init => ScheduledInv
  BY DEF Init, ScheduledInv, ActiveIsScheduled, SlotScheduled, NoContract, Idle
<1>2. TypeOK /\ HeldInv /\ ScheduledInv /\ [Next]_vars => ScheduledInv'
  <2> SUFFICES ASSUME TypeOK, HeldInv, ScheduledInv, [Next]_vars PROVE ScheduledInv'
    OBVIOUS
  <2>1. CASE contract' = contract /\ req' = [r \in Requests |-> Idle]
    BY <2>1 DEF ScheduledInv, ActiveIsScheduled, SlotScheduled, NoContract, Idle
  <2>2. CASE UNCHANGED vars
    BY <2>2 DEF vars, ScheduledInv, ActiveIsScheduled, SlotScheduled, ContractExists
  <2> QED BY <2>1, <2>2, StepSums, ScheduledStep
<1>3. ScheduledInv => ActiveIsScheduled
  BY DEF ScheduledInv
<1> QED BY <1>1, <1>2, <1>3, AlwaysHeld, PTL DEF Spec

-----------------------------------------------------------------------------
(* The payment named by a disbursement.  Its check, the write and the      *)
(* transaction's own updates are separate, so the invariant follows the    *)
(* pair from the transaction over the handler to the row.                  *)

TxSettled == \A t \in DisbursementTxs :
  dtx[t].status = "COMPLETED" /\ dtx[t].owner # 0 => <<t, dtx[t].owner>> \in settled

SlotPaid(q) ==
  q.op \in Payouts /\ q.pc = "commit" /\ q.tx # NoTx => <<q.tx, q.snap.id>> \in settled

PaidInv == DisbursementWasPaid /\ TxSettled /\ \A r \in Requests : SlotPaid(req[r])

\* What is settled stays so, and a COMPLETED transaction is settled.
LEMMA TransactionStep ==
  ASSUME TypeOK, TxSettled, Next
  PROVE  settled \subseteq settled' /\ TxSettled'
<1>1. CASE UNCHANGED <<dtx, settled>>
  BY <1>1 DEF TxSettled
<1>2. ASSUME NEW r \in Requests, RecordTransaction(r)
      PROVE  settled \subseteq settled' /\ TxSettled'
  BY <1>2 DEF RecordTransaction, TxSettled, TypeOK, TransactionRows
<1>3. ASSUME NEW r \in Requests, UpdateStatus(r)
      PROVE  settled \subseteq settled' /\ TxSettled'
  BY <1>3 DEF UpdateStatus, TxSettled, TypeOK, TransactionRows
<1>4. ASSUME NEW r \in Requests, RemoveLoan(r)
      PROVE  settled \subseteq settled' /\ TxSettled'
  BY <1>4 DEF RemoveLoan, TxSettled, TypeOK, NoTransaction
<1>5. ASSUME NEW r \in Requests, DeleteContract(r)
      PROVE  settled \subseteq settled' /\ TxSettled'
  <2>1. dtx' = dtx \/ dtx' = Disown(contract.id)
    BY <1>5 DEF DeleteContract
  <2>2. settled' = settled
    BY <1>5 DEF DeleteContract
  <2> QED BY <2>1, <2>2 DEF Disown, TxSettled, TypeOK, TransactionRows
<1>6. ASSUME NEW r \in Requests, ContractCall(r) \/ ContractStep(r), ~DeleteContract(r)
      PROVE  UNCHANGED <<dtx, settled>>
  BY <1>6 DEF ContractCall, BeginCreate, BeginSign, BeginSignAndDisburse,
     BeginDisburse, BeginGeneratePdf, BeginUpdate, BeginRemove, Report,
     ContractStep, BeginGenerate, RecordNewContract, InsertContract, CommitSignature,
     RecordSignature, CheckDisbursementPayment, CommitSignAndDisburse, CommitDisburse,
     RecordGenerated, CommitPdf, MarkLoanGenerated, WriteUpdate, BlockchainUpdateFails,
     RecordUpdate, CommitUpdateHash, RecordRemoval
<1> QED
  BY <1>1, <1>2, <1>3, <1>4, <1>5, <1>6 DEF Next, Step, Crash, LoanCall, CreateLoan, Review

LEMMA PaidStep ==
  ASSUME TypeOK, HeldInv, PaidInv, settled \subseteq settled', TxSettled',
         NEW r \in Requests, req' = req \/ SlotStep(r), RowStep(r)
  PROVE  PaidInv'
<1>b. NoContract.tx = NoTx /\ Idle.op = "NONE"
  BY DEF NoContract, Idle
<1>q. SlotHeld(r) /\ SlotPaid(req[r]) /\ DisbursementWasPaid /\ TxSettled
      /\ req[r].tx \in DisbursementTxs \union {NoTx}
  BY SlotType DEF HeldInv, PaidInv
<1>1. DisbursementWasPaid'
  <2>1. CASE RowInserted(r)
    BY <1>q, <2>1 DEF RowInserted, At, SlotHeld, Drafting, DraftHeld, DisbursementWasPaid
  <2>2. CASE RowPaid(r) /\ contract'.id = contract.id
    BY <1>q, <2>2 DEF RowPaid, At, SlotPaid, DisbursementWasPaid
  <2>3. CASE contract'.tx = contract.tx /\ contract'.id = contract.id
    BY <1>q, <2>3 DEF DisbursementWasPaid
  <2>4. CASE contract' = NoContract
    BY <1>b, <2>4 DEF DisbursementWasPaid
  <2> QED BY <2>1, <2>2, <2>3, <2>4 DEF RowStep, RowUpdated, RowSigned, RowRestated
<1>2. SlotPaid(req[r])'
  <2>1. CASE Emptied(r)
    BY <1>b, <2>1 DEF Emptied, SlotPaid, Payouts
  <2>2. CASE Awaiting(r) \/ DrawsId(r)
    BY <2>2 DEF Awaiting, DrawsId, SlotPaid, Payouts, Creators
  <2>3. CASE Read(r)
    BY <2>3 DEF Read, SlotPaid
  <2>4. CASE GoesOn(r) /\ req[r].op \in Payouts
    <3>1. PaymentCompleted(r) /\ req[r].snap.id # 0
      BY <1>q, <2>4 DEF GoesOn, SlotHeld, Payouts, Creators
    <3>2. req[r].tx # NoTx => <<req[r].tx, req[r].snap.id>> \in settled
      BY <1>q, <3>1 DEF PaymentCompleted, TxSettled
    <3> QED BY <2>4, <3>2 DEF GoesOn, SlotPaid
  <2>5. CASE GoesOn(r) /\ req[r].op \notin Payouts
    BY <2>5 DEF GoesOn, SlotPaid
  <2>6. CASE req' = req
    BY <1>q, <2>6 DEF SlotPaid
  <2> QED BY <2>1, <2>2, <2>3, <2>4, <2>5, <2>6 DEF SlotStep
<1>3. ASSUME NEW s \in Requests \ {r} PROVE SlotPaid(req[s])'
  BY <1>3 DEF SlotStep, OtherSlotsKept, PaidInv, SlotPaid
<1> QED BY <1>1, <1>2, <1>3 DEF PaidInv, SlotPaid

\* The transaction named by disbursementInfo was at some moment a COMPLETED
\* transaction of this very contract, for any workload and any interleaving.
THEOREM DisbursementWasPaidHolds == Spec => []DisbursementWasPaid
<1>1. Init => PaidInv
  BY DEF Init, PaidInv, DisbursementWasPaid, TxSettled, SlotPaid, NoContract, Idle,
         NoTransaction, Payouts
<1>2. TypeOK /\ HeldInv /\ PaidInv /\ [Next]_vars => PaidInv'
  <2> SUFFICES ASSUME TypeOK, HeldInv, PaidInv, [Next]_vars PROVE PaidInv'
    OBVIOUS
  <2>1. CASE Next
    <3>1. settled \subseteq settled' /\ TxSettled'
      BY <2>1, TransactionStep DEF PaidInv
    <3>2. CASE contract' = contract /\ req' = [r \in Requests |-> Idle]
      BY <3>1, <3>2 DEF PaidInv, DisbursementWasPaid, SlotPaid, Idle, Payouts
    <3> QED BY <2>1, <3>1, <3>2, StepSums, PaidStep
  <2>2. CASE UNCHANGED vars
    BY <2>2 DEF vars, PaidInv, DisbursementWasPaid, TxSettled, SlotPaid
  <2> QED BY <2>1, <2>2
<1>3. PaidInv => DisbursementWasPaid
  BY DEF PaidInv
<1> QED BY <1>1, <1>2, <1>3, AlwaysHeld, PTL DEF Spec

-----------------------------------------------------------------------------
(* The hashes and the registry.  Handlers keep hashes across awaits and    *)
(* copy them from one column to another; each names the contract it was    *)
(* returned for, and the registry never forgets.                           *)

BackedIn(c, h, id) ==
  /\ h = "create" => id \in ContractIds /\ c[id].exists
  /\ h = "sign" => id \in ContractIds /\ c[id].signed

RowBackedIn(c, row) == BackedIn(c, row.hash, row.id) /\ BackedIn(c, row.signHash, row.id)

SlotBackedIn(c, q) ==
  /\ RowBackedIn(c, q.snap)
  /\ BackedIn(c, q.hash, q.snap.id) /\ BackedIn(c, q.signHash, q.snap.id)

HashInv == RowBackedIn(chain, contract) /\ \A r \in Requests : SlotBackedIn(chain, req[r])

ChainGrows ==
  \A id \in ContractIds :
    /\ chain[id].exists => chain'[id].exists
    /\ chain[id].signed => chain'[id].signed

LEMMA NextChain == ASSUME TypeOK, Next PROVE ChainGrows
<1>1. ASSUME NEW r \in Requests, NEW id, NEW ok, RecordContract(id, ok)
      PROVE  ChainGrows
  BY <1>1 DEF RecordContract, ChainGrows, TypeOK
<1>2. ASSUME NEW r \in Requests, NEW id, NEW ok, SignOnChain(id, ok)
      PROVE  ChainGrows
  BY <1>2 DEF SignOnChain, ChainGrows, TypeOK
<1>3. CASE chain' = chain
  BY <1>3 DEF ChainGrows
<1>4. ASSUME NEW r \in Requests, RecordNewContract(r) PROVE ChainGrows
  BY <1>1, <1>3, <1>4 DEF RecordNewContract, Deny
<1>5. ASSUME NEW r \in Requests, RecordSignature(r) PROVE ChainGrows
  BY <1>2, <1>3, <1>5 DEF RecordSignature, Deny
<1>6. ASSUME NEW r \in Requests, ContractCall(r) \/ LoanCall(r) PROVE ChainGrows
  BY <1>3, <1>6 DEF ContractCall, BeginCreate, BeginSign, BeginSignAndDisburse,
     BeginDisburse, BeginGeneratePdf, BeginUpdate, BeginRemove, Report,
     LoanCall, CreateLoan, Review, RemoveLoan, RecordTransaction, UpdateStatus
<1>7. ASSUME NEW r \in Requests, ContractStep(r), ~RecordNewContract(r), ~RecordSignature(r)
      PROVE  ChainGrows
  BY <1>3, <1>7 DEF ContractStep, BeginGenerate, InsertContract, CommitSignature,
     CheckDisbursementPayment, CommitSignAndDisburse, CommitDisburse,
     RecordGenerated, CommitPdf, MarkLoanGenerated, WriteUpdate, BlockchainUpdateFails,
     RecordUpdate, CommitUpdateHash, RecordRemoval, DeleteContract, UpdateOnChain, Deny
<1> QED BY <1>3, <1>4, <1>5, <1>6, <1>7 DEF Next, Step, Crash

LEMMA OtherKinds ==
  ASSUME NEW c, NEW h \in {"none", "client", "status"}, NEW id
  PROVE  BackedIn(c, h, id)
BY DEF BackedIn

LEMMA StillBacked ==
  ASSUME TypeOK, HashInv, ChainGrows
  PROVE  RowBackedIn(chain', contract) /\ \A r \in Requests : SlotBackedIn(chain', req[r])
BY DEF HashInv, ChainGrows, RowBackedIn, SlotBackedIn, BackedIn

\* What a call puts into its slot.
LEMMA CallHashes ==
  ASSUME TypeOK, NEW r \in Requests, ContractCall(r), ~Report(r),
         RowBackedIn(chain', contract)
  PROVE  SlotBackedIn(chain', req'[r])
<1>b. \A id : /\ BackedIn(chain', "none", id) /\ BackedIn(chain', "client", id)
  BY OtherKinds
<1>h. \A client \in ClientRecords : (IF client THEN "client" ELSE "none") \in {"none", "client"}
  OBVIOUS
<1>g. ASSUME NEW q, Suspend(r, q), q.snap = contract, q.hash \in {"none", "client"},
             q.signHash \in {"none", contract.signHash}
      PROVE  SlotBackedIn(chain', req'[r])
  <2>1. req'[r] = q
    BY <1>g, OneSlot
  <2> QED BY <1>b, <1>g, <2>1 DEF SlotBackedIn, RowBackedIn
<1>1. CASE BeginCreate(r)
  <2>1. PICK client \in ClientRecords, hash \in {"none", "client"} :
          Suspend(r, [Idle EXCEPT !.op = "create", !.pc = "chain",
                               !.snap = DraftRow(client, hash)])
    BY <1>1, ClientHashType DEF BeginCreate
  <2> DEFINE q == [Idle EXCEPT !.op = "create", !.pc = "chain",
                               !.snap = DraftRow(client, hash)]
  <2>2. q.snap = DraftRow(client, hash) /\ q.hash = "none" /\ q.signHash = "none" /\ Suspend(r, q)
    BY <2>1 DEF Idle
  <2>3. DraftRow(client, hash).hash \in {"none", "client"} /\ DraftRow(client, hash).signHash = "none"
    BY ClientHashType DEF DraftRow, NoContract
  <2> HIDE DEF q
  <2>4. req'[r] = q
    BY <2>2, OneSlot
  <2> QED BY <1>b, <2>2, <2>3, <2>4 DEF SlotBackedIn, RowBackedIn
<1>2. CASE BeginSign(r)
  <2>1. PICK signer \in Signers, client \in ClientRecords,
             hash \in {"none", "client"} :
          Suspend(r, [Idle EXCEPT
               !.op = "signContract", !.pc = AfterGuards, !.snap = contract,
               !.signer = signer, !.client = client, !.hash = hash,
               !.signHash = contract.signHash])
    BY <1>2, ClientHashType DEF BeginSign
  <2> DEFINE q == [Idle EXCEPT
               !.op = "signContract", !.pc = AfterGuards, !.snap = contract,
               !.signer = signer, !.client = client, !.hash = hash,
               !.signHash = contract.signHash]
  <2>2. q.snap = contract /\ q.hash = hash /\ q.signHash = contract.signHash /\ Suspend(r, q)
    BY <2>1 DEF Idle
  <2> HIDE DEF q
  <2> QED BY <1>g, <2>2, ClientHashType
<1>3. ASSUME NEW op, BeginPayout(r, op) PROVE SlotBackedIn(chain', req'[r])
  <2>1. PICK given \in DisbursementTxs \union {NoTx}, client \in ClientRecords,
             hash \in {"none", "client"} :
          Suspend(r, [Idle EXCEPT
            !.op = op, !.snap = contract, !.tx = ResolvedTx(given),
            !.pc = IF ResolvedTx(given) = NoTx THEN "commit" ELSE "payment",
            !.client = client, !.hash = hash,
            !.signHash = contract.signHash])
    BY <1>3, ClientHashType DEF BeginPayout
  <2> DEFINE pc == IF ResolvedTx(given) = NoTx THEN "commit" ELSE "payment"
             q == [Idle EXCEPT
            !.op = op, !.snap = contract, !.tx = ResolvedTx(given), !.pc = pc,
            !.client = client, !.hash = hash, !.signHash = contract.signHash]
  <2>2. q.snap = contract /\ q.hash = hash /\ q.signHash = contract.signHash /\ Suspend(r, q)
    BY <2>1 DEF Idle
  <2> HIDE DEF q
  <2> QED BY <1>g, <2>2, ClientHashType
<1>4. ASSUME NEW op, Suspend(r, [Idle EXCEPT !.op = op, !.pc = AfterGuards, !.snap = contract])
      PROVE  SlotBackedIn(chain', req'[r])
  <2> DEFINE q == [Idle EXCEPT !.op = op, !.pc = AfterGuards, !.snap = contract]
  <2>1. q.snap = contract /\ q.hash = "none" /\ q.signHash = "none" /\ Suspend(r, q)
    BY <1>4 DEF Idle
  <2> HIDE DEF q
  <2> QED BY <1>g, <2>1
<1>5. CASE BeginUpdate(r)
  <2>1. PICK status \in PatchStatuses, client \in ClientRecords :
          Suspend(r, [Idle EXCEPT
            !.op = "update", !.pc = "write", !.snap = contract, !.status = status,
            !.client = client, !.hash = IF client THEN "client" ELSE "none"])
    BY <1>5 DEF BeginUpdate
  <2> DEFINE h == IF client THEN "client" ELSE "none"
             q == [Idle EXCEPT
            !.op = "update", !.pc = "write", !.snap = contract, !.status = status,
            !.client = client, !.hash = h]
  <2>2. q.snap = contract /\ q.hash = h /\ q.signHash = "none" /\ Suspend(r, q)
    BY <2>1 DEF Idle
  <2> HIDE DEF q
  <2> QED BY <1>g, <2>2
<1> QED
  BY <1>1, <1>2, <1>3, <1>4, <1>5
  DEF ContractCall, BeginSignAndDisburse, BeginDisburse, BeginGeneratePdf, BeginRemove

\* What a running handler keeps or learns: a result of the registry names the
\* contract the call was made for.
LEMMA StepHashes ==
  ASSUME TypeOK, NEW r \in Requests, ContractStep(r), SlotBackedIn(chain', req[r]),
         Drafting(req[r]) => req[r].snap.id \in ContractIds,
         req[r].op \in Creators => Drafting(req[r]) \/ req[r].snap = NoContract,
         req[r].op = "signContract" => req[r].snap.id # 0
  PROVE  SlotBackedIn(chain', req'[r])
<1>b. \A id : /\ BackedIn(chain', "none", id) /\ BackedIn(chain', "client", id)
              /\ BackedIn(chain', "status", id)
  BY OtherKinds
<1>q. req[r] \in RequestRecords /\ req[r].snap \in ContractRows
  BY SlotType
<1>r. /\ BackedIn(chain', req[r].snap.hash, req[r].snap.id)
      /\ BackedIn(chain', req[r].snap.signHash, req[r].snap.id)
      /\ BackedIn(chain', req[r].hash, req[r].snap.id)
      /\ BackedIn(chain', req[r].signHash, req[r].snap.id)
  BY DEF SlotBackedIn, RowBackedIn
<1>f. ASSUME Finish(r) PROVE SlotBackedIn(chain', req'[r])
  <2>1. req'[r] = Idle
    BY <1>f DEF Finish, TypeOK
  <2> QED BY <1>b, <2>1 DEF SlotBackedIn, RowBackedIn, Idle, NoContract
<1>p. ASSUME NEW pc, Suspend(r, [req[r] EXCEPT !.pc = pc])
      PROVE  SlotBackedIn(chain', req'[r])
  <2> DEFINE q == [req[r] EXCEPT !.pc = pc]
  <2>1. q.snap = req[r].snap /\ q.hash = req[r].hash /\ q.signHash = req[r].signHash
        /\ Suspend(r, q)
    BY <1>p, <1>q DEF RequestRecords
  <2> HIDE DEF q
  <2> QED BY <1>r, <2>1, OneSlot DEF SlotBackedIn, RowBackedIn
<1>h. ASSUME NEW pc, NEW h, Suspend(r, [req[r] EXCEPT !.pc = pc, !.hash = h]),
             BackedIn(chain', h, req[r].snap.id)
      PROVE  SlotBackedIn(chain', req'[r])
  <2> DEFINE q == [req[r] EXCEPT !.pc = pc, !.hash = h]
  <2>1. q.snap = req[r].snap /\ q.hash = h /\ q.signHash = req[r].signHash
        /\ Suspend(r, q)
    BY <1>h, <1>q DEF RequestRecords
  <2> HIDE DEF q
  <2> QED BY <1>h, <1>r, <2>1, OneSlot DEF SlotBackedIn, RowBackedIn
<1>s. ASSUME NEW pc, NEW h, Suspend(r, [req[r] EXCEPT !.pc = pc, !.hash = h, !.signHash = h]),
             BackedIn(chain', h, req[r].snap.id)
      PROVE  SlotBackedIn(chain', req'[r])
  <2> DEFINE q == [req[r] EXCEPT !.pc = pc, !.hash = h, !.signHash = h]
  <2>1. q.snap = req[r].snap /\ q.hash = h /\ q.signHash = h /\ Suspend(r, q)
    BY <1>s, <1>q DEF RequestRecords
  <2> HIDE DEF q
  <2> QED BY <1>r, <1>s, <2>1, OneSlot DEF SlotBackedIn, RowBackedIn
<1>1. CASE BeginGenerate(r)
  <2>1. CASE MayDraft
    <3> DEFINE row == DraftRow(FALSE, "none")
               q == [req[r] EXCEPT !.pc = AfterGuards, !.snap = row]
    <3>1. q.snap = row /\ q.hash = req[r].hash /\ q.signHash = req[r].signHash
      BY <1>q DEF RequestRecords
    <3>2. Suspend(r, q) /\ req[r].op = "generateFromLoanApproval" /\ req[r].pc = "approve"
      BY <1>1, <2>1 DEF BeginGenerate, At
    <3>3. row.hash = "none" /\ row.signHash = "none"
      BY DEF DraftRow, NoContract
    <3>4. req[r].snap.id = 0 /\ 0 \notin ContractIds
      BY <3>2 DEF Creators, Drafting, NoContract, ContractIds
    <3>5. BackedIn(chain', req[r].hash, row.id) /\ BackedIn(chain', req[r].signHash, row.id)
      BY <1>r, <3>4 DEF BackedIn
    <3> HIDE DEF q, row
    <3> QED BY <1>b, <3>1, <3>2, <3>3, <3>5, OneSlot DEF SlotBackedIn, RowBackedIn
  <2> QED BY <1>1, <1>f, <2>1 DEF BeginGenerate
<1>2. CASE RecordNewContract(r)
  <2>1. ASSUME NEW ok \in BOOLEAN, NEW data \in BOOLEAN, RecordContract(req[r].snap.id, ok),
               Suspend(r, [req[r] EXCEPT !.pc = "commit",
                  !.snap.hash = HashFrom(ok, "create"), !.snap.data = data])
        PROVE  SlotBackedIn(chain', req'[r])
    <3> DEFINE h == HashFrom(ok, "create")
               q == [req[r] EXCEPT !.pc = "commit", !.snap.hash = h, !.snap.data = data]
    <3>1. /\ q.hash = req[r].hash /\ q.signHash = req[r].signHash
          /\ q.snap = [req[r].snap EXCEPT !.hash = h, !.data = data] /\ Suspend(r, q)
      BY <1>q, <2>1 DEF RequestRecords
    <3>2. BackedIn(chain', h, req[r].snap.id)
      <4>0. req[r].snap.id \in ContractIds
        BY <1>2 DEF RecordNewContract, At, Drafting, Creators
      <4>1. ok => chain'[req[r].snap.id].exists
        BY <2>1, <4>0 DEF RecordContract, TypeOK
      <4> QED BY <4>0, <4>1 DEF BackedIn, HashFrom
    <3> HIDE DEF q, h
    <3>3. q.snap.hash = h /\ q.snap.id = req[r].snap.id /\ q.snap.signHash = req[r].snap.signHash
      BY <1>q, <3>1 DEF ContractRows
    <3> QED BY <1>r, <3>1, <3>2, <3>3, OneSlot DEF SlotBackedIn, RowBackedIn
  <2>2. req[r].snap.data \in BOOLEAN
    BY <1>q DEF ContractRows
  <2> QED BY <1>2, <1>f, <1>p, <2>1, <2>2 DEF RecordNewContract, Deny
<1>3. CASE RecordSignature(r)
  <2>0. req[r].op = "signContract"
    BY <1>3 DEF RecordSignature, At
  <2>1. BackedIn(chain', ResolvedSignHash(r), req[r].snap.id)
    BY <1>b, <1>r DEF ResolvedSignHash
  <2>2. ASSUME SignOnChain(req[r].snap.id, TRUE)
        PROVE  BackedIn(chain', "sign", req[r].snap.id)
    <3>1. req[r].snap.id \in ContractIds
      BY <1>q, <2>0, LendingAssumption DEF ContractRows, ContractIds
    <3> QED BY <2>2, <3>1 DEF SignOnChain, BackedIn, TypeOK
  <2> QED BY <1>3, <1>f, <1>p, <1>s, <2>1, <2>2 DEF RecordSignature, Deny
<1>4. CASE RecordGenerated(r)
  <2>1. \A ok \in BOOLEAN : BackedIn(chain', HashFrom(ok, "status"), req[r].snap.id)
    BY <1>b DEF HashFrom
  <2> QED BY <1>4, <1>f, <1>h, <2>1 DEF RecordGenerated, Deny
<1>5. CASE RecordUpdate(r)
  <2>1. CASE \E h \in HashKinds :
               /\ h \in {"client", req[r].snap.hash, "status"}
               /\ \/ Finish(r)
                  \/ Suspend(r, [req[r] EXCEPT !.pc = "commit", !.hash = h])
    BY <1>b, <1>f, <1>h, <1>r, <2>1
  <2> QED BY <1>5, <1>f, <2>1 DEF RecordUpdate, Deny
<1>6. CASE CheckDisbursementPayment(r) \/ CommitPdf(r) \/ WriteUpdate(r) \/ RecordRemoval(r)
  BY <1>6, <1>f, <1>p DEF CheckDisbursementPayment, CommitPdf, WriteUpdate, RecordRemoval, Deny
<1> QED
  BY <1>1, <1>2, <1>3, <1>4, <1>5, <1>6, <1>f
  DEF ContractStep, InsertContract, CommitSignature, CommitSignAndDisburse, CommitDisburse,
      MarkLoanGenerated, BlockchainUpdateFails, CommitUpdateHash, DeleteContract

LEMMA RowHashes ==
  ASSUME TypeOK, NEW r \in Requests, RowStep(r),
         RowBackedIn(chain', contract), SlotBackedIn(chain', req[r])
  PROVE  RowBackedIn(chain', contract')
<1>1. CASE contract' = NoContract
  BY <1>1, OtherKinds DEF NoContract, RowBackedIn
<1>2. CASE RowInserted(r)
  BY <1>2 DEF RowInserted, SlotBackedIn
<1>3. CASE RowUpdated(r)
  BY <1>3 DEF RowUpdated, SlotBackedIn, RowBackedIn
<1> QED BY <1>1, <1>2, <1>3 DEF RowStep

LEMMA HashStep ==
  ASSUME TypeOK, HeldInv, HashInv, Next
  PROVE  HashInv'
<1>1. RowBackedIn(chain', contract) /\ \A r \in Requests : SlotBackedIn(chain', req[r])
  BY NextChain, StillBacked
<1>i. SlotBackedIn(chain', Idle)
  BY OtherKinds DEF SlotBackedIn, RowBackedIn, Idle, NoContract
<1>2. ASSUME NEW r \in Requests, RowStep(r),
             SlotBackedIn(chain', req'[r]), OtherSlotsKept(r)
      PROVE  HashInv'
  <2>1. RowBackedIn(chain', contract')
    BY <1>1, <1>2, RowHashes
  <2>2. \A s \in Requests : SlotBackedIn(chain', req'[s])
    BY <1>1, <1>2 DEF OtherSlotsKept
  <2> QED BY <2>1, <2>2 DEF HashInv
<1>3. CASE Crash
  <2>1. contract' = contract /\ \A r \in Requests : req'[r] = Idle
    BY <1>3 DEF Crash
  <2> QED BY <1>1, <1>i, <2>1 DEF HashInv
<1>4. ASSUME NEW r \in Requests, ContractStep(r) PROVE HashInv'
  <2>1. SlotHeld(r) /\ SlotBackedIn(chain', req[r])
    BY <1>1 DEF HeldInv
  <2>2. SlotBackedIn(chain', req'[r])
    BY <1>4, <2>1, StepHashes DEF SlotHeld, DraftHeld, Creators
  <2> QED BY <1>2, <1>4, <2>2, StepRow, StepSlot DEF SlotStep
<1>5. ASSUME NEW r \in Requests, ContractCall(r), ~Report(r) PROVE HashInv'
  BY <1>1, <1>2, <1>5, CallHashes, CallRow, CallSlot DEF SlotStep
<1>6. ASSUME NEW r \in Requests, LoanCall(r) \/ Report(r) PROVE HashInv'
  <2>1. RowStep(r)
    BY <1>6, CallRow DEF ContractCall
  <2>2. CASE req' = req
    <3>1. RowBackedIn(chain', contract')
      BY <1>1, <2>1, RowHashes
    <3> QED BY <1>1, <2>2, <3>1 DEF HashInv
  <2>3. CASE Review(r) /\ req' # req
    <3> DEFINE q == [Idle EXCEPT !.op = "generateFromLoanApproval", !.pc = "approve"]
    <3>1. Suspend(r, q)
      BY <2>3 DEF Review
    <3>2. q.snap = Idle.snap /\ q.hash = Idle.hash /\ q.signHash = Idle.signHash
      BY DEF Idle
    <3> HIDE DEF q
    <3> QED BY <1>2, <1>i, <2>1, <3>1, <3>2, OneSlot DEF SlotBackedIn
  <2> QED
    BY <1>6, <2>2, <2>3
    DEF LoanCall, CreateLoan, Review, RemoveLoan, RecordTransaction, UpdateStatus, Report
<1> QED BY <1>3, <1>4, <1>5, <1>6 DEF Next, Step

\* A hash stored as the result of a registry call is backed by the registry,
\* for any workload and interleaving, with lost receipts, reverts and crashes.
THEOREM HashesAreBackedHolds == Spec => []HashesAreBacked
<1>1. Init => HashInv
  <2>1. \A id : BackedIn(chain, "none", id)
    BY OtherKinds
  <2>2. RowBackedIn(chain, NoContract) /\ SlotBackedIn(chain, Idle)
    BY <2>1 DEF RowBackedIn, SlotBackedIn, NoContract, Idle
  <2> QED BY <2>2 DEF Init, HashInv
<1>2. TypeOK /\ HeldInv /\ HashInv /\ [Next]_vars => HashInv'
  <2> SUFFICES ASSUME TypeOK, HeldInv, HashInv, [Next]_vars PROVE HashInv'
    OBVIOUS
  <2>1. CASE UNCHANGED vars
    BY <2>1 DEF vars, HashInv
  <2> QED BY <2>1, HashStep
<1>3. HashInv => HashesAreBacked
  BY DEF HashInv, RowBackedIn, BackedIn, HashesAreBacked
<1> QED BY <1>1, <1>2, <1>3, AlwaysHeld, PTL DEF Spec

-----------------------------------------------------------------------------
(* What the rows promise when one request runs at a time, and the proof    *)
(* that they then behave as the Agreement.                                 *)
(*                                                                         *)
(* One slot is enough for none of the handlers to be overtaken: from the   *)
(* moment it reads the contract to the moment it writes, the row it read   *)
(* is the row that is there.  The theorems hold for any number of          *)
(* transactions and contract ids, with crashes and chain failures.         *)

\* One request at a time: no two slots.
Serial == \A r, s \in Requests : r = s

-----------------------------------------------------------------------------
(* The row a running handler read is the row that is there.                *)

Believes(r) ==
  LET q == req[r]
  IN /\ q.pc = "idle" => q.op = "NONE"
     /\ q.op \in {"signContract", "remove"} \union Payouts => q.snap = contract
     /\ q.op = "update" /\ q.pc = "write" => q.snap = contract
     /\ q.op = "generateContractPdf" =>
          \/ q.pc \in {"chain", "commit"} /\ q.snap = contract
          \/ q.pc = "loan" /\ ContractExists /\ contract.status = "GENERATED"

\* The guards of the handler still hold.
Guarded(r) ==
  LET q == req[r]
  IN /\ q.op = "signContract" => MaySign(q.signer)
     /\ q.op = "signAndDisburse" =>
          contract.status \in {"GENERATED", "SIGNED", "ACTIVE"} /\ "BORROWER" \in contract.sigs
     /\ q.op = "disburse" => contract.status \in {"SIGNED", "ACTIVE"}
     /\ q.op \in Payouts /\ q.tx = NoTx => contract.tx = NoTx
     /\ q.op = "generateContractPdf" /\ q.pc # "loan" => contract.status \in PdfStatuses
     /\ q.op = "remove" => contract.status = "DRAFT"

NothingLeft == ~ContractExists => contract = NoContract

SerialInv == NothingLeft /\ \A r \in Requests : Believes(r) /\ Guarded(r)

LEMMA IdleBelieves ==
  ASSUME NEW r \in Requests, req[r] = Idle
  PROVE  Believes(r) /\ Guarded(r)
BY DEF Idle, Believes, Guarded, Payouts

LEMMA SerialStep ==
  ASSUME Serial, TypeOK, HeldInv, SerialInv, NEW r \in Requests,
         (req' = req /\ req[r].pc = "idle") \/ SlotStep(r), RowStep(r)
  PROVE  SerialInv'
<1>q. SlotHeld(r) /\ Believes(r) /\ Guarded(r) /\ NothingLeft
  BY DEF HeldInv, SerialInv
<1>1. NothingLeft'
  <2>1. CASE RowInserted(r)
    BY <1>q, <2>1 DEF RowInserted, At, SlotHeld, Drafting, DraftHeld, NothingLeft,
                      ContractExists, ContractIds
  <2> QED BY <1>q, <2>1 DEF RowStep, RowUpdated, NothingLeft, ContractExists
<1>2. (Believes(r) /\ Guarded(r))'
  <2>1. CASE Emptied(r)
    BY <2>1 DEF Emptied, Idle, Believes, Guarded, Payouts
  <2>2. CASE Awaiting(r) \/ DrawsId(r)
    BY <2>2 DEF Awaiting, DrawsId, Believes, Guarded, Payouts, Creators
  <2>3. CASE Read(r)
    BY <2>3 DEF Read, Believes, Guarded, AfterGuards, MaySign, Creators
  <2>4. CASE req' = req /\ req[r].pc = "idle"
    <3>1. req[r] = Idle
      BY <1>q, <2>4 DEF Believes, SlotHeld
    <3> QED BY <2>4, <3>1 DEF Idle, Believes, Guarded, Payouts
  <2>5. CASE GoesOn(r)
    <3>1. req'[r].op = req[r].op /\ req'[r].tx = req[r].tx /\ req'[r].signer = req[r].signer
          /\ Advances(r, req'[r].pc)
      BY <2>5 DEF GoesOn
    <3>2. req[r].op \notin Creators => req'[r].snap = req[r].snap
      BY <2>5 DEF GoesOn
    <3>3. CASE req[r].op = "generateContractPdf"
      <4>1. req[r].snap.id # 0
        BY <1>q, <3>3 DEF SlotHeld, Creators
      <4> QED BY <1>q, <3>1, <3>2, <3>3, <4>1 DEF Advances, Believes, Guarded, ContractExists, Payouts, Creators
    <3>4. CASE req[r].op = "update"
      BY <3>1, <3>4 DEF Advances, Believes, Guarded, Payouts
    <3>5. CASE req[r].op \notin {"generateContractPdf", "update"}
      <4>1. contract' = contract /\ req'[r].pc # "idle"
        BY <3>1, <3>5 DEF Advances
      <4> QED BY <1>q, <3>1, <3>2, <3>5, <4>1 DEF Believes, Guarded, Payouts, Creators, MaySign
    <3> QED BY <3>3, <3>4, <3>5
  <2> QED BY <2>1, <2>2, <2>3, <2>4, <2>5 DEF SlotStep
<1>3. \A s \in Requests : s = r
  BY DEF Serial
<1> QED BY <1>1, <1>2, <1>3 DEF SerialInv

LEMMA AlwaysSerial ==
  ASSUME Serial
  PROVE  Spec => []SerialInv
<1>1. Init => SerialInv
  BY IdleBelieves DEF Init, SerialInv, NothingLeft
<1>2. TypeOK /\ HeldInv /\ SerialInv /\ [Next]_vars => SerialInv'
  <2> SUFFICES ASSUME TypeOK, HeldInv, SerialInv, [Next]_vars PROVE SerialInv'
    OBVIOUS
  <2>1. CASE contract' = contract /\ req' = [r \in Requests |-> Idle]
    BY <2>1 DEF SerialInv, NothingLeft, ContractExists, Believes, Guarded, Idle, Payouts
  <2>2. CASE UNCHANGED vars
    BY <2>2 DEF vars, SerialInv, NothingLeft, ContractExists, Believes, Guarded, MaySign
  <2> QED BY <2>1, <2>2, StepSums, SerialStep
<1> QED BY <1>1, <1>2, AlwaysHeld, PTL DEF Spec

-----------------------------------------------------------------------------
(* Step by step: what is kept, who has signed.                             *)

\* Once a disbursement names its payment, no later step of the same contract
\* loses it: a payout that is given none takes the one on the row
\* (contracts.service.ts:849-852, 981-984).
THEOREM PaymentIsNotLostHolds ==
  ASSUME Serial
  PROVE  Spec => PaymentIsNotLost
<1> DEFINE Kept == contract.tx # NoTx /\ contract'.id = contract.id => contract'.tx # NoTx
<1>1. TypeOK /\ HeldInv /\ SerialInv /\ [Next]_vars => [Kept]_vars
  <2> SUFFICES ASSUME TypeOK, HeldInv, SerialInv, Next PROVE Kept
    BY DEF vars
  <2>1. ASSUME NEW r \in Requests, RowStep(r) PROVE Kept
    <3>1. SlotHeld(r) /\ Guarded(r) /\ NothingLeft
      BY DEF HeldInv, SerialInv
    <3>2. RowInserted(r) => contract'.id # contract.id
      BY <3>1 DEF RowInserted, At, SlotHeld, Drafting, DraftHeld
    <3>3. contract' = NoContract /\ contract'.id = contract.id => contract = NoContract
      BY <3>1 DEF NothingLeft, NoContract, ContractExists
    <3>4. RowPaid(r) => Kept
      BY <3>1 DEF RowPaid, At, Guarded
    <3> QED BY <2>1, <3>2, <3>3, <3>4 DEF RowStep, RowUpdated, RowSigned, RowRestated
  <2> QED BY <2>1, StepSums
<1> QED BY <1>1, AlwaysHeld, AlwaysSerial, PTL DEF Spec, PaymentIsNotLost

LEMMA ActiveSignedStep ==
  ASSUME Serial, "ACTIVE" \notin PatchStatuses, TypeOK, HeldInv, SignedInv, SerialInv,
         ActiveIsSigned, NEW r \in Requests, RowStep(r)
  PROVE  ActiveIsSigned'
<1>1. SlotHeld(r) /\ Believes(r) /\ Guarded(r) /\ SignedByBoth
  BY DEF HeldInv, SerialInv, SignedInv, BothOn, SignedByBoth
<1>2. CASE RowInserted(r)
  BY <1>1, <1>2 DEF RowInserted, At, SlotHeld, Drafting, DraftHeld, ActiveIsSigned
<1>3. CASE RowSigned(r)
  <2>1. req[r].snap = contract /\ contract.sigs \subseteq Signers /\ req[r].signer \in Signers
    BY <1>1, <1>3, SlotType DEF RowSigned, At, Believes, TypeOK, ContractRows
  <2> QED BY <1>3, <2>1 DEF RowSigned, SignedStatus, NewSignatures, ActiveIsSigned
<1>4. CASE RowPaid(r)
  <2>1. req[r].snap = contract /\ contract.sigs \subseteq Signers
    BY <1>1, <1>4 DEF RowPaid, At, Believes, TypeOK, ContractRows
  <2>2. req[r].op = "signAndDisburse" => PayoutSignatures(r) = Signers
    BY <1>1, <2>1 DEF Guarded, PayoutSignatures, Signers
  <2>3. req[r].op = "disburse" => contract.sigs = Signers
    BY <1>1 DEF Guarded, SignedByBoth, ActiveIsSigned
  <2> QED BY <1>4, <2>2, <2>3 DEF RowPaid, At, Payouts, ActiveIsSigned
<1>5. CASE RowRestated(r)
  BY <1>1, <1>5 DEF RowRestated, SlotHeld, ActiveIsSigned
<1>6. CASE contract' = NoContract
  BY <1>6 DEF NoContract, ActiveIsSigned
<1> QED
  BY <1>2, <1>3, <1>4, <1>5, <1>6 DEF RowStep, RowUpdated, ActiveIsSigned

LEMMA AlwaysActiveSigned ==
  ASSUME Serial, "SIGNED" \notin PatchStatuses, "ACTIVE" \notin PatchStatuses
  PROVE  Spec => [](SignedInv /\ ActiveIsSigned)
<1>1. Init => SignedInv /\ ActiveIsSigned
  BY DEF Init, SignedInv, BothOn, SlotSigned, NoContract, Idle, ActiveIsSigned
<1>2. TypeOK /\ HeldInv /\ SerialInv /\ SignedInv /\ ActiveIsSigned /\ [Next]_vars
        => (SignedInv /\ ActiveIsSigned)'
  <2> SUFFICES ASSUME TypeOK, HeldInv, SerialInv, SignedInv, ActiveIsSigned, [Next]_vars
               PROVE  (SignedInv /\ ActiveIsSigned)'
    OBVIOUS
  <2>1. CASE contract' = contract /\ req' = [r \in Requests |-> Idle]
    BY <2>1 DEF SignedInv, BothOn, SlotSigned, NoContract, Idle, ActiveIsSigned
  <2>2. CASE UNCHANGED vars
    BY <2>2 DEF vars, SignedInv, ActiveIsSigned
  <2> QED BY <2>1, <2>2, StepSums, SignedStep, ActiveSignedStep
<1> QED BY <1>1, <1>2, AlwaysHeld, AlwaysSerial, PTL DEF Spec

\* Money moves only on a contract both parties have signed: ACTIVE is written
\* by a payout, and what the payout checked is still so when it writes
\* (contracts.service.ts:975-979).
THEOREM ActiveIsSignedHolds ==
  ASSUME Serial, "SIGNED" \notin PatchStatuses, "ACTIVE" \notin PatchStatuses
  PROVE  Spec => []ActiveIsSigned
BY AlwaysActiveSigned, PTL

-----------------------------------------------------------------------------
(* The refinement: each step of the service is a step of the Agreement or  *)
(* leaves stage, parties and loan as they are.                             *)

Stage == IF ContractExists THEN contract.status ELSE "NONE"

Stutters == Stage' = Stage /\ contract'.sigs = contract.sigs /\ loan' = loan

AgreementStep == TheAgreement!ANext \/ Stutters

LEMMA Follows ==
  ASSUME AgreementStep
  PROVE  [TheAgreement!ANext]_(TheAgreement!avars)
BY DEF AgreementStep, Stutters, Stage, TheAgreement!avars

LEMMA SameRow ==
  ASSUME contract' = contract, loan' = loan
  PROVE  AgreementStep
BY DEF AgreementStep, Stutters, Stage, ContractExists

\* The lender's side of the loan, and the borrower's report.
LEMMA LoanCallAgrees ==
  ASSUME ReviewStatuses \subseteq {"UNDER_REVIEW", "APPROVED", "REJECTED"},
         TypeOK, NothingLeft, NEW r \in Requests, LoanCall(r) \/ Report(r)
  PROVE  AgreementStep
<1>1. CASE CreateLoan(r)
  <2>1. TheAgreement!Apply
    BY <1>1 DEF CreateLoan, LoanExists, ContractExists, TheAgreement!Apply
  <2> QED BY <2>1 DEF AgreementStep, TheAgreement!ANext
<1>2. CASE Review(r)
  <2>1. TheAgreement!Review
    BY <1>2 DEF Review, LoanExists, ContractExists, TheAgreement!Review
  <2> QED BY <2>1 DEF AgreementStep, TheAgreement!ANext
<1>3. CASE RemoveLoan(r)
  <2>1. TheAgreement!Discard
    BY <1>3 DEF RemoveLoan, LoanExists, ContractExists, NoContract, TheAgreement!Discard
  <2> QED BY <2>1 DEF AgreementStep, TheAgreement!ANext
<1>4. CASE Report(r)
  <2>1. contract' = [contract EXCEPT !.status = "REPORTED"] /\ contract \in ContractRows
        /\ ContractExists /\ loan' = loan
    BY <1>4 DEF Report, TypeOK
  <2>2. contract'.id = contract.id /\ contract'.status = "REPORTED"
        /\ contract'.sigs = contract.sigs
    BY <2>1 DEF ContractRows
  <2>3. contract.status # "NONE"
    BY <2>1 DEF ContractRows, ContractStatuses
  <2>4. TheAgreement!Report
    BY <2>1, <2>2, <2>3 DEF ContractExists, TheAgreement!Report
  <2> QED BY <2>4 DEF AgreementStep, TheAgreement!ANext
<1>5. CASE RecordTransaction(r) \/ UpdateStatus(r)
  BY <1>5, SameRow DEF RecordTransaction, UpdateStatus
<1> QED BY <1>1, <1>2, <1>3, <1>4, <1>5 DEF LoanCall

\* The end of a handler: the row is written as the guards promised.
LEMMA StepAgrees ==
  ASSUME PatchStatuses \subseteq {"CANCELLED"}, TypeOK, HeldInv, SerialInv, SignedInv,
         ActiveIsSigned, BorrowerSignsFirst, NEW r \in Requests, ContractStep(r)
  PROVE  AgreementStep
<1>q. /\ SlotHeld(r) /\ Believes(r) /\ Guarded(r) /\ NothingLeft
      /\ req[r].signer \in Signers /\ req[r].snap \in ContractRows
  BY SlotType DEF HeldInv, SerialInv, RequestRecords
<1>c. /\ contract \in ContractRows /\ contract.sigs \subseteq Signers
      /\ contract.status # "NONE"
  BY DEF TypeOK, ContractRows, ContractStatuses
<1>0. CASE contract' = contract /\ loan' = loan
  BY <1>0, SameRow
<1>1. CASE InsertContract(r) /\ LoanExists /\ ~ContractExists
  <2>1. contract' = req[r].snap /\ loan' = loan /\ Drafting(req[r])
    BY <1>1 DEF InsertContract, At, Drafting, Creators
  <2>2. contract'.id # 0 /\ contract'.status = "DRAFT" /\ contract'.sigs = {}
    BY <1>q, <2>1 DEF SlotHeld, DraftHeld, ContractIds
  <2>3. contract.sigs = {}
    BY <1>q, <1>1 DEF NothingLeft, NoContract
  <2>4. TheAgreement!Draft
    BY <1>1, <2>1, <2>2, <2>3 DEF TheAgreement!Draft, ContractExists, LoanExists
  <2> QED BY <2>4 DEF AgreementStep, TheAgreement!ANext
<1>2. CASE CommitSignature(r) /\ RowStillThere(r)
  <2>1. req[r].snap = contract /\ MaySign(req[r].signer) /\ ContractExists
    BY <1>q, <1>2 DEF CommitSignature, At, RowStillThere, Believes, Guarded
  <2>2. /\ contract'.id = contract.id /\ contract'.sigs = NewSignatures(r)
        /\ contract'.status = SignedStatus(r) /\ loan' = SignedLoan(r)
    BY <1>2, SignatureRow DEF CommitSignature, RowUpdated, RowSigned
  <2>3. CASE req[r].signer = "BORROWER"
    <3>1. contract.sigs = {}
      BY <1>c, <2>1, <2>3 DEF MaySign, BorrowerSignsFirst, Signers
    <3>2. NewSignatures(r) = {"BORROWER"} /\ {"BORROWER"} # Signers
      BY <2>1, <2>3, <3>1 DEF NewSignatures, Signers
    <3>3. TheAgreement!BorrowerSigns
      BY <1>c, <2>1, <2>2, <3>1, <3>2
      DEF TheAgreement!BorrowerSigns, ContractExists, SignedStatus, SignedLoan
    <3> QED BY <3>3 DEF AgreementStep, TheAgreement!ANext
  <2>4. CASE req[r].signer = "TENANT"
    <3>1. contract.sigs = {"BORROWER"}
      BY <1>c, <2>1, <2>4 DEF MaySign, Signers
    <3>2. NewSignatures(r) = {"BORROWER", "TENANT"} /\ NewSignatures(r) = Signers
      BY <2>1, <2>4, <3>1 DEF NewSignatures, Signers
    <3>3. TheAgreement!LenderSigns
      BY <1>c, <2>1, <2>2, <3>1, <3>2
      DEF TheAgreement!LenderSigns, ContractExists, SignedStatus, SignedLoan
    <3> QED BY <3>3 DEF AgreementStep, TheAgreement!ANext
  <2> QED BY <1>q, <2>3, <2>4 DEF Signers
<1>3. CASE (CommitSignAndDisburse(r) \/ CommitDisburse(r)) /\ RowStillThere(r)
  <2>1. /\ contract'.id = contract.id /\ contract'.status = "ACTIVE"
        /\ contract'.sigs =
             IF req[r].op = "signAndDisburse" THEN PayoutSignatures(r) ELSE contract.sigs
        /\ loan' = "LOAN_PROVIDED" /\ ContractExists
        /\ req[r].op \in Payouts /\ req[r].snap = contract
    BY <1>q, <1>3, PayoutRow
    DEF RowUpdated, RowPaid, CommitSignAndDisburse, CommitDisburse, At, Believes
  <2>2. contract.status \in {"GENERATED", "SIGNED", "ACTIVE"}
    BY <1>q, <2>1 DEF Guarded, Payouts
  <2>3. "BORROWER" \in contract.sigs /\ contract'.sigs = {"BORROWER", "TENANT"}
    <3>1. CASE req[r].op = "signAndDisburse"
      BY <1>c, <1>q, <2>1, <3>1 DEF Guarded, PayoutSignatures, Signers
    <3>2. CASE req[r].op = "disburse"
      BY <1>q, <2>1, <3>2 DEF Guarded, SignedInv, BothOn, ActiveIsSigned, Signers
    <3> QED BY <2>1, <3>1, <3>2 DEF Payouts
  <2>4. TheAgreement!PayOut
    BY <2>1, <2>2, <2>3 DEF TheAgreement!PayOut, ContractExists
  <2> QED BY <2>4 DEF AgreementStep, TheAgreement!ANext
<1>4. CASE CommitPdf(r) /\ RowStillThere(r)
  <2>1. /\ contract'.id = contract.id /\ contract'.status = "GENERATED"
        /\ contract'.sigs = contract.sigs /\ loan' = loan /\ ContractExists
    BY <1>4, RestatedRow DEF RowUpdated, RowRestated, CommitPdf
  <2>2. contract.status \in {"DRAFT", "GENERATED"}
    BY <1>q, <1>4 DEF CommitPdf, At, Guarded, PdfStatuses
  <2>3. TheAgreement!Generate
    BY <2>1, <2>2 DEF TheAgreement!Generate, ContractExists
  <2> QED BY <2>3 DEF AgreementStep, TheAgreement!ANext
<1>5. CASE MarkLoanGenerated(r) /\ LoanExists
  <2>1. contract' = contract /\ loan' = "CONTRACT_GENERATED"
        /\ ContractExists /\ contract.status = "GENERATED"
    BY <1>q, <1>5 DEF MarkLoanGenerated, At, Believes
  <2>2. TheAgreement!Follow
    BY <2>1 DEF TheAgreement!Follow, ContractExists
  <2> QED BY <2>2 DEF AgreementStep, TheAgreement!ANext
<1>6. CASE WriteUpdate(r) /\ RowStillThere(r)
  <2>1. /\ contract'.id = contract.id /\ contract'.status = "CANCELLED"
        /\ contract'.sigs = contract.sigs /\ loan' = loan /\ ContractExists
    BY <1>q, <1>6, RestatedRow DEF RowUpdated, RowRestated, WriteUpdate, At, SlotHeld
  <2>2. TheAgreement!Cancel
    BY <1>c, <2>1 DEF TheAgreement!Cancel, ContractExists
  <2> QED BY <2>2 DEF AgreementStep, TheAgreement!ANext
<1>7. CASE CommitUpdateHash(r) /\ RowStillThere(r)
  <2>1. /\ contract'.id = contract.id /\ contract'.status = contract.status
        /\ contract'.sigs = contract.sigs /\ loan' = loan
    BY <1>7, RestatedRow DEF RowUpdated, RowRestated, CommitUpdateHash
  <2> QED BY <2>1 DEF AgreementStep, Stutters, Stage, ContractExists
<1>8. CASE DeleteContract(r) /\ RowStillThere(r)
  <2>1. contract' = NoContract /\ loan' = loan /\ ContractExists /\ contract.status = "DRAFT"
    BY <1>q, <1>8 DEF DeleteContract, RowStillThere, At, Guarded
  <2>2. TheAgreement!Withdraw
    BY <2>1 DEF TheAgreement!Withdraw, ContractExists, NoContract
  <2> QED BY <2>2 DEF AgreementStep, TheAgreement!ANext
<1> QED
  BY <1>0, <1>1, <1>2, <1>3, <1>4, <1>5, <1>6, <1>7, <1>8
  DEF ContractStep, BeginGenerate, RecordNewContract, InsertContract, CommitSignature,
      RecordSignature, CheckDisbursementPayment, CommitSignAndDisburse, CommitDisburse,
      RecordGenerated, CommitPdf, MarkLoanGenerated, WriteUpdate, BlockchainUpdateFails,
      RecordUpdate, CommitUpdateHash, RecordRemoval, DeleteContract

LEMMA NextAgrees ==
  ASSUME ReviewStatuses \subseteq {"UNDER_REVIEW", "APPROVED", "REJECTED"},
         PatchStatuses \subseteq {"CANCELLED"}, TypeOK, HeldInv, SerialInv, SignedInv,
         ActiveIsSigned, BorrowerSignsFirst, Next
  PROVE  [TheAgreement!ANext]_(TheAgreement!avars)
<1>1. ASSUME NEW r \in Requests, ContractCall(r), ~Report(r) PROVE AgreementStep
  BY <1>1, SameRow DEF ContractCall, BeginCreate, BeginSign, BeginSignAndDisburse,
     BeginDisburse, BeginGeneratePdf, BeginUpdate, BeginRemove
<1>2. ASSUME NEW r \in Requests, LoanCall(r) \/ Report(r) PROVE AgreementStep
  BY <1>2, LoanCallAgrees DEF SerialInv
<1>3. ASSUME NEW r \in Requests, ContractStep(r) PROVE AgreementStep
  BY <1>3, StepAgrees
<1>4. CASE Crash
  BY <1>4, SameRow, Follows DEF Crash
<1> QED BY <1>1, <1>2, <1>3, <1>4, Follows DEF Next, Step

\* The service implements the abstract agreement when one request runs at a
\* time, an approval or a rejection is the only review, and a PATCH can only
\* cancel: any number of transactions and contract ids, any chain failure and
\* any crash.
THEOREM Refinement ==
  ASSUME Serial, ReviewStatuses \subseteq {"UNDER_REVIEW", "APPROVED", "REJECTED"},
         PatchStatuses \subseteq {"CANCELLED"}
  PROVE  Spec => ImplementsAgreement
<1>1. Init => TheAgreement!AInit
  BY DEF Init, TheAgreement!AInit, NoContract, ContractExists
<1>2. /\ TypeOK /\ HeldInv /\ SerialInv /\ SignedInv /\ ActiveIsSigned /\ BorrowerSignsFirst
      /\ [Next]_vars
      => [TheAgreement!ANext]_(TheAgreement!avars)
  <2>1. UNCHANGED vars => UNCHANGED (TheAgreement!avars)
    BY DEF vars, TheAgreement!avars, ContractExists
  <2> QED BY <2>1, NextAgrees
<1>3. Spec => [](SignedInv /\ ActiveIsSigned)
  BY AlwaysActiveSigned
<1> QED
  BY <1>1, <1>2, <1>3, AlwaysHeld, AlwaysSerial, SignatureOrder, PTL
  DEF Spec, ImplementsAgreement, TheAgreement!ASpec
==============================================================================
