---------------------------- MODULE LendingState ----------------------------
(***************************************************************************)
(* The database rows and the in-flight HTTP requests of the lending core   *)
(* of coloanex-api: one loan, the contract written for it, the             *)
(* DISBURSEMENT transactions that pay it out, and what the on-chain        *)
(* ContractRegistry knows.                                                 *)
(*                                                                         *)
(* Every handler of ContractsService and LoansService is an async function *)
(* that reads rows, checks them, awaits other services and only then       *)
(* writes.  A request slot r \in Requests holds one running handler: `pc`  *)
(* is the await it is suspended at and `snap` the row it read at the start,*)
(* which is what it still believes when it resumes.  Several slots are     *)
(* several requests being served at once by the Node event loop.           *)
(***************************************************************************)
EXTENDS Naturals

CONSTANTS
  Requests,          \* slots for handlers running at the same time
  DisbursementTxs,   \* ids of transaction rows of type DISBURSEMENT
  NoTx,              \* disbursementInfo.transactionId is undefined
  MaxContracts,      \* bound: contract ids (randomUUID) in use at a time
  Workload,          \* the operations clients call in this instance
  ReviewStatuses,    \* the statuses a lender passes to PATCH /loans/:id/review
  PatchStatuses,     \* the statuses a client passes to PATCH /contracts/:id
  ClientRecords,     \* may a client send its own blockchainTxHash and
                     \* blockchainData: {FALSE}, or BOOLEAN
  BlockchainEnabled, \* BlockchainService.isEnabled()
  Crashes            \* may the process die between two awaits

Operations ==
  {"create", "generateFromLoanApproval", "signContract", "signAndDisburse",
   "disburse", "generateContractPdf", "update", "remove", "reportContract",
   "createLoan", "review", "removeLoan", "recordTransaction", "updateStatus"}

LoanStatuses ==
  {"DRAFT", "SUBMITTED", "UNDER_REVIEW", "APPROVED", "REJECTED",
   "CONTRACT_GENERATED", "CONTRACT_SIGNED", "LOAN_PROVIDED"}

ContractStatuses ==
  {"DRAFT", "GENERATED", "SIGNED", "ACTIVE", "COMPLETED", "DEFAULTED",
   "CANCELLED", "REPORTED"}

TransactionStatuses == {"PENDING", "COMPLETED", "FAILED", "CANCELLED"}

Signers == {"BORROWER", "TENANT"}

\* Which call a stored transaction hash came from.
HashKinds == {"none", "create", "status", "sign", "client"}

ASSUME LendingAssumption ==
  /\ NoTx \notin DisbursementTxs
  /\ MaxContracts \in Nat
  /\ Workload \subseteq Operations
  /\ ReviewStatuses \subseteq LoanStatuses
  /\ PatchStatuses \subseteq ContractStatuses
  /\ ClientRecords \subseteq BOOLEAN
  /\ BlockchainEnabled \in BOOLEAN
  /\ Crashes \in BOOLEAN

VARIABLES
  loan,      \* status of the loan row, "NONE" when there is no row
  contract,  \* the contract row of the loan; id 0 when there is no row
  dtx,       \* the DISBURSEMENT transaction rows
  settled,   \* history: <<transaction, contract id>> seen COMPLETED
  chain,     \* ContractRegistry: what the chain holds for each contract id
  req        \* the running handlers

vars == <<loan, contract, dtx, settled, chain, req>>

ContractIds == 1 .. MaxContracts

\* `tx` is disbursementInfo.transactionId, `scheduled` tells that payment
\* schedules exist, `hash` is blockchainTxHash, `data` that blockchainData is
\* not null and `signHash` its signTxHash.
ContractRows ==
  [id: 0 .. MaxContracts, status: ContractStatuses, sigs: SUBSET Signers,
   tx: DisbursementTxs \union {NoTx}, scheduled: BOOLEAN,
   hash: HashKinds, data: BOOLEAN, signHash: HashKinds]

NoContract ==
  [id |-> 0, status |-> "DRAFT", sigs |-> {}, tx |-> NoTx,
   scheduled |-> FALSE, hash |-> "none", data |-> FALSE, signHash |-> "none"]

\* `owner` is the contractId column: 0 is NULL.
TransactionRows ==
  [owner: 0 .. MaxContracts, status: TransactionStatuses \union {"NONE"}]

NoTransaction == [owner |-> 0, status |-> "NONE"]

PCs == {"idle", "payment", "chain", "write", "approve", "commit", "loan"}

\* `snap` is the row the handler read (for the two creating handlers, the row
\* it is about to insert); the other fields are locals computed from the DTO.
RequestRecords ==
  [op: Operations \union {"NONE"}, pc: PCs, snap: ContractRows,
   signer: Signers, status: ContractStatuses,
   tx: DisbursementTxs \union {NoTx}, client: BOOLEAN,
   hash: HashKinds, signHash: HashKinds]

Idle ==
  [op |-> "NONE", pc |-> "idle", snap |-> NoContract,
   signer |-> "BORROWER", status |-> "DRAFT", tx |-> NoTx, client |-> FALSE,
   hash |-> "none", signHash |-> "none"]

ContractExists == contract.id # 0
LoanExists     == loan # "NONE"

-----------------------------------------------------------------------------
(* Running a handler on a request slot.                                    *)

\* A client calls op on a free slot.
Call(r, op) == req[r].pc = "idle" /\ op \in Workload

\* Slot r is running one of ops and is suspended at pc.
At(r, ops, pc) == req[r].op \in ops /\ req[r].pc = pc

\* The handler returns or throws: its locals are gone.
Finish(r) == req' = [req EXCEPT ![r] = Idle]

\* Suspend slot r with the given locals.
Suspend(r, locals) == req' = [req EXCEPT ![r] = locals]

\* The row a handler names by id is still the row it read; a Prisma update or
\* delete of a row that is gone throws.
RowStillThere(r) == ContractExists /\ contract.id = req[r].snap.id

\* Ids nothing refers to: randomUUID never returns one that is in use.
FreshIds ==
  {id \in ContractIds :
     /\ contract.id # id
     /\ ~chain[id].exists
     /\ \A r \in Requests : req[r].snap.id # id
     /\ \A t \in DisbursementTxs : dtx[t].owner # id /\ <<t, id>> \notin settled}

NewId == CHOOSE id \in FreshIds : TRUE

-----------------------------------------------------------------------------
(* ContractRegistry.sol behind BlockchainService: every method returns a    *)
(* result or null.  It returns null when the call reverts, when the RPC     *)
(* fails, and also when the transaction was mined but waiting for its       *)
(* receipt failed.                                                          *)

NotOnChain == [exists |-> FALSE, signed |-> FALSE]

\* createContract: reverts if the id exists.
RecordContract(id, ok) ==
  \/ /\ ~chain[id].exists
     /\ chain' = [chain EXCEPT ![id].exists = TRUE]
  \/ ~ok /\ UNCHANGED chain

\* signContract: reverts unless the id exists and is not signed yet.
SignOnChain(id, ok) ==
  \/ /\ chain[id].exists /\ ~chain[id].signed
     /\ chain' = [chain EXCEPT ![id].signed = TRUE]
  \/ ~ok /\ UNCHANGED chain

\* updateContractStatus (updateContract, deleteContract): emits an event and
\* stores nothing; reverts unless the id exists.
UpdateOnChain(id, ok) == (ok => chain[id].exists) /\ UNCHANGED chain

-----------------------------------------------------------------------------
Init ==
  /\ loan = "NONE"
  /\ contract = NoContract
  /\ dtx = [t \in DisbursementTxs |-> NoTransaction]
  /\ settled = {}
  /\ chain = [id \in ContractIds |-> NotOnChain]
  /\ req = [r \in Requests |-> Idle]

TypeOK ==
  /\ loan \in LoanStatuses \union {"NONE"}
  /\ contract \in ContractRows
  /\ dtx \in [DisbursementTxs -> TransactionRows]
  /\ settled \subseteq DisbursementTxs \X ContractIds
  /\ chain \in [ContractIds -> [exists: BOOLEAN, signed: BOOLEAN]]
  /\ req \in [Requests -> RequestRecords]
=============================================================================
