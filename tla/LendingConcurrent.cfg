SPECIFICATION Spec
CONSTANTS
  r1 = r1
  r2 = r2
  t1 = t1
  none = none
  Requests <- TwoRequests
  DisbursementTxs <- Payments
  NoTx = none
  MaxContracts = 2
  Workload <- LifecycleOps
  ReviewStatuses = {}
  PatchStatuses = {}
  ClientRecords = {FALSE}
  BlockchainEnabled = FALSE
  Crashes = TRUE
SYMMETRY RequestSymmetry
INVARIANTS
  TypeOK
  BorrowerSignsFirst
  SignedByBoth
  ActiveIsScheduled
  DisbursementWasPaid
