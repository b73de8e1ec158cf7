SPECIFICATION Spec
CONSTANTS
  r1 = r1
  r2 = r2
  t1 = t1
  none = none
  Requests <- TwoRequests
  DisbursementTxs <- Payments
  NoTx = none
  MaxContracts = 1
  Workload <- LifecycleOps
  ReviewStatuses = {}
  PatchStatuses = {}
  ClientRecords = {FALSE}
  BlockchainEnabled = FALSE
  Crashes = FALSE
INVARIANTS
  ActiveIsSigned
