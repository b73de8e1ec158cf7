SPECIFICATION FairSpec
CONSTANTS
  r1 = r1
  r2 = r2
  t1 = t1
  none = none
  Requests <- TwoRequests
  DisbursementTxs <- Payments
  NoTx = none
  MaxContracts = 3
  Workload <- ApprovalOps
  ReviewStatuses <- Reviews
  PatchStatuses = {}
  ClientRecords = {FALSE}
  BlockchainEnabled = FALSE
  Crashes = FALSE
PROPERTIES
  ApprovalDrafts
