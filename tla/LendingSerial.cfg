SPECIFICATION Spec
CONSTANTS
  r1 = r1
  r2 = r2
  t1 = t1
  none = none
  Requests <- OneRequest
  DisbursementTxs <- Payments
  NoTx = none
  MaxContracts = 2
  Workload <- SerialOps
  ReviewStatuses <- Reviews
  PatchStatuses = {"CANCELLED"}
  ClientRecords = {TRUE, FALSE}
  BlockchainEnabled = TRUE
  Crashes = TRUE
INVARIANTS
  ActiveIsSigned
  HashesAreBacked
PROPERTIES
  PaymentIsNotLost
  ImplementsAgreement
