SPECIFICATION Spec
CONSTANTS
  r1 = r1
  r2 = r2
  basic = basic
  flat = flat
  none = none
  Requests <- TwoRequests
  Plans <- TwoPlans
  NoPlan = none
  MaxTransactions <- Limits
  MaxEpoch = 1
  MaxUsage <- Charges
SYMMETRY RequestSymmetry
INVARIANTS
  TypeOK
  OverrunIsBounded
  UsageIsCounted
  OneSelected
