SPECIFICATION Spec
CONSTANTS
  Requests = {r1, r2}
  Users = {u1, u2}
  NoUser = NoUser
  MaxKyc = 2
  MaxLoans = 2
  MaxCalls = 3
SYMMETRY Symmetry
INVARIANTS
  TypeOK
  VerifiedWasReviewed
  
  StatusAgrees
  ChainShowsDecisions
  
CHECK_DEADLOCK FALSE
