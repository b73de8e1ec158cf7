SPECIFICATION Spec
CONSTANTS
  Offers <- AllTerms
  Followed <- PaidTerms
  Instants <- Slots
  MaxRows = 3
INVARIANTS
  TypeOK
  ScheduleAddsUp
  OnlyLastIsLate
  NothingForgiven
  WalletSeriesCover
  DashboardAgrees
CHECK_DEADLOCK FALSE
