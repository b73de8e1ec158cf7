SPECIFICATION Spec
CONSTANTS
  r1 = r1
  r2 = r2
  full = full
  part = part
  both = both
  none = none
  Requests <- TwoRequests
  Uuids <- Payments
  NoUuid = none
  Schedules <- Installments
  Due <- DueOf
  Amount <- Amounts
  Selection <- Selections
  SetStatuses <- Cancelling
  MaxRows = 3
  Crashes = TRUE
SYMMETRY RequestSymmetry
INVARIANTS
  TypeOK
  MoneyIsAccounted
  ScheduleWithinBalance
  RecordedOnce
  AnsweredIsCounted
PROPERTIES
  PaidStaysPaid
