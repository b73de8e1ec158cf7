SPECIFICATION FlowSpec
CONSTANTS
  r1 = r1
  r2 = r2
  full = full
  NoUuid = none
  NoRequest = NoRequest
  Pages = {p1}
  MaxTries = 2
  Requests <- OneRequest
  Uuids <- OnePayment
  Schedules <- Installments
  Due <- DueOf
  Amount <- AmountOf
  Selection <- SelectionOf
  SetStatuses <- Cancelling
  MaxRows = 2
  Crashes = FALSE
INVARIANTS
  SuccessPageIsTrue
