SPECIFICATION FlowSpec
CONSTANTS
  r1 = r1
  r2 = r2
  full = full
  NoUuid = none
  NoRequest = NoRequest
  Pages = {p1}
  MaxTries = 3
  Requests <- TwoRequests
  Uuids <- OnePayment
  Schedules <- Installments
  Due <- DueOf
  Amount <- AmountOf
  Selection <- SelectionOf
  SetStatuses <- Cancelling
  MaxRows = 2
  Crashes = TRUE
INVARIANTS
  SuccessIsRecorded
PROPERTIES
  PagesEnd
