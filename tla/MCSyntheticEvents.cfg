\* A month's fee and a quarter's minimum over the turn of a year, two calls.
SPECIFICATION Spec
CONSTANTS
  fee = fee
  minimum = minimum
  feeEvent = feeEvent
  checkEvent = checkEvent
  shortfallEvent = shortfallEvent
  Definitions = {fee, minimum}
  Config <- MCConfig
  Names = {feeEvent, checkEvent, shortfallEvent}
  Quarterly = {checkEvent}
  Genuine = {checkEvent}
  Services = Services
  Invoices <- MCInvoices
  NotInvoiced = NotInvoiced
  low = low
  high = high
  FirstMonth = 22
  LastMonth = 24
  MaxCalls = 2
  MaxTraffic = 1
  NoTable = NoTable
  MaxRows = 2
INVARIANTS TypeOK IdempotentIfPrompt NoneShort OnlyWhenDue
SYMMETRY MCSymmetry
CHECK_DEADLOCK FALSE
