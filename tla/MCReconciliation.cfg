SPECIFICATION Spec
CONSTANTS
  turning = turning
  monthly = monthly
  byQuarter = byQuarter
  c1 = c1
  c2 = c2
  Services = {turning, monthly, byQuarter}
  ContractList <- MCContractList
  ContractOf <- MCContractOf
  NoContract = NoContract
  None = None
  Keys <- MCKeys
  Rates <- MCRates
  NoRate = NoRate
  RowsOf <- MCRowsOf
  CsvInvoices <- MCCsvInvoices
  PdfInvoices <- MCPdfInvoices
  Illegible = Illegible
  Unread = Unread
  Blank = Blank
  NoUnitPrice = NoUnitPrice
  UnitPrices = {low, high}
  low = low
  high = high
  Ids = {u1, u2}
  MaxStored = 2
  Quarterly = {byQuarter}
  Switchable = {turning}
  MaxUsage = 1
  MaxChanges = 1
  MaxRows = 4
INVARIANTS TypeOK NothingHidden PayableMeansMatched EveryMonthCounted BannerMatchesLabels CountedOnce OverviewTrue
SYMMETRY MCSymmetry
