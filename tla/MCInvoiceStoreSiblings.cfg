\* One invoice of two line items, received once.
SPECIFICATION Spec
CONSTANTS
  pair = pair
  first = first
  second = second
  line1 = line1
  line2 = line2
  early = early
  late = late
  month = month
  NoInvoice = NoInvoice
  Invoices = {pair}
  Lines = {line1, line2}
  Groups = {month}
  InvoiceOf <- MCInvoiceOf
  Group <- MCGroup
  Arrivals = {{pair}}
  BatchSize = 2
  MaxReceive <- MCSingleReceive
PROPERTY SiblingsKept
CHECK_DEADLOCK FALSE
