\* One invoice of two line items (siblings, retries, left-over moves), or two invoices of
\* one line item each, alone or in one batch; each is received twice.
SPECIFICATION Spec
CONSTANTS
  pair = pair
  first = first
  second = second
  line1 = line1
  line2 = line2
  early = early
  late = late
  month = month
  NoInvoice = NoInvoice
  Invoices = {pair, first, second}
  Lines = {line1, line2, early, late}
  Groups = {month}
  InvoiceOf <- MCInvoiceOf
  Group <- MCGroup
  Arrivals = {{pair}, {first, second}}
  BatchSize = 2
  MaxReceive <- MCMaxReceive
INVARIANTS TypeOK LineItemsKept GroupsStayBilled SuccessfulMeansBilled
PROPERTIES SupersededArchived KeepsNewest Settles
CHECK_DEADLOCK FALSE
