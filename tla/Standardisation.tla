---------------------------- MODULE Standardisation ----------------------------
(***************************************************************************)
(* From an invoice to its line items: which of the vendor's services a     *)
(* line is about, whether it is invoiced by the month or by the quarter,   *)
(* under which month it is filed, and what is read of its price.  A csv    *)
(* says its kind by its dates and must agree with the configuration; a pdf *)
(* is of the kind of the first of its vendor's services.                   *)
(***************************************************************************)
EXTENDS Integers, Sequences

CONSTANTS
  Services,
  RowsOf,      \* services of each vendor, in the order of the configuration
  CsvInvoices,
  PdfInvoices,
  UnitPrices,  \* what may be read of a unit price, null included
  Illegible,   \* an amount that is none, or not there
  Unread,      \* price of a line item that has only a quantity
  Blank        \* price of a line item that has neither

Vendors == DOMAIN RowsOf
Date    == [year : Nat, month : 1..12, day : 1..31]
Amount  == [value : Nat, commas : Nat] \cup {Illegible}
Price   == Nat \cup {Unread, Blank}

\* A line of an invoice: services whose pattern its description matches, its unit price,
\* text of its price, and whether there is a quantity.
Line == [matches : SUBSET Services, unitPrice : UnitPrices, amount : Amount, quantified : BOOLEAN]
CsvInvoice == [vendor : Vendors, start : Date, end : Date, lines : SUBSET Line]
PdfInvoice == [vendor : Vendors, received : Date, lines : SUBSET Line]
Item == [service : Services, year : Nat, month : 1..12, quarterly : BOOLEAN,
         unitPrice : UnitPrices, price : Price]

ASSUME StandardisationAssumption ==
  /\ \A v \in Vendors : RowsOf[v] \in Seq(Services) /\ RowsOf[v] # <<>>
  /\ CsvInvoices \subseteq CsvInvoice
  /\ PdfInvoices \subseteq PdfInvoice
  \* the rows of another vendor are not looked at
  /\ \A i \in CsvInvoices \cup PdfInvoices : \A l \in i.lines :
       l.matches \subseteq {RowsOf[i.vendor][n] : n \in DOMAIN RowsOf[i.vendor]}
  /\ Unread \notin Nat /\ Blank \notin Nat /\ Unread # Blank

--------------------------------------------------------------------------------
\* Quarters of the financial year
QuarterFirstMonth == [Q1 |-> 4, Q2 |-> 7, Q3 |-> 10, Q4 |-> 1]
Quarters == {"Q1", "Q2", "Q3", "Q4"}

\* getMonthQuarter: the last quarter that has begun
MonthQuarter(m) ==
  CHOOSE q \in Quarters : /\ QuarterFirstMonth[q] <= m
                          /\ \A p \in Quarters : QuarterFirstMonth[p] <= m =>
                               QuarterFirstMonth[p] <= QuarterFirstMonth[q]

\* getQuarterStartString
MutQuarterStart(m) == m
QuarterStart(m) == QuarterFirstMonth[MonthQuarter(m)]

DateRangeIsQuarter(start, end) ==
  /\ start.day = 1
  /\ <<start.month, end.month, end.day>> \in {<<1, 3, 31>>, <<4, 6, 30>>, <<7, 9, 30>>, <<10, 12, 31>>}

\* getNumberFromMoneyText, which removes one comma: what has two is no number.
PriceOf(l) ==
  IF l.amount # Illegible /\ l.amount.commas <= 1 THEN l.amount.value
  ELSE IF l.quantified THEN Unread ELSE Blank

--------------------------------------------------------------------------------
Items(lines, year, month, isQuarterly) ==
  UNION {{[service |-> s, year |-> year, month |-> month, quarterly |-> isQuarterly,
           unitPrice |-> l.unitPrice, price |-> PriceOf(l)] : s \in l.matches} : l \in lines}

\* getCsvStandardisedInvoice throws, and there are no line items, if a service is configured
\* as of the other kind, or a number cannot be read.
CsvItems(i, quarterly) ==
  LET isQuarterly == DateRangeIsQuarter(i.start, i.end)
      matched == {l \in i.lines : l.matches # {}} IN
  IF \A l \in matched : /\ l.amount # Illegible /\ l.quantified
                        /\ \A s \in l.matches : isQuarterly <=> s \in quarterly
    THEN Items(matched, i.start.year, i.start.month, isQuarterly)
    ELSE {}

\* getStandardisedInvoice0, getStandardisedInvoiceDefault
PdfItems(i, quarterly) ==
  LET isQuarterly == RowsOf[i.vendor][1] \in quarterly
      month == IF isQuarterly THEN QuarterStart(i.received.month) ELSE i.received.month IN
  Items(i.lines, i.received.year, month, isQuarterly)

ItemsStandardised(quarterly) ==
  UNION ({CsvItems(i, quarterly) : i \in CsvInvoices}
           \cup {PdfItems(i, quarterly) : i \in PdfInvoices})
================================================================================
