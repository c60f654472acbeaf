------------------------- MODULE StandardisationProofs -------------------------
(***************************************************************************)
(* What standardisation makes of an invoice, for all vendors, services and *)
(* configurations: line items, those by the quarter of a quarter's first   *)
(* month.                                                                  *)
(***************************************************************************)
EXTENDS Standardisation, TLAPS

FirstMonths == {1, 4, 7, 10}

\* A month is at or within two months after the start of its quarter.
LEMMA QuarterStarts ==
  ASSUME NEW m \in 1..12
  PROVE  /\ MonthQuarter(m) \in Quarters /\ QuarterStart(m) \in FirstMonths
         /\ QuarterStart(m) <= m /\ m <= QuarterStart(m) + 2
<1> DEFINE Last(q) == /\ QuarterFirstMonth[q] <= m
                      /\ \A p \in Quarters : QuarterFirstMonth[p] <= m =>
                           QuarterFirstMonth[p] <= QuarterFirstMonth[q]
<1>1. /\ QuarterFirstMonth["Q1"] = 4 /\ QuarterFirstMonth["Q2"] = 7
      /\ QuarterFirstMonth["Q3"] = 10 /\ QuarterFirstMonth["Q4"] = 1
  BY DEF QuarterFirstMonth
<1>2. \E q \in Quarters : Last(q)
  <2>1. CASE m < 4
    BY <1>1, <2>1 DEF Quarters
  <2>2. CASE 4 <= m /\ m < 7
    BY <1>1, <2>2 DEF Quarters
  <2>3. CASE 7 <= m /\ m < 10
    BY <1>1, <2>3 DEF Quarters
  <2>4. CASE 10 <= m
    BY <1>1, <2>4 DEF Quarters
  <2>5. QED BY <2>1, <2>2, <2>3, <2>4
<1>3. MonthQuarter(m) \in Quarters /\ Last(MonthQuarter(m))
  BY <1>2 DEF MonthQuarter
<1>4. QED BY <1>1, <1>3 DEF QuarterStart, Quarters, FirstMonths

\* The quarters of csv invoices begin with the same months.
LEMMA RangesStart ==
  ASSUME NEW start, NEW end, DateRangeIsQuarter(start, end)
  PROVE  start.month \in FirstMonths
BY DEF DateRangeIsQuarter, FirstMonths

LEMMA PricesRead ==
  ASSUME StandardisationAssumption, NEW l \in Line
  PROVE  PriceOf(l) \in Price
<1>1. l.amount # Illegible => l.amount.value \in Nat
  BY DEF Line, Amount
<1>2. QED BY <1>1 DEF PriceOf, Price

LEMMA ItemsOf ==
  ASSUME NEW lines, lines \subseteq Line, NEW year, year \in Nat, NEW month, month \in 1..12,
         NEW isQuarterly, isQuarterly \in BOOLEAN, NEW b, b \in Items(lines, year, month, isQuarterly)
  PROVE  b \in Item /\ b.month = month /\ b.quarterly = isQuarterly
<1>1. PICK l \in lines : \E s \in l.matches :
        b = [service |-> s, year |-> year, month |-> month, quarterly |-> isQuarterly,
             unitPrice |-> l.unitPrice, price |-> PriceOf(l)]
  BY DEF Items
<1>2. l.matches \subseteq Services /\ l.unitPrice \in UnitPrices
  BY DEF Line
<1>3. PriceOf(l) \in Price
  BY PricesRead, StandardisationAssumption
<1>4. QED BY <1>1, <1>2, <1>3 DEF Item

\* Whatever an invoice says and the configuration holds, its line items by the quarter are
\* filed under the first month of one (getQuarterStartString, dateRangeIsQuarter).
THEOREM ItemsAreFiled ==
  ASSUME NEW quarterly, NEW b \in ItemsStandardised(quarterly)
  PROVE  b \in Item /\ (b.quarterly => b.month \in FirstMonths)
<1>1. CASE \E i \in CsvInvoices : b \in CsvItems(i, quarterly)
  <2>1. PICK i \in CsvInvoices : b \in CsvItems(i, quarterly)
    BY <1>1
  <2> DEFINE isQuarterly == DateRangeIsQuarter(i.start, i.end)
             matched == {l \in i.lines : l.matches # {}}
  <2>2. b \in Items(matched, i.start.year, i.start.month, isQuarterly)
    BY <2>1 DEF CsvItems
  <2>3. i \in CsvInvoice
    BY StandardisationAssumption
  <2>4. matched \subseteq Line /\ i.start.year \in Nat /\ i.start.month \in 1..12
    BY <2>3 DEF CsvInvoice, Date
  <2>5. isQuarterly \in BOOLEAN
    BY DEF DateRangeIsQuarter
  <2> HIDE DEF isQuarterly, matched
  <2>6. b \in Item /\ b.month = i.start.month /\ b.quarterly = isQuarterly
    BY <2>2, <2>4, <2>5, ItemsOf
  <2>7. QED BY <2>6, RangesStart DEF isQuarterly
<1>2. CASE \E i \in PdfInvoices : b \in PdfItems(i, quarterly)
  <2>1. PICK i \in PdfInvoices : b \in PdfItems(i, quarterly)
    BY <1>2
  <2> DEFINE isQuarterly == RowsOf[i.vendor][1] \in quarterly
             month == IF isQuarterly THEN QuarterStart(i.received.month) ELSE i.received.month
  <2>2. b \in Items(i.lines, i.received.year, month, isQuarterly)
    BY <2>1 DEF PdfItems
  <2>3. i \in PdfInvoice
    BY StandardisationAssumption
  <2>4. i.lines \subseteq Line /\ i.received.year \in Nat /\ i.received.month \in 1..12
    BY <2>3 DEF PdfInvoice, Date
  <2>5. QuarterStart(i.received.month) \in FirstMonths
    BY <2>4, QuarterStarts
  <2>5a. isQuarterly \in BOOLEAN
    OBVIOUS
  <2>6. month \in 1..12
    BY <2>4, <2>5 DEF FirstMonths
  <2> HIDE DEF isQuarterly, month
  <2>7. b \in Item /\ b.month = month /\ b.quarterly = isQuarterly
    BY <2>2, <2>4, <2>5a, <2>6, ItemsOf
  <2>8. QED BY <2>5, <2>7 DEF month
<1>3. QED BY <1>1, <1>2 DEF ItemsStandardised
================================================================================
