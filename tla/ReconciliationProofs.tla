------------------------- MODULE ReconciliationProofs -------------------------
(***************************************************************************)
(* What the pages show of an extract, for all services, invoices, events   *)
(* and configurations: everything the query read is on some page, invoices *)
(* are compared with all events of their months, no line item is summed    *)
(* twice and no event counted twice at one unit price, the overview agrees *)
(* with the pages it links to, and what they say can be paid was used.     *)
(***************************************************************************)
EXTENDS Reconciliation, StandardisationProofs, FiniteSetTheorems, TLAPS

\* A month of a row by the quarter is the first of its quarter.
WellFormed(rows) ==
  \A r \in rows : /\ r.service \in Services /\ r.year \in Nat /\ r.month \in 1..12
                  /\ r.quarterly \in BOOLEAN
                  /\ r.quarterly => FirstMonth(r.month) = r.month

\* All that was read is in the rows.
Complete(rows, b) ==
  /\ \A k \in Keys : b.usage[k] > 0 => \E r \in rows : r.service = k.service /\ k \in r.counted
  /\ \A bill \in b.billing : \E r \in rows : r.service = bill.item.service /\ bill \in r.bills

\* Rows with an invoice have the events of the months of each of their line items.
Exact(rows, b) ==
  \A r \in rows : \A bill \in r.bills :
    r.counted = {k \in Keys : /\ b.usage[k] > 0
                              /\ k.service = bill.item.service /\ k.year = bill.item.year
                              /\ k.month \in MonthsOf(bill.item)}

\* No line item is in two rows, an event only in those of invoices that differ in kind or
\* unit price.
Apart(rows) ==
  \A r \in rows, n \in rows : r # n =>
    /\ r.bills \cap n.bills = {}
    /\ r.counted \cap n.counted # {} =>
         /\ r.bills # {} /\ n.bills # {}
         /\ r.quarterly # n.quarterly \/ r.unitPrice # n.unitPrice

\* Line items are as standardised; of each month and event there may be several.
InputInv ==
  /\ billing \subseteq Bill /\ IsFiniteSet(billing)
  /\ \A b \in billing : b.item.quarterly => b.item.month \in FirstMonths

QueryInv ==
  query.phase = "succeeded" =>
    /\ WellFormed(query.rows) /\ Apart(query.rows)
    /\ Complete(query.rows, query.basis) /\ Exact(query.rows, query.basis)

ExtractInv ==
  /\ WellFormed(extract) /\ Apart(extract) /\ Exact(extract, basis)
  /\ Whole => Complete(extract, basis)

IInv == InputInv /\ QueryInv /\ ExtractInv

\* Quarters: the month that the views give to a quarter is the one the pages ask for.
LEMMA QuarterMonths ==
  ASSUME NEW m \in 1..12
  PROVE  /\ FirstMonth(m) \in FirstMonths /\ FirstMonth(FirstMonth(m)) = FirstMonth(m)
         /\ FirstMonth(m) <= m /\ m <= FirstMonth(m) + 2
<1>1. \/ m = 1 \/ m = 2 \/ m = 3 \/ m = 4 \/ m = 5 \/ m = 6
      \/ m = 7 \/ m = 8 \/ m = 9 \/ m = 10 \/ m = 11 \/ m = 12
  OBVIOUS
<1>2. QED BY <1>1 DEF FirstMonth, FirstMonths

LEMMA QuarterRoundTrip ==
  ASSUME NEW m \in FirstMonths
  PROVE  MonthQuarter(m) \in Quarters /\ QuarterFirstMonth[MonthQuarter(m)] = m
BY QuarterStarts DEF QuarterStart, FirstMonths

\* The page of a period has the rows of that period, and no others.
LEMMA PageOfPeriod ==
  ASSUME NEW e, WellFormed(e), NEW r \in e, NEW n \in e
  PROVE  n \in Page(e, Link(ContractOf[r.service], PeriodOf(r)))
           <=> ContractOf[n.service] = ContractOf[r.service] /\ PeriodOf(n) = PeriodOf(r)
<1> DEFINE link == Link(ContractOf[r.service], PeriodOf(r))
<1>1. /\ link.contract = ContractOf[r.service] /\ link.year = r.year
      /\ link.quarter = IF r.quarterly THEN MonthQuarter(r.month) ELSE None
      /\ link.month = IF r.quarterly THEN 0 ELSE r.month
  BY DEF Link, PeriodOf
<1>2. r.quarterly => link.quarter # None /\ QuarterFirstMonth[link.quarter] = r.month
  <2> SUFFICES ASSUME r.quarterly PROVE link.quarter # None /\ QuarterFirstMonth[link.quarter] = r.month
    OBVIOUS
  <2>1. r.month \in FirstMonths
    BY QuarterMonths DEF WellFormed
  <2>2. QED BY <1>1, <2>1, QuarterRoundTrip, ReconciliationAssumption DEF Quarters
<1>3. n \in Page(e, link) <=>
        /\ ContractOf[n.service] = link.contract /\ n.year = link.year
        /\ IF link.quarter = None THEN ~n.quarterly /\ n.month = link.month
           ELSE n.quarterly /\ n.month = QuarterFirstMonth[link.quarter]
  BY DEF Page, LineItems, WellFormed
<1>4. PeriodOf(n) = PeriodOf(r) <=>
        n.year = r.year /\ n.month = r.month /\ n.quarterly = r.quarterly
  BY DEF PeriodOf
<1>5. n.quarterly \in BOOLEAN /\ r.quarterly \in BOOLEAN
  BY DEF WellFormed
<1>6. QED BY <1>1, <1>2, <1>3, <1>4, <1>5

LEMMA OnItsPage ==
  ASSUME WellFormed(extract), NEW r \in extract
  PROVE  \E page \in PagesOf(ContractOf[r.service]) : r \in page
<1> DEFINE page == Page(extract, Link(ContractOf[r.service], PeriodOf(r)))
<1>1. PeriodOf(r) \in Periods(extract, ContractOf[r.service])
  BY DEF Periods
<1>2. page \in PagesOf(ContractOf[r.service])
  BY <1>1 DEF PagesOf
<1>3. r \in page
  BY PageOfPeriod
<1>4. QED BY <1>2, <1>3

--------------------------------------------------------------------------------
\* The views

LEMMA BillRowFields ==
  ASSUME NEW g
  PROVE  /\ BillRow(g).service = g.service /\ BillRow(g).year = g.year
         /\ BillRow(g).month = (IF g.quarterly THEN FirstMonth(g.month) ELSE g.month)
         /\ BillRow(g).quarterly = g.quarterly /\ BillRow(g).unitPrice = g.unitPrice
         /\ BillRow(g).bills = {b \in billing : GroupOf(b.item) = g}
         /\ BillRow(g).counted = {k \in Used : Covers(g, k)}
BY DEF BillRow, Row

LEMMA UsageRowFields ==
  ASSUME NEW k
  PROVE  /\ UsageRow(k).service = k.service /\ UsageRow(k).year = k.year
         /\ UsageRow(k).month = UsageMonth(k)
         /\ UsageRow(k).quarterly = (k.service \in quarterly) /\ UsageRow(k).bills = {}
         /\ UsageRow(k).counted =
              {n \in Unbilled : /\ n.service = k.service /\ n.year = k.year
                                /\ UsageMonth(n) = UsageMonth(k)}
BY DEF UsageRow, Row

\* A group has of its line items what the join asks for.
LEMMA GroupFields ==
  ASSUME NEW i
  PROVE  /\ GroupOf(i).service = i.service /\ GroupOf(i).year = i.year /\ GroupOf(i).month = i.month
         /\ GroupOf(i).quarterly = i.quarterly /\ GroupOf(i).unitPrice = i.unitPrice
         /\ \A k : Covers(GroupOf(i), k) <=> Covers(i, k)
BY DEF GroupOf, Covers

LEMMA BilledItems ==
  ASSUME InputInv, NEW b \in billing
  PROVE  /\ b.item.service \in Services /\ b.item.year \in Nat /\ b.item.month \in 1..12
         /\ b.item.quarterly \in BOOLEAN /\ b.item.unitPrice \in UnitPrices
<1>1. b.item \in Item
  BY DEF InputInv, Bill
<1>2. QED BY <1>1 DEF Item

LEMMA ViewWellFormed ==
  ASSUME InputInv
  PROVE  WellFormed(View)
<1> SUFFICES ASSUME NEW r \in View
             PROVE  /\ r.service \in Services /\ r.year \in Nat /\ r.month \in 1..12
                    /\ r.quarterly \in BOOLEAN
                    /\ r.quarterly => FirstMonth(r.month) = r.month
  BY DEF WellFormed
<1>1. CASE \E b \in billing : r = BillRow(GroupOf(b.item))
  <2>1. PICK b \in billing : r = BillRow(GroupOf(b.item))
    BY <1>1
  <2> DEFINE g == GroupOf(b.item)
  <2>2. g.service \in Services /\ g.year \in Nat /\ g.month \in 1..12 /\ g.quarterly \in BOOLEAN
    BY BilledItems, GroupFields
  <2>3. FirstMonth(g.month) \in 1..12 /\ FirstMonth(FirstMonth(g.month)) = FirstMonth(g.month)
    BY <2>2, QuarterMonths DEF FirstMonths
  <2> HIDE DEF g
  <2>4. QED BY <2>1, <2>2, <2>3, BillRowFields DEF g
<1>2. CASE \E k \in Unbilled : r = UsageRow(k)
  <2>1. PICK k \in Unbilled : r = UsageRow(k)
    BY <1>2
  <2>2. k \in Key
    BY ReconciliationAssumption DEF Unbilled, Used
  <2>3. k.service \in Services /\ k.year \in Nat /\ k.month \in 1..12
    BY <2>2 DEF Key
  <2>4. FirstMonth(k.month) \in 1..12 /\ FirstMonth(FirstMonth(k.month)) = FirstMonth(k.month)
    BY <2>3, QuarterMonths DEF FirstMonths
  <2>5. /\ r.service = k.service /\ r.year = k.year /\ r.month = UsageMonth(k)
        /\ r.quarterly = (k.service \in quarterly)
    BY <2>1, UsageRowFields
  <2>6. r.quarterly \in BOOLEAN
    BY <2>5
  <2>7. CASE k.service \in quarterly
    BY <2>3, <2>4, <2>5, <2>6, <2>7 DEF UsageMonth
  <2>8. CASE k.service \notin quarterly
    BY <2>3, <2>5, <2>6, <2>8 DEF UsageMonth
  <2>9. QED BY <2>7, <2>8
<1>3. QED BY <1>1, <1>2 DEF View

LEMMA ViewComplete ==
  Complete(View, [billing |-> billing, usage |-> usage])
<1>1. ASSUME NEW k \in Keys, usage[k] > 0
      PROVE  \E r \in View : r.service = k.service /\ k \in r.counted
  <2>1. k \in Used
    BY <1>1 DEF Used
  <2>2. CASE \E b \in billing : Covers(b.item, k)
    <3>1. PICK b \in billing : Covers(b.item, k)
      BY <2>2
    <3> DEFINE g == GroupOf(b.item)
    <3>2. BillRow(g) \in View
      BY DEF View
    <3>3. Covers(g, k)
      BY <3>1, GroupFields
    <3> HIDE DEF g
    <3>4. BillRow(g).service = k.service /\ k \in BillRow(g).counted
      BY <2>1, <3>3, BillRowFields DEF Covers
    <3>5. QED BY <3>2, <3>4
  <2>3. CASE \A b \in billing : ~Covers(b.item, k)
    <3>1. k \in Unbilled
      BY <2>1, <2>3 DEF Unbilled
    <3>2. UsageRow(k) \in View
      BY <3>1 DEF View
    <3>3. UsageRow(k).service = k.service /\ k \in UsageRow(k).counted
      BY <3>1, UsageRowFields
    <3>4. QED BY <3>2, <3>3
  <2>4. QED BY <2>2, <2>3
<1>2. ASSUME NEW b \in billing
      PROVE  \E r \in View : r.service = b.item.service /\ b \in r.bills
  <2> DEFINE g == GroupOf(b.item)
  <2>1. BillRow(g) \in View /\ g.service = b.item.service
    BY GroupFields DEF View
  <2>2. b \in {other \in billing : GroupOf(other.item) = g}
    OBVIOUS
  <2> HIDE DEF g
  <2>3. QED BY <2>1, <2>2, BillRowFields
<1>3. QED BY <1>1, <1>2 DEF Complete

LEMMA ViewApart == Apart(View)
<1>1. ASSUME NEW r \in View, NEW n \in View, r # n
      PROVE  r.bills \cap n.bills = {}
  <2>1. ASSUME NEW b \in r.bills, b \in n.bills PROVE FALSE
    <3>1. r = BillRow(GroupOf(b.item))
      BY <2>1, BillRowFields, UsageRowFields DEF View
    <3>2. n = BillRow(GroupOf(b.item))
      BY <2>1, BillRowFields, UsageRowFields DEF View
    <3>3. QED BY <1>1, <3>1, <3>2
  <2>2. QED BY <2>1
<1>2. ASSUME NEW b \in billing, NEW k1 \in Unbilled, NEW k,
             k \in BillRow(GroupOf(b.item)).counted, k \in UsageRow(k1).counted
      PROVE  FALSE
  <2>1. Covers(b.item, k)
    BY <1>2, BillRowFields, GroupFields
  <2>2. k \in Unbilled
    BY <1>2, UsageRowFields
  <2>3. QED BY <2>1, <2>2 DEF Unbilled
<1>3. ASSUME NEW b \in billing, NEW other \in billing, NEW k,
             k \in BillRow(GroupOf(b.item)).counted, k \in BillRow(GroupOf(other.item)).counted,
             b.item.quarterly = other.item.quarterly, b.item.unitPrice = other.item.unitPrice
      PROVE  GroupOf(b.item) = GroupOf(other.item)
  <2>1. Covers(b.item, k) /\ Covers(other.item, k)
    BY <1>3, BillRowFields, GroupFields
  <2>2. /\ b.item.service = other.item.service /\ b.item.year = other.item.year
        /\ b.item.month = other.item.month
    BY <1>3, <2>1 DEF Covers
  <2>3. QED BY <1>3, <2>2 DEF GroupOf
<1>4. ASSUME NEW k1 \in Unbilled, NEW k2 \in Unbilled, NEW k,
             k \in UsageRow(k1).counted, k \in UsageRow(k2).counted
      PROVE  UsageRow(k1) = UsageRow(k2)
  <2>1. /\ k1.service = k2.service /\ k1.year = k2.year
        /\ UsageMonth(k1) = UsageMonth(k2)
    BY <1>4, UsageRowFields
  <2>2. QED BY <2>1 DEF UsageRow, Row
<1>5. ASSUME NEW r \in View, NEW n \in View, r # n, NEW k \in r.counted \cap n.counted
      PROVE  /\ r.bills # {} /\ n.bills # {}
             /\ r.quarterly # n.quarterly \/ r.unitPrice # n.unitPrice
  <2>1. PICK b \in billing, other \in billing :
          r = BillRow(GroupOf(b.item)) /\ n = BillRow(GroupOf(other.item))
    BY <1>2, <1>4, <1>5 DEF View
  <2>2. b \in r.bills /\ other \in n.bills
    BY <2>1, BillRowFields
  <2>3. /\ r.quarterly = b.item.quarterly /\ r.unitPrice = b.item.unitPrice
        /\ n.quarterly = other.item.quarterly /\ n.unitPrice = other.item.unitPrice
    BY <2>1, BillRowFields, GroupFields
  <2>4. QED BY <1>3, <1>5, <2>1, <2>2, <2>3
<1>6. QED BY <1>1, <1>5 DEF Apart

LEMMA ViewExact ==
  ASSUME InputInv
  PROVE  Exact(View, [billing |-> billing, usage |-> usage])
<1> SUFFICES ASSUME NEW r \in View, NEW bill \in r.bills
             PROVE  r.counted = {k \in Keys : /\ usage[k] > 0
                                             /\ k.service = bill.item.service /\ k.year = bill.item.year
                                             /\ k.month \in MonthsOf(bill.item)}
  BY DEF Exact
<1> DEFINE b == bill.item
<1>1. bill \in billing /\ r = BillRow(GroupOf(b))
  BY BillRowFields, UsageRowFields DEF View
<1>2. r.counted = {k \in Used : Covers(b, k)}
  BY <1>1, BillRowFields, GroupFields
<1>3. b.month \in 1..12 /\ (b.quarterly => b.month \in FirstMonths)
  BY <1>1, BilledItems DEF InputInv
<1> HIDE DEF b
<1>4. ASSUME NEW k \in Keys
      PROVE  Covers(b, k) <=> /\ k.service = b.service /\ k.year = b.year
                              /\ k.month \in MonthsOf(b)
  <2>1. k.month \in 1..12
    BY ReconciliationAssumption DEF Key
  <2>2. CASE b.quarterly
    <3>1. FirstMonth(k.month) \in FirstMonths
          /\ FirstMonth(k.month) <= k.month /\ k.month <= FirstMonth(k.month) + 2
      BY <2>1, QuarterMonths
    <3>2. FirstMonth(k.month) = b.month <=> k.month \in b.month..(b.month + 2)
      BY <1>3, <2>1, <2>2, <3>1 DEF FirstMonths
    <3>3. QED BY <2>2, <3>2 DEF Covers, MonthsOf
  <2>3. CASE ~b.quarterly
    BY <2>3 DEF Covers, MonthsOf
  <2>4. QED BY <2>2, <2>3
<1>5. QED BY <1>2, <1>4 DEF Used, b

--------------------------------------------------------------------------------
\* The steps

LEMMA InitInv == Init => IInv
<1> SUFFICES ASSUME Init PROVE IInv
  OBVIOUS
<1>1. InputInv
  <2>1. ASSUME NEW b \in billing
        PROVE  b \in Bill /\ (b.item.quarterly => b.item.month \in FirstMonths)
    <3>1. b \in [item : UNION {ItemsStandardised(c) : c \in Configurations}, id : Ids]
      BY DEF Init
    <3>2. PICK c \in Configurations : b.item \in ItemsStandardised(c)
      BY <3>1
    <3>3. b.item \in Item /\ (b.item.quarterly => b.item.month \in FirstMonths)
      BY <3>2, ItemsAreFiled
    <3>4. QED BY <3>1, <3>3 DEF Bill
  <2>2. QED BY <2>1 DEF Init, InputInv
<1>2. QueryInv
  BY DEF Init, QueryInv, NoQuery
<1>3. ExtractInv
  BY DEF Init, ExtractInv, WellFormed, Apart, Whole, Exact
<1>4. QED BY <1>1, <1>2, <1>3 DEF IInv

\* Only the sources change.
LEMMA ChangeInv ==
  ASSUME IInv, Change, InputInv' PROVE IInv'
BY DEF IInv, Change, QueryInv, ExtractInv, WellFormed, Apart, Complete, Exact, Whole

LEMMA StoreBillInv ==
  ASSUME IInv, NEW i \in ItemsStandardised(quarterly), StoreBill(i) PROVE IInv'
<1>1. PICK id \in Ids : billing' = billing \cup {[item |-> i, id |-> id]}
  BY DEF StoreBill
<1>2. i \in Item /\ (i.quarterly => i.month \in FirstMonths)
  BY ItemsAreFiled
<1>3. IsFiniteSet(billing')
  BY <1>1, FS_AddElement DEF IInv, InputInv
<1>4. InputInv'
  BY <1>1, <1>2, <1>3 DEF IInv, InputInv, Bill
<1>5. QED BY <1>4, ChangeInv DEF StoreBill

LEMMA ArchiveBillInv ==
  ASSUME IInv, NEW b \in billing, ArchiveBill(b) PROVE IInv'
<1>1. billing' = billing \ {b}
  BY DEF ArchiveBill
<1>2. IsFiniteSet(billing')
  BY <1>1, FS_RemoveElement DEF IInv, InputInv
<1>3. InputInv'
  BY <1>1, <1>2 DEF IInv, InputInv
<1>4. QED BY <1>3, ChangeInv DEF ArchiveBill

LEMMA StoreEventInv ==
  ASSUME IInv, NEW k \in Keys, StoreEvent(k) PROVE IInv'
<1>1. InputInv'
  BY DEF IInv, InputInv, StoreEvent
<1>2. QED BY <1>1, ChangeInv DEF StoreEvent

LEMMA ConfigureInv ==
  ASSUME IInv, NEW s \in Switchable, Configure(s) PROVE IInv'
<1>1. InputInv'
  BY DEF IInv, InputInv, Configure
<1>2. QED BY <1>1, ChangeInv DEF Configure

LEMMA QuerySucceedsInv ==
  ASSUME IInv, QuerySucceeds PROVE IInv'
<1>1. QueryInv'
  <2>1. query'.rows = View /\ query'.basis = [billing |-> billing, usage |-> usage]
    BY DEF QuerySucceeds
  <2>2. /\ WellFormed(query'.rows) /\ Apart(query'.rows)
        /\ Complete(query'.rows, query'.basis) /\ Exact(query'.rows, query'.basis)
    BY <2>1, ViewWellFormed, ViewApart, ViewComplete, ViewExact DEF IInv
  <2>3. QED BY <2>2 DEF QueryInv, WellFormed, Apart, Complete, Exact
<1>2. InputInv' /\ ExtractInv'
  BY DEF IInv, InputInv, ExtractInv, QuerySucceeds, inputVars,
         WellFormed, Apart, Complete, Exact, Whole
<1>3. QED BY <1>1, <1>2 DEF IInv

LEMMA StoreExtractInv ==
  ASSUME IInv, StoreExtract PROVE IInv'
<1>1. PICK rows \in SUBSET query.rows :
        /\ rows = query.rows \/ Cardinality(rows) = MaxRows
        /\ extract' = rows
  BY DEF StoreExtract
<1>2. QueryInv'
  BY DEF StoreExtract, QueryInv, NoQuery
<1>3. WellFormed(rows) /\ Apart(rows) /\ Exact(rows, query.basis)
  BY DEF IInv, QueryInv, StoreExtract, WellFormed, Apart, Exact
<1>4. Whole' => Complete(rows, query.basis)
  <2> SUFFICES ASSUME Whole' PROVE rows = query.rows
    BY DEF IInv, QueryInv, StoreExtract
  <2>1. Cardinality(rows) < MaxRows
    BY <1>1 DEF Whole
  <2>2. QED BY <1>1, <2>1, ReconciliationAssumption
<1>5. ExtractInv'
  BY <1>1, <1>3, <1>4 DEF ExtractInv, StoreExtract, WellFormed, Apart, Complete, Exact
<1>6. InputInv'
  BY DEF IInv, InputInv, StoreExtract, inputVars
<1>7. QED BY <1>2, <1>5, <1>6 DEF IInv

\* Steps that leave sources and extract alone, and of which no query comes out successful.
LEMMA RestInv ==
  ASSUME IInv, UNCHANGED <<inputVars, extract, basis>>,
         query' = query \/ query'.phase # "succeeded"
  PROVE  IInv'
BY DEF IInv, InputInv, QueryInv, ExtractInv, inputVars,
       WellFormed, Apart, Complete, Exact, Whole

LEMMA NextInv == IInv /\ [Next]_vars => IInv'
<1> SUFFICES ASSUME IInv, [Next]_vars PROVE IInv'
  OBVIOUS
<1>1. CASE \E b \in ItemsStandardised(quarterly) : StoreBill(b)
  BY <1>1, StoreBillInv
<1>2. CASE \E k \in Keys : StoreEvent(k)
  BY <1>2, StoreEventInv
<1>3. CASE \E s \in Switchable : Configure(s)
  BY <1>3, ConfigureInv
<1>4. CASE StartQuery
  BY <1>4, RestInv DEF StartQuery
<1>5. CASE QuerySucceeds
  BY <1>5, QuerySucceedsInv
<1>6. CASE QueryFails
  BY <1>6, RestInv DEF QueryFails, NoQuery
<1>7. CASE StoreExtract
  BY <1>7, StoreExtractInv
<1>8. CASE OpenOverview \/ ReadPeriods \/ ReadStatus
  BY <1>8, RestInv DEF OpenOverview, ReadPeriods, ReadStatus
<1>9. CASE UNCHANGED vars
  BY <1>9, RestInv DEF vars
<1>10. CASE \E b \in billing : ArchiveBill(b)
  BY <1>10, ArchiveBillInv
<1>11. QED
  BY <1>1, <1>2, <1>3, <1>4, <1>5, <1>6, <1>7, <1>8, <1>9, <1>10 DEF Next

\* The inductive invariant: whatever line items are stored together, rows of the query and of
\* the extract are well-formed and leave nothing out, no two have a line item in common, and
\* only those of invoices that differ in kind or unit price an event.
THEOREM Invariant == Spec => []IInv
BY InitInv, NextInv, PTL DEF Spec

\* Every event and line item that the query read can be found from the list of invoices.
THEOREM NothingIsHidden == Spec => []NothingHidden
<1>1. IInv => NothingHidden
  <2> SUFFICES ASSUME IInv, Whole
               PROVE  /\ \A k \in Keys : basis.usage[k] > 0 =>
                           \E page \in PagesOf(ContractOf[k.service]) :
                             \E r \in page : k \in r.counted
                      /\ \A b \in basis.billing :
                           \E page \in PagesOf(ContractOf[b.item.service]) :
                             \E r \in page : b \in r.bills
    BY DEF NothingHidden
  <2>1. WellFormed(extract) /\ Complete(extract, basis)
    BY DEF IInv, ExtractInv
  <2>2. QED BY <2>1, OnItsPage DEF Complete
<1>2. QED BY <1>1, Invariant, PTL

\* An invoice is compared with exactly the events of the months it is for.
THEOREM EveryMonthIsCounted == Spec => []EveryMonthCounted
<1>1. IInv => EveryMonthCounted
  BY DEF IInv, ExtractInv, Exact, EveryMonthCounted
<1>2. QED BY <1>1, Invariant, PTL

\* No line item is summed in two rows, and an event is counted in two only where it was
\* invoiced at two unit prices, or by the month and by the quarter: however many line items
\* of its month are stored together, siblings or not archived yet.
THEOREM NothingCountedTwice == Spec => []CountedOnce
<1>1. IInv => CountedOnce
  BY DEF IInv, ExtractInv, Apart, CountedOnce
<1>2. QED BY <1>1, Invariant, PTL

--------------------------------------------------------------------------------
\* The overview

\* The period that was read is the latest of the extract that is still there.
VisitInv ==
  /\ overview.at = NoContract => ~overview.torn
  /\ overview.at # NoContract /\ ~overview.torn =>
       overview.period \in Latest(Periods(extract, overview.at))

\* What a row of the overview says of contract c is true of the extract.
TrueOf(e, c, link, status) ==
  LET page == Page(e, link) IN
  /\ page # {}
  /\ status = InvoiceStatus(page)
  /\ \A r \in e : ContractOf[r.service] = c => \A n \in page : ~Earlier(n, r)

\* The overview asks for a period, the page for a link to it.
LEMMA StatusOfPage ==
  ASSUME NEW e, WellFormed(e), NEW c, NEW p \in Periods(e, c)
  PROVE  LineItems(e, c, p.year, p.month, p.quarterly) = Page(e, Link(c, p))
<1>1. PICK r \in e : ContractOf[r.service] = c /\ p = PeriodOf(r)
  BY DEF Periods
<1>2. ASSUME NEW n \in e
      PROVE  n \in LineItems(e, c, p.year, p.month, p.quarterly) <=> n \in Page(e, Link(c, p))
  <2>1. n \in LineItems(e, c, p.year, p.month, p.quarterly)
          <=> ContractOf[n.service] = c /\ PeriodOf(n) = p
    BY <1>1 DEF LineItems, PeriodOf
  <2>2. QED BY <1>1, <2>1, PageOfPeriod
<1>3. QED BY <1>2 DEF LineItems, Page

LEMMA LatestIsTrue ==
  ASSUME NEW e, WellFormed(e), NEW c, NEW p \in Latest(Periods(e, c))
  PROVE  TrueOf(e, c, Link(c, p), InvoiceStatus(LineItems(e, c, p.year, p.month, p.quarterly)))
<1> DEFINE page == Page(e, Link(c, p))
<1>1. PICK r \in e : ContractOf[r.service] = c /\ p = PeriodOf(r)
  BY DEF Latest, Periods
<1>2. r \in page
  BY <1>1, PageOfPeriod
<1>3. ASSUME NEW n \in page, NEW m \in e, ContractOf[m.service] = c
      PROVE  ~Earlier(n, m)
  <2>0. n \in e
    BY <1>3 DEF Page, LineItems
  <2>1. PeriodOf(n) = p
    BY <1>1, <1>3, <2>0, PageOfPeriod
  <2>2. ~Earlier(p, PeriodOf(m))
    BY <1>3 DEF Latest, Periods
  <2>3. n.year = p.year /\ n.month = p.month
    BY <2>1 DEF PeriodOf
  <2>4. QED BY <2>2, <2>3 DEF Earlier, PeriodOf
<1>4. page = LineItems(e, c, p.year, p.month, p.quarterly)
  BY StatusOfPage DEF Latest
<1>5. QED BY <1>2, <1>3, <1>4 DEF TrueOf

LEMMA InitVisit == Init => VisitInv /\ OverviewTrue
BY DEF Init, Visit, VisitInv, OverviewTrue

LEMMA ReadStatusTrue ==
  ASSUME IInv, VisitInv, OverviewTrue, ReadStatus PROVE VisitInv' /\ OverviewTrue'
<1> DEFINE c == overview.at
           p == overview.period
           shown == [contract |-> c, link |-> Link(c, p),
                     status |-> InvoiceStatus(LineItems(extract, c, p.year, p.month, p.quarterly))]
<1>1. /\ overview' = Visit(overview.todo, NoContract, None, FALSE,
                           overview.rows \cup (IF overview.torn THEN {} ELSE {shown}))
      /\ overview.at # NoContract /\ extract' = extract
  BY DEF ReadStatus
<1>2. /\ overview'.at = NoContract /\ overview'.torn = FALSE
      /\ overview'.rows = overview.rows \cup (IF overview.torn THEN {} ELSE {shown})
  BY <1>1 DEF Visit
<1>3. ~overview.torn => TrueOf(extract, shown.contract, shown.link, shown.status)
  BY <1>1, LatestIsTrue DEF VisitInv, IInv, ExtractInv
<1>4. \A x \in overview'.rows : TrueOf(extract, x.contract, x.link, x.status)
  <2>1. \A x \in overview.rows : TrueOf(extract, x.contract, x.link, x.status)
    BY DEF OverviewTrue, TrueOf
  <2>2. QED BY <1>2, <1>3, <2>1
<1>5. OverviewTrue'
  BY <1>1, <1>4 DEF OverviewTrue, TrueOf
<1>6. QED BY <1>2, <1>5 DEF VisitInv

LEMMA NextVisit ==
  IInv /\ VisitInv /\ OverviewTrue /\ [Next]_vars => VisitInv' /\ OverviewTrue'
<1> SUFFICES ASSUME IInv, VisitInv, OverviewTrue, [Next]_vars
             PROVE  VisitInv' /\ OverviewTrue'
  OBVIOUS
<1>1. CASE UNCHANGED <<extract, overview>>
  BY <1>1 DEF VisitInv, OverviewTrue
<1>2. CASE StoreExtract
  <2>1. (overview' = overview /\ extract' = extract) \/ overview' = Outdated(overview)
    BY <1>2 DEF StoreExtract
  <2>2. CASE overview' = Outdated(overview)
    <3>1. /\ overview'.at = overview.at /\ overview'.torn = (overview.at # NoContract)
          /\ overview'.rows = {}
      BY <2>2 DEF Outdated, Visit
    <3>2. QED BY <3>1 DEF VisitInv, OverviewTrue
  <2>3. QED BY <1>1, <2>1, <2>2
<1>3. CASE OpenOverview
  <2>1. overview'.at = NoContract /\ overview'.torn = FALSE /\ overview'.rows = {}
    BY <1>3 DEF OpenOverview, Visit
  <2>2. QED BY <2>1 DEF VisitInv, OverviewTrue
<1>4. CASE ReadPeriods
  <2>1. PICK at, period :
          /\ overview' = Visit(Tail(overview.todo), at, period, FALSE, overview.rows)
          /\ at # NoContract => period \in Latest(Periods(extract, at))
    BY <1>4 DEF ReadPeriods
  <2>2. /\ overview'.at = at /\ overview'.period = period /\ overview'.torn = FALSE
        /\ overview'.rows = overview.rows
    BY <2>1 DEF Visit
  <2>3. extract' = extract
    BY <1>4 DEF ReadPeriods
  <2>4. QED BY <2>1, <2>2, <2>3 DEF VisitInv, OverviewTrue
<1>5. CASE ReadStatus
  BY <1>5, ReadStatusTrue
<1>6. CASE (\E b \in ItemsStandardised(quarterly) : StoreBill(b)) \/ (\E k \in Keys : StoreEvent(k))
           \/ (\E s \in Switchable : Configure(s)) \/ (\E b \in billing : ArchiveBill(b))
  BY <1>1, <1>6 DEF StoreBill, ArchiveBill, StoreEvent, Configure, Change
<1>7. CASE StartQuery \/ QuerySucceeds \/ QueryFails \/ UNCHANGED vars
  BY <1>1, <1>7 DEF StartQuery, QuerySucceeds, QueryFails, vars
<1>8. QED BY <1>2, <1>3, <1>4, <1>5, <1>6, <1>7 DEF Next

\* What the overview shows of the present extract agrees with the page it links to, and
\* that is the page of the contract's latest invoice.
THEOREM OverviewIsTrue == Spec => []OverviewTrue
<1>1. Spec => [](VisitInv /\ OverviewTrue)
  BY InitVisit, NextVisit, Invariant, PTL DEF Spec
<1>2. QED BY <1>1, PTL

--------------------------------------------------------------------------------
\* Banners and labels

\* A payable label is one that is no warning and below the upper threshold.
LEMMA PayableLabel ==
  ASSUME NEW n
  PROVE  LineItemStatus(n) \in Payable <=> n \notin Warnings /\ ~(n >= 100)
<1>1. CASE n = NoCharge
  BY <1>1 DEF LineItemStatus, Payable, Warnings, NoCharge, RateMissing, InvoiceMissing,
              EventsMissing, UnexpectedCharge
<1>2. CASE n \in Warnings
  BY <1>2 DEF LineItemStatus, Payable, Warnings, NoCharge, RateMissing, InvoiceMissing,
              EventsMissing, UnexpectedCharge
<1>3. CASE n # NoCharge /\ n \notin Warnings
  BY <1>3 DEF LineItemStatus, Payable, Warnings
<1>4. QED BY <1>1, <1>2, <1>3

LEMMA PayableBanner ==
  ASSUME NEW rows, rows # {}
  PROVE  InvoiceStatus(rows) \in Payable
           <=> \A r \in rows : r.percent \notin Warnings /\ ~(r.percent >= 100)
<1> DEFINE percents == {r.percent : r \in rows}
<1>1. CASE percents \cap Warnings # {}
  <2>1. InvoiceStatus(rows) \notin Payable
    BY <1>1 DEF InvoiceStatus, Payable
  <2>2. QED BY <1>1, <2>1
<1>2. CASE percents \cap Warnings = {} /\ \E n \in percents : n >= 100
  <2>1. InvoiceStatus(rows) = "above threshold"
    BY <1>2 DEF InvoiceStatus
  <2>2. QED BY <1>2, <2>1 DEF Payable
<1>3. CASE percents \cap Warnings = {} /\ ~\E n \in percents : n >= 100
  <2>1. InvoiceStatus(rows) \in {"below threshold", "within threshold", "no charge"}
    BY <1>3 DEF InvoiceStatus
  <2>2. QED BY <1>3, <2>1 DEF Payable
<1>4. QED BY <1>1, <1>2, <1>3

\* A page's banner is that of an invoice to pay exactly if all of its labels are.
THEOREM BannersMatchLabels == Spec => []BannerMatchesLabels
<1>1. IInv => BannerMatchesLabels
  <2> SUFFICES ASSUME IInv, NEW c \in Contracts, NEW page \in PagesOf(c)
               PROVE  InvoiceStatus(page) \in Payable <=>
                        \A r \in page : LineItemStatus(r.percent) \in Payable
    BY DEF BannerMatchesLabels
  <2>1. page # {}
    <3>1. PICK r \in extract : /\ ContractOf[r.service] = c
                               /\ page = Page(extract, Link(c, PeriodOf(r)))
      BY DEF PagesOf, Periods
    <3>2. QED BY <3>1, PageOfPeriod DEF IInv, ExtractInv
  <2>2. QED BY <2>1, PayableBanner, PayableLabel
<1>2. QED BY <1>1, Invariant, PTL

--------------------------------------------------------------------------------
\* Prices

LEMMA CostType ==
  ASSUME NEW u \in [Keys -> Nat], NEW keys \in SUBSET Keys
  PROVE  Cost(u, keys) \in Nat
<1> DEFINE f == [k \in Rated(keys) |-> Units(u, k)]
           S == {Units(u, k) : k \in Rated(keys)}
<1>1. \A k \in Rated(keys) : IsFiniteSet(Units(u, k))
  <2> SUFFICES ASSUME NEW k \in Rated(keys) PROVE IsFiniteSet(Units(u, k))
    OBVIOUS
  <2>1. u[k] \in Nat /\ Rates[k] \in Nat
    BY ReconciliationAssumption DEF Rated
  <2>2. \A n \in Nat : IsFiniteSet(1..n)
    BY FS_Interval
  <2>3. IsFiniteSet({k}) /\ IsFiniteSet(1..(u[k] * Rates[k]))
    <3>1. u[k] * Rates[k] \in Nat
      BY <2>1
    <3> DEFINE n == u[k] * Rates[k]
    <3> HIDE DEF n
    <3>2. IsFiniteSet(1..n)
      BY <2>2, <3>1 DEF n
    <3>3. QED BY <3>2, FS_Singleton DEF n
  <2>4. QED BY <2>3, FS_Product DEF Units
<1>2. IsFiniteSet(Rated(keys))
  BY ReconciliationAssumption, FS_Subset DEF Rated
<1>3. f \in Surjection(Rated(keys), S)
  BY DEF Surjection
<1>4. IsFiniteSet(S)
  BY <1>2, <1>3, FS_Surjection
<1>5. IsFiniteSet(UNION S)
  BY <1>1, <1>4, FS_UNION
<1>6. QED BY <1>5, FS_CardinalityType DEF Cost

\* Keys without events cost nothing.
LEMMA UsedCost ==
  ASSUME NEW u \in [Keys -> Nat], NEW keys \in SUBSET Keys
  PROVE  Cost(u, keys) = Cost(u, {k \in keys : u[k] > 0})
<1> DEFINE used == {k \in keys : u[k] > 0}
<1>1. \A k \in Rated(keys) : Units(u, k) # {} => k \in Rated(used)
  <2> SUFFICES ASSUME NEW k \in Rated(keys), ~(u[k] > 0) PROVE Units(u, k) = {}
    BY DEF Rated
  <2>1. u[k] = 0 /\ Rates[k] \in Nat
    BY ReconciliationAssumption DEF Rated
  <2>2. u[k] * Rates[k] = 0
    BY <2>1
  <2>3. QED BY <2>2 DEF Units
<1>2. Rated(used) \subseteq Rated(keys)
  BY DEF Rated
<1>3. UNION {Units(u, k) : k \in Rated(keys)} = UNION {Units(u, k) : k \in Rated(used)}
  BY <1>1, <1>2
<1>4. QED BY <1>3 DEF Cost

LEMMA QuotientBelow ==
  ASSUME NEW a \in Nat, NEW n \in Nat \ {0}, NEW k \in Nat, a \div n < k
  PROVE  a < k * n
<1>1. a \div n \in Nat /\ a = n * (a \div n) + (a % n) /\ a % n \in 0..(n - 1)
  OBVIOUS
<1>2. a \div n + 1 <= k
  BY <1>1
<1>3. n * (a \div n + 1) <= n * k
  BY <1>1, <1>2
<1>4. QED BY <1>1, <1>3

LEMMA QuotientType ==
  ASSUME NEW a \in Int, NEW n \in Nat \ {0}
  PROVE  Quotient(a, n) \in Int
BY DEF Quotient

\* The prices read of line items sum up to a number.
LEMMA AskedType ==
  ASSUME NEW bills \in SUBSET Bill, IsFiniteSet(bills)
  PROVE  Asked(bills) \in Nat
<1> DEFINE read == {x \in bills : x.item.price \notin {Unread, Blank}}
           f == [b \in read |-> {b} \X (1..b.item.price)]
           S == {{b} \X (1..b.item.price) : b \in read}
<1>1. ASSUME NEW b \in read PROVE IsFiniteSet({b} \X (1..b.item.price))
  <2>1. b.item.price \in Nat
    BY DEF Bill, Item, Price
  <2> DEFINE n == b.item.price
  <2> HIDE DEF n
  <2>2. IsFiniteSet(1..n)
    BY <2>1, FS_Interval DEF n
  <2>3. QED BY <2>2, FS_Singleton, FS_Product DEF n
<1>2. IsFiniteSet(read)
  BY FS_Subset
<1>3. f \in Surjection(read, S)
  BY DEF Surjection
<1>4. IsFiniteSet(S)
  BY <1>2, <1>3, FS_Surjection
<1>5. IsFiniteSet(UNION S)
  BY <1>1, <1>4, FS_UNION
<1>6. QED BY <1>5, FS_CardinalityType DEF Asked

\* The percentage of some line items, by the four cases of the views.
Priceable(bills) == \E b \in bills : b.item.price # Blank

LEMMA PercentCases ==
  ASSUME NEW bills, NEW keys, NEW u
  PROVE  /\ ~Priceable(bills) => Percent(bills, keys, u) = InvoiceMissing
         /\ Priceable(bills) /\ Rated(keys) = {} =>
              Percent(bills, keys, u) \in {EventsMissing, RateMissing}
         /\ Priceable(bills) /\ Rated(keys) # {} /\ Cost(u, keys) = 0 =>
              IF Asked(bills) > 0 THEN Percent(bills, keys, u) = UnexpectedCharge
              ELSE Percent(bills, keys, u) \in {NoCharge, 0}
         /\ Priceable(bills) /\ Rated(keys) # {} /\ Cost(u, keys) # 0 =>
              Percent(bills, keys, u) =
                Quotient(10000 * (Asked(bills) - Cost(u, keys)), Cost(u, keys))
BY DEF Percent, Priceable

LEMMA PercentType ==
  ASSUME NEW bills \in SUBSET Bill, IsFiniteSet(bills), NEW keys \in SUBSET Keys,
         NEW u \in [Keys -> Nat]
  PROVE  Percent(bills, keys, u) \in Int
<1> DEFINE price == Asked(bills)
           cost == Cost(u, keys)
<1>1. cost \in Nat /\ price \in Nat
  BY CostType, AskedType
<1>2. CASE Priceable(bills) /\ Rated(keys) # {} /\ cost # 0
  <2>1. 10000 * (price - cost) \in Int
    BY <1>1
  <2>2. QED BY <1>1, <1>2, <2>1, PercentCases, QuotientType
<1>3. CASE ~(Priceable(bills) /\ Rated(keys) # {} /\ cost # 0)
  <2>1. Percent(bills, keys, u) \in {InvoiceMissing, EventsMissing, RateMissing,
                                     UnexpectedCharge, NoCharge, 0}
    <3>1. CASE ~Priceable(bills) \/ Rated(keys) = {}
      BY <3>1, PercentCases
    <3>2. CASE Priceable(bills) /\ Rated(keys) # {} /\ cost = 0 /\ price > 0
      BY <3>2, PercentCases
    <3>3. CASE Priceable(bills) /\ Rated(keys) # {} /\ cost = 0 /\ ~(price > 0)
      BY <3>3, PercentCases
    <3>4. QED BY <1>3, <3>1, <3>2, <3>3
  <2>2. QED
    BY <2>1 DEF InvoiceMissing, EventsMissing, RateMissing, UnexpectedCharge, NoCharge
<1>4. QED BY <1>2, <1>3

\* No code and less than 1%: what was read of the prices is covered by the events.
LEMMA PayablePercent ==
  ASSUME NEW bills \in SUBSET Bill, IsFiniteSet(bills), NEW keys \in SUBSET Keys,
         NEW u \in [Keys -> Nat],
         Percent(bills, keys, u) \notin Warnings, ~(Percent(bills, keys, u) >= 100)
  PROVE  /\ Priceable(bills)
         /\ Asked(bills) = 0 \/ 100 * Asked(bills) < 101 * Cost(u, keys)
<1> DEFINE price == Asked(bills)
           cost == Cost(u, keys)
<1>1. cost \in Nat /\ price \in Nat
  BY CostType, AskedType
<1>2. Priceable(bills)
  BY PercentCases DEF Warnings
<1>3. Rated(keys) # {}
  BY <1>2, PercentCases DEF Warnings
<1>4. SUFFICES ASSUME price # 0 PROVE 100 * price < 101 * cost
  BY <1>2
<1>5. price > 0
  BY <1>1, <1>4
<1>6. cost # 0
  BY <1>2, <1>3, <1>5, PercentCases DEF Warnings
<1>7. ~(Quotient(10000 * (price - cost), cost) >= 100)
  BY <1>2, <1>3, <1>6, PercentCases
<1> HIDE DEF price, cost
<1>8. CASE price >= cost
  <2>1. 10000 * (price - cost) \in Nat /\ cost \in Nat \ {0}
    BY <1>1, <1>6, <1>8
  <2>2. (10000 * (price - cost)) \div cost < 100
    BY <1>7, <2>1 DEF Quotient
  <2>3. 10000 * (price - cost) < 100 * cost
    BY <2>1, <2>2, QuotientBelow
  <2>4. QED BY <1>1, <2>3
<1>9. CASE price < cost
  BY <1>1, <1>9
<1>10. QED BY <1>1, <1>8, <1>9

--------------------------------------------------------------------------------
\* Types, and what percentages were computed of

\* Percentages are those of the line items and events that the query read.
Priced(rows, b) ==
  /\ b.usage \in [Keys -> Nat]
  /\ \A r \in rows : IsFiniteSet(r.bills) /\ r.percent = Percent(r.bills, r.counted, b.usage)

PricedInv ==
  /\ query.phase = "succeeded" => Priced(query.rows, query.basis)
  /\ basis # None => Priced(extract, basis)

LEMMA ViewType ==
  ASSUME InputInv, usage \in [Keys -> Nat]
  PROVE  View \subseteq Contents /\ Priced(View, [billing |-> billing, usage |-> usage])
<1>1. ASSUME NEW g, NEW month \in 1..12, NEW bills \in SUBSET billing, NEW keys \in SUBSET Keys,
             g.service \in Services, g.year \in Nat, g.quarterly \in BOOLEAN,
             g.unitPrice \in UnitPrices \cup {NoUnitPrice}
      PROVE  LET r == Row(g, month, bills, keys) IN
             /\ r \in Contents /\ IsFiniteSet(r.bills)
             /\ r.percent = Percent(r.bills, r.counted, usage)
  <2>1. IsFiniteSet(bills) /\ bills \in SUBSET Bill
    BY FS_Subset DEF InputInv
  <2>2. Percent(bills, keys, usage) \in Int
    BY <2>1, PercentType
  <2> DEFINE r == Row(g, month, bills, keys)
  <2>3. r \in Contents
    BY <1>1, <2>1, <2>2 DEF Row, Contents
  <2>4. r.bills = bills /\ r.counted = keys /\ r.percent = Percent(bills, keys, usage)
    BY DEF Row
  <2>5. QED BY <2>1, <2>3, <2>4
<1>2. ASSUME NEW b \in billing
      PROVE  LET r == BillRow(GroupOf(b.item)) IN
             /\ r \in Contents /\ IsFiniteSet(r.bills)
             /\ r.percent = Percent(r.bills, r.counted, usage)
  <2> DEFINE g == GroupOf(b.item)
             month == IF g.quarterly THEN FirstMonth(g.month) ELSE g.month
             bills == {other \in billing : GroupOf(other.item) = g}
             keys == {k \in Used : Covers(g, k)}
  <2>1. /\ g.service \in Services /\ g.year \in Nat /\ g.quarterly \in BOOLEAN
        /\ g.month \in 1..12 /\ g.unitPrice \in UnitPrices
    BY BilledItems, GroupFields
  <2>2. month \in 1..12
    BY <2>1, QuarterMonths DEF FirstMonths
  <2>3. keys \in SUBSET Keys /\ bills \in SUBSET billing
    BY DEF Used
  <2>4. BillRow(g) = Row(g, month, bills, keys)
    BY DEF BillRow
  <2> HIDE DEF g, month, bills, keys
  <2>5. QED BY <1>1, <2>1, <2>2, <2>3, <2>4 DEF g
<1>3. ASSUME NEW k \in Unbilled
      PROVE  LET r == UsageRow(k) IN
             /\ r \in Contents /\ IsFiniteSet(r.bills)
             /\ r.percent = Percent(r.bills, r.counted, usage)
  <2> DEFINE g == [service |-> k.service, year |-> k.year, quarterly |-> k.service \in quarterly,
                   unitPrice |-> NoUnitPrice]
             keys == {n \in Unbilled : /\ n.service = k.service /\ n.year = k.year
                                       /\ UsageMonth(n) = UsageMonth(k)}
  <2>1. k \in Key
    BY ReconciliationAssumption DEF Unbilled, Used
  <2>2. k.service \in Services /\ k.year \in Nat /\ k.month \in 1..12
    BY <2>1 DEF Key
  <2>3. UsageMonth(k) \in 1..12
    BY <2>2, QuarterMonths DEF FirstMonths, UsageMonth
  <2>4. keys \in SUBSET Keys /\ {} \in SUBSET billing
    BY DEF Unbilled, Used
  <2>5. UsageRow(k) = Row(g, UsageMonth(k), {}, keys)
    BY DEF UsageRow
  <2>6. /\ g.service \in Services /\ g.year \in Nat /\ g.quarterly \in BOOLEAN
        /\ g.unitPrice \in UnitPrices \cup {NoUnitPrice}
    BY <2>2
  <2> HIDE DEF g, keys
  <2>7. QED BY <1>1, <2>3, <2>4, <2>5, <2>6
<1>4. View \subseteq Contents
  BY <1>2, <1>3 DEF View
<1>5. \A r \in View : IsFiniteSet(r.bills) /\ r.percent = Percent(r.bills, r.counted, usage)
  BY <1>2, <1>3 DEF View
<1>6. QED BY <1>4, <1>5 DEF Priced

LEMMA InitTyped == Init => TypeOK /\ PricedInv
<1> SUFFICES ASSUME Init PROVE TypeOK /\ PricedInv
  OBVIOUS
<1>1. billing \subseteq Bill /\ IsFiniteSet(billing)
  BY InitInv DEF IInv, InputInv
<1>2. usage \in [Keys -> 0..MaxUsage] /\ quarterly \subseteq Services /\ changes \in 0..MaxChanges
  BY ReconciliationAssumption DEF Init
<1>3. query.phase \in Phases /\ query.phase # "succeeded" /\ query.rows \subseteq Contents
  BY DEF Init, NoQuery, Phases
<1>4. extract \subseteq Contents /\ Cardinality(extract) <= MaxRows /\ basis = None
  BY FS_EmptySet, ReconciliationAssumption DEF Init
<1>5. overview.todo = <<>> /\ overview.at = NoContract /\ overview.torn = FALSE
  BY DEF Init, Visit
<1>6. overview.todo \in Seq(Contracts)
  BY <1>5
<1>7. QED BY <1>1, <1>2, <1>3, <1>4, <1>5, <1>6 DEF TypeOK, PricedInv

LEMMA NextTyped ==
  IInv /\ IInv' /\ TypeOK /\ PricedInv /\ [Next]_vars => TypeOK' /\ PricedInv'
<1> SUFFICES ASSUME IInv, IInv', TypeOK, PricedInv, [Next]_vars PROVE TypeOK' /\ PricedInv'
  OBVIOUS
<1> USE DEF Visit
<1>0. billing' \subseteq Bill /\ IsFiniteSet(billing')
  BY DEF IInv, InputInv
<1>1. ASSUME Change, usage' \in [Keys -> 0..MaxUsage], quarterly' \subseteq Services
      PROVE  TypeOK' /\ PricedInv'
  BY <1>0, <1>1, ReconciliationAssumption DEF Change, TypeOK, PricedInv, Priced
<1>2. ASSUME UNCHANGED <<inputVars, extract, basis, overview>>,
             query'.phase \in Phases \ {"succeeded"}, query'.rows = {}
      PROVE  TypeOK' /\ PricedInv'
  BY <1>2 DEF inputVars, TypeOK, PricedInv, Priced
<1>3. CASE (\E i \in ItemsStandardised(quarterly) : StoreBill(i)) \/ (\E b \in billing : ArchiveBill(b))
  BY <1>1, <1>3 DEF StoreBill, ArchiveBill, TypeOK
<1>4. CASE \E k \in Keys : StoreEvent(k)
  <2>1. PICK k \in Keys : StoreEvent(k)
    BY <1>4
  <2>2. usage[k] + 1 \in 0..MaxUsage
    BY <2>1, ReconciliationAssumption DEF StoreEvent, TypeOK
  <2>3. QED BY <1>1, <2>1, <2>2 DEF StoreEvent, TypeOK
<1>5. CASE \E s \in Switchable : Configure(s)
  <2>1. PICK s \in Switchable : Configure(s)
    BY <1>5
  <2>2. QED BY <1>1, <2>1, ReconciliationAssumption DEF Configure, TypeOK
<1>6. CASE StartQuery
  BY <1>2, <1>6 DEF StartQuery, NoQuery, Phases
<1>7. CASE QuerySucceeds
  <2>1. query' = [phase |-> "succeeded", rows |-> View,
                  basis |-> [billing |-> billing, usage |-> usage]]
    BY <1>7 DEF QuerySucceeds
  <2>2. usage \in [Keys -> Nat]
    BY ReconciliationAssumption DEF TypeOK
  <2>3. View \subseteq Contents /\ Priced(View, [billing |-> billing, usage |-> usage])
    BY <2>2, ViewType DEF IInv
  <2>4. query'.phase \in Phases /\ query'.rows \subseteq Contents
        /\ Priced(query'.rows, query'.basis)
    BY <2>1, <2>3 DEF Phases
  <2>5. QED BY <1>7, <2>4 DEF QuerySucceeds, inputVars, TypeOK, PricedInv, Priced
<1>8. CASE QueryFails
  BY <1>2, <1>8 DEF QueryFails, NoQuery, Phases
<1>9. CASE StoreExtract
  <2>1. PICK rows \in SUBSET query.rows :
          /\ Cardinality(rows) <= MaxRows /\ extract' = rows
          /\ overview' = IF rows = extract THEN overview ELSE Outdated(overview)
    BY <1>9 DEF StoreExtract
  <2>2. rows \subseteq Contents /\ Priced(rows, query.basis)
    BY <1>9 DEF StoreExtract, TypeOK, PricedInv, Priced
  <2>3. /\ overview'.at \in Contracts \cup {NoContract} /\ overview'.todo \in Seq(Contracts)
        /\ overview'.torn => overview'.at # NoContract
    BY <2>1 DEF TypeOK, Outdated
  <2>4. query' = NoQuery /\ basis' = query.basis /\ UNCHANGED inputVars
    BY <1>9 DEF StoreExtract
  <2>5. query'.phase = "idle" /\ query'.rows = {}
    BY <2>4 DEF NoQuery
  <2>6. QED BY <2>1, <2>2, <2>3, <2>4, <2>5 DEF inputVars, TypeOK, PricedInv, Priced, Phases
<1>10. CASE OpenOverview
  <2>1. ContractList \in Seq(Contracts)
    BY ReconciliationAssumption
  <2>2. QED BY <1>10, <2>1 DEF OpenOverview, inputVars, TypeOK, PricedInv, Priced
<1>11. CASE ReadPeriods
  <2>1. Head(overview.todo) \in Contracts /\ Tail(overview.todo) \in Seq(Contracts)
    BY <1>11 DEF ReadPeriods, TypeOK
  <2>2. PICK at, period :
          /\ at \in {NoContract, Head(overview.todo)}
          /\ overview' = Visit(Tail(overview.todo), at, period, FALSE, overview.rows)
    BY <1>11 DEF ReadPeriods
  <2>3. UNCHANGED <<inputVars, query, extract, basis>>
    BY <1>11 DEF ReadPeriods
  <2>4. QED BY <2>1, <2>2, <2>3 DEF inputVars, TypeOK, PricedInv, Priced
<1>12. CASE ReadStatus
  <2>1. overview'.todo = overview.todo /\ overview'.at = NoContract /\ overview'.torn = FALSE
    BY <1>12 DEF ReadStatus
  <2>2. QED BY <1>12, <2>1 DEF ReadStatus, inputVars, TypeOK, PricedInv, Priced
<1>13. CASE UNCHANGED vars
  BY <1>13 DEF vars, inputVars, TypeOK, PricedInv, Priced
<1>14. QED
  BY <1>3, <1>4, <1>5, <1>6, <1>7, <1>8, <1>9, <1>10, <1>11, <1>12, <1>13 DEF Next

LEMMA PricesInvariant == Spec => [](IInv /\ TypeOK /\ PricedInv)
BY InitTyped, NextTyped, Invariant, PTL DEF Spec

\* Rows have months of the year and whole percentages, a page of results is all that is
\* ever kept, and a visit goes through the contracts of the configuration.
THEOREM Typed == Spec => []TypeOK
BY PricesInvariant, PTL

\* What a page says can be paid was invoiced, and what was read of the prices at one unit price
\* does not sum up to 1% more than the events of the months invoiced cost.  It says nothing of
\* prices of several commas, which the views take for nothing.
THEOREM PaidIsUsed == Spec => []PayableMeansMatched
<1>1. IInv /\ TypeOK /\ PricedInv => PayableMeansMatched
  <2> SUFFICES ASSUME IInv, TypeOK, PricedInv, Whole, NEW c \in Contracts,
                      NEW page \in PagesOf(c), InvoiceStatus(page) \in Payable, NEW r \in page
               PROVE  /\ Priceable(r.bills)
                      /\ \A b \in r.bills :
                           Asked(r.bills) = 0 \/ 100 * Asked(r.bills) < 101 * Due(b.item)
    BY DEF PayableMeansMatched, Priceable
  <2>1. r \in extract
    BY DEF PagesOf, Page, LineItems
  <2>2. r.percent \notin Warnings /\ ~(r.percent >= 100)
    BY PayableBanner
  <2>3. /\ basis.usage \in [Keys -> Nat] /\ IsFiniteSet(r.bills)
        /\ r.percent = Percent(r.bills, r.counted, basis.usage)
    BY <2>1 DEF Whole, PricedInv, Priced
  <2>4. r.bills \in SUBSET Bill /\ r.counted \in SUBSET Keys
    BY <2>1 DEF TypeOK, Contents
  <2>5. /\ Priceable(r.bills)
        /\ Asked(r.bills) = 0 \/ 100 * Asked(r.bills) < 101 * Cost(basis.usage, r.counted)
    BY <2>2, <2>3, <2>4, PayablePercent
  <2>6. ASSUME NEW b \in r.bills PROVE Cost(basis.usage, r.counted) = Due(b.item)
    <3> DEFINE due == {k \in Keys : /\ k.service = b.item.service /\ k.year = b.item.year
                                    /\ k.month \in MonthsOf(b.item)}
    <3>1. r.counted = {k \in due : basis.usage[k] > 0}
      BY <2>1 DEF IInv, ExtractInv, Exact
    <3>2. Due(b.item) = Cost(basis.usage, due)
      BY DEF Due
    <3>3. QED BY <2>3, <3>1, <3>2, UsedCost
  <2>7. QED BY <2>5, <2>6
<1>2. QED BY <1>1, PricesInvariant, PTL
===============================================================================
