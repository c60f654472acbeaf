---------------------------- MODULE Reconciliation ----------------------------
(***************************************************************************)
(* What is billed against what was used: the Athena views join invoice     *)
(* line items with events, dashboard-extract puts their rows into one      *)
(* file once a day, and the pages of the frontend read it, with links from *)
(* the overview and from a contract's list to the page of each invoice.    *)
(* Line items, events, configuration and the file change in between.       *)
(***************************************************************************)
EXTENDS Standardisation, FiniteSets

CONSTANTS
  ContractList, \* contracts in the order of the configuration
  ContractOf,   \* the contract of each service
  Keys,         \* service, year and month in which it may be used
  Rates,        \* unit price of the rate table at each key, or NoRate
  NoRate,
  NoUnitPrice,  \* of rows without an invoice
  Ids,          \* uuids in the keys of line items
  MaxStored,    \* line items stored at the start
  Quarterly,    \* services configured as invoiced by the quarter, at first
  Switchable,   \* services of which the configuration may change
  NoContract,
  None,
  MaxUsage,     \* most events of a key
  MaxChanges,   \* changes after the start
  MaxRows       \* rows of a page of Athena results, without the header (999)

Key  == [service : Services, year : Nat, month : 1..12]

\* First month of a month's quarter (calculation-athena.yaml)
MutFirstMonth(m) == 3 * (m \div 3) + 1
FirstMonth(m) == 3 * ((m - 1) \div 3) + 1

Contracts == {ContractList[i] : i \in DOMAIN ContractList}

ASSUME ReconciliationAssumption ==
  /\ ContractList \in Seq(Contracts)
  /\ ContractOf \in [Services -> Contracts] /\ NoContract \notin Contracts
  /\ Keys \subseteq Key /\ IsFiniteSet(Keys)
  /\ Rates \in [Keys -> Nat \cup {NoRate}] /\ NoRate \notin Nat
  /\ Quarterly \subseteq Services /\ Switchable \subseteq Services
  /\ None \notin {"Q1", "Q2", "Q3", "Q4"}
  /\ MaxStored \in Nat
  /\ MaxUsage \in Nat /\ MaxChanges \in Nat /\ MaxRows \in Nat

VARIABLES
  billing,    \* line items in the destination folder
  usage,      \* events of each key
  quarterly,  \* services configured as invoiced by the quarter
  changes,
  query,      \* the run of dashboard-extract: how far it has come, and what its query read
  extract,    \* rows of full-extract.json
  basis,      \* what the extract was computed of
  overview    \* the visit of the overview page

inputVars == <<billing, usage, quarterly, changes>>
vars == <<inputVars, query, extract, basis, overview>>

Phases  == {"idle", "running", "succeeded"}
NoQuery == [phase |-> "idle", rows |-> {}, basis |-> None]

\* A visit of the overview page: contracts to do, the one whose latest period was read, of
\* another extract than the present one or not, and rows that were read of this one.
Visit(todo, at, period, torn, rows) ==
  [todo |-> todo, at |-> at, period |-> period, torn |-> torn, rows |-> rows]

\* Line items as stored, each under a key of its own.
Bill == [item : Item, id : Ids]

\* Line items of one month, vendor and event supersede each other.
Supersedes(i, j) == i.service = j.service /\ i.year = j.year /\ i.month = j.month

Outdated(o) == Visit(o.todo, o.at, o.period, o.at # NoContract, {})

--------------------------------------------------------------------------------
\* The views.  Percentages are in hundredths, cut off; so are the codes among them.
NoCharge         == -123456701
RateMissing      == -123456702
InvoiceMissing   == -123456703
EventsMissing    == -123456704
UnexpectedCharge == -123456705

Quotient(a, n) == IF a >= 0 THEN a \div n ELSE -((-a) \div n)

Rated(keys) == {k \in keys : Rates[k] # NoRate}

\* What the events u of some keys cost: the units of price that each of the keys is due.
Units(u, k) == {k} \X (1..(u[k] * Rates[k]))
Cost(u, keys) == Cardinality(UNION {Units(u, k) : k \in Rated(keys)})

\* The sum of the prices of some line items, those that were read.
Asked(bills) ==
  Cardinality(UNION {{b} \X (1..b.item.price) : b \in {x \in bills : x.item.price \notin {Unread, Blank}}})

\* price_difference_percentage; a sum of no prices is not known, an unknown price is 0
Percent(bills, keys, u) ==
  LET price == Asked(bills)
      cost  == Cost(u, keys) IN
  CASE \A b \in bills : b.item.price = Blank -> InvoiceMissing
    [] (\E b \in bills : b.item.price # Blank) /\ Rated(keys) = {} ->
         IF keys = {} THEN EventsMissing ELSE RateMissing
    [] (\E b \in bills : b.item.price # Blank) /\ Rated(keys) # {} /\ cost = 0 ->
         IF price > 0 THEN UnexpectedCharge
         ELSE IF \E b \in bills : b.item.price = 0 THEN NoCharge ELSE 0
    [] OTHER -> Quotient(10000 * (price - cost), cost)

Used == {k \in Keys : usage[k] > 0}

\* btm_billing_curated: line items of one month, event, kind and unit price are summed.
MutGroupOf(i) == i
GroupOf(i) == [service |-> i.service, year |-> i.year, month |-> i.month,
               quarterly |-> i.quarterly, unitPrice |-> i.unitPrice]

\* btm_transactions_curated joined with btm_billing_curated: each group with all events
Covers(g, k) ==
  /\ g.service = k.service /\ g.year = k.year
  /\ g.month = IF g.quarterly THEN FirstMonth(k.month) ELSE k.month

Row(g, month, bills, keys) ==
  [service |-> g.service, year |-> g.year, month |-> month, quarterly |-> g.quarterly,
   unitPrice |-> g.unitPrice, bills |-> bills, counted |-> keys,
   percent |-> Percent(bills, keys, usage)]

BillRow(g) ==
  Row(g, IF g.quarterly THEN FirstMonth(g.month) ELSE g.month,
      {b \in billing : GroupOf(b.item) = g}, {k \in Used : Covers(g, k)})

\* The month under which events are shown for which there is no line item.
MutUsageMonth(k) == k.month
UsageMonth(k) == IF k.service \in quarterly THEN FirstMonth(k.month) ELSE k.month

Unbilled == {k \in Used : \A b \in billing : ~Covers(b.item, k)}

UsageRow(k) ==
  Row([service |-> k.service, year |-> k.year, quarterly |-> k.service \in quarterly,
       unitPrice |-> NoUnitPrice],
      UsageMonth(k), {},
      {n \in Unbilled : n.service = k.service /\ n.year = k.year /\ UsageMonth(n) = UsageMonth(k)})

\* btm_billing_and_transactions_curated
View == {BillRow(GroupOf(b.item)) : b \in billing} \cup {UsageRow(k) : k \in Unbilled}

--------------------------------------------------------------------------------
\* The pages, of an extract e.
\* getContractPeriods
PeriodOf(r) == [year |-> r.year, month |-> r.month, quarterly |-> r.quarterly]
Periods(e, c) == {PeriodOf(r) : r \in {r \in e : ContractOf[r.service] = c}}
Earlier(p, n) == p.year < n.year \/ (p.year = n.year /\ p.month < n.month)
MutLatest(periods) == {p \in periods : \A n \in periods : n.month <= p.month}
Latest(periods) == {p \in periods : \A n \in periods : ~Earlier(p, n)}

\* getLineItems; the parameters of the link to an invoice page, and the items of that page.
Link(c, p) ==
  [contract |-> c, year |-> p.year,
   quarter |-> IF p.quarterly THEN MonthQuarter(p.month) ELSE None,
   month   |-> IF p.quarterly THEN 0 ELSE p.month]

LineItems(e, c, year, month, byQuarter) ==
  {r \in e : /\ ContractOf[r.service] = c
             /\ r.year = year /\ r.month = month /\ r.quarterly = byQuarter}

Page(e, link) ==
  IF link.quarter = None
    THEN LineItems(e, link.contract, link.year, link.month, FALSE)
    ELSE LineItems(e, link.contract, link.year, QuarterFirstMonth[link.quarter], TRUE)

\* getInvoiceStatus
MutWarnings == {RateMissing, InvoiceMissing, EventsMissing}
Warnings == {RateMissing, InvoiceMissing, EventsMissing, UnexpectedCharge}

InvoiceStatus(rows) ==
  LET percents == {r.percent : r \in rows}
      warnings == percents \cap Warnings IN
  CASE rows = {} -> "invoice and events missing"
    [] warnings # {} ->
         IF InvoiceMissing \in warnings THEN "invoice data missing"
         ELSE IF EventsMissing \in warnings THEN "events missing"
         ELSE IF RateMissing \in warnings THEN "unable to find rate"
         ELSE "unexpected charge"
    [] OTHER ->
         IF \E n \in percents : n >= 100 THEN "above threshold"
         ELSE IF \E n \in percents : n <= -100 /\ n # NoCharge THEN "below threshold"
         ELSE IF percents # {NoCharge} THEN "within threshold"
         ELSE "no charge"

\* findLineItemStatus, the label beside a line item
LineItemStatus(n) ==
  CASE n = NoCharge         -> "no charge"
    [] n = RateMissing      -> "unable to find rate"
    [] n = InvoiceMissing   -> "invoice data missing"
    [] n = EventsMissing    -> "events missing"
    [] n = UnexpectedCharge -> "unexpected charge"
    [] OTHER -> IF n >= 100 THEN "above threshold"
                ELSE IF n <= -100 THEN "below threshold" ELSE "within threshold"

Payable == {"no charge", "below threshold", "within threshold"}

--------------------------------------------------------------------------------
\* Configurations that there may have been.
Configurations == {c \in SUBSET Services : c \ Switchable = Quarterly \ Switchable}

\* Whatever invoices have come so far: line items of one month and event may be there
\* together, siblings or not archived yet.
Init ==
  /\ quarterly = Quarterly
  /\ billing \in SUBSET [item : UNION {ItemsStandardised(c) : c \in Configurations}, id : Ids]
  /\ IsFiniteSet(billing) /\ Cardinality(billing) <= MaxStored
  /\ usage \in [Keys -> 0..MaxUsage]
  /\ changes = 0
  /\ query = NoQuery
  /\ extract = {} /\ basis = None
  /\ overview = Visit(<<>>, NoContract, None, FALSE, {})

Change ==
  /\ changes < MaxChanges
  /\ changes' = changes + 1
  /\ UNCHANGED <<query, extract, basis, overview>>

\* store-standardised-invoices puts a line item ...
StoreBill(i) ==
  /\ Change
  /\ \E id \in Ids :
       /\ [item |-> i, id |-> id] \notin billing
       /\ billing' = billing \cup {[item |-> i, id |-> id]}
  /\ UNCHANGED <<usage, quarterly>>

\* ... and later, or never, archives those it found: of each month and event one stays, as
\* InvoiceStore promises.
ArchiveBill(b) ==
  /\ Change
  /\ \E other \in billing \ {b} : Supersedes(other.item, b.item)
  /\ billing' = billing \ {b}
  /\ UNCHANGED <<usage, quarterly>>

StoreEvent(k) ==
  /\ Change
  /\ usage[k] < MaxUsage
  /\ usage' = [usage EXCEPT ![k] = @ + 1]
  /\ UNCHANGED <<billing, quarterly>>

Configure(s) ==
  /\ Change
  /\ quarterly' = IF s \in quarterly THEN quarterly \ {s} ELSE quarterly \cup {s}
  /\ UNCHANGED <<billing, usage>>

--------------------------------------------------------------------------------
\* dashboard-extract, started once a day, one at a time
StartQuery ==
  /\ query.phase = "idle"
  /\ query' = [NoQuery EXCEPT !.phase = "running"]
  /\ UNCHANGED <<inputVars, extract, basis, overview>>

\* Athena, while the executor polls.
QuerySucceeds ==
  /\ query.phase = "running"
  /\ query' = [phase |-> "succeeded", rows |-> View,
               basis |-> [billing |-> billing, usage |-> usage]]
  /\ UNCHANGED <<inputVars, extract, basis, overview>>

\* The query failed or was polled too often, a call was rejected, the invocation died.
QueryFails ==
  /\ query.phase # "idle"
  /\ query' = NoQuery
  /\ UNCHANGED <<inputVars, extract, basis, overview>>

\* The first page of the results, in no order, replaces the file.
StoreExtract ==
  /\ query.phase = "succeeded"
  /\ \E rows \in SUBSET query.rows :
       /\ rows = query.rows \/ Cardinality(rows) = MaxRows
       /\ Cardinality(rows) <= MaxRows
       /\ extract' = rows
       /\ overview' = IF rows = extract THEN overview ELSE Outdated(overview)
  /\ basis' = query.basis
  /\ query' = NoQuery
  /\ UNCHANGED inputVars

--------------------------------------------------------------------------------
\* The overview page: one contract after the other, the extract read twice for each.
OpenOverview ==
  /\ overview' = Visit(ContractList, NoContract, None, FALSE, {})
  /\ UNCHANGED <<inputVars, query, extract, basis>>

ReadPeriods ==
  /\ overview.at = NoContract
  /\ overview.todo # <<>>
  /\ basis # None
  /\ LET c == Head(overview.todo)
         periods == Periods(extract, c)
         Then(at, period) == Visit(Tail(overview.todo), at, period, FALSE, overview.rows) IN
     \/ periods = {} /\ overview' = Then(NoContract, None)
     \/ \E p \in Latest(periods) : overview' = Then(c, p)
  /\ UNCHANGED <<inputVars, query, extract, basis>>

ReadStatus ==
  /\ overview.at # NoContract
  /\ LET c == overview.at
         p == overview.period
         items == LineItems(extract, c, p.year, p.month, p.quarterly)
         shown == [contract |-> c, link |-> Link(c, p), status |-> InvoiceStatus(items)] IN
     overview' = Visit(overview.todo, NoContract, None, FALSE,
                       overview.rows \cup (IF overview.torn THEN {} ELSE {shown}))
  /\ UNCHANGED <<inputVars, query, extract, basis>>

Next ==
  \/ \E i \in ItemsStandardised(quarterly) : StoreBill(i)
  \/ \E b \in billing : ArchiveBill(b)
  \/ \E k \in Keys : StoreEvent(k)
  \/ \E s \in Switchable : Configure(s)
  \/ StartQuery \/ QuerySucceeds \/ QueryFails \/ StoreExtract
  \/ OpenOverview \/ ReadPeriods \/ ReadStatus

Spec == Init /\ [][Next]_vars

--------------------------------------------------------------------------------
Contents == [service : Services, year : Nat, month : 1..12, quarterly : BOOLEAN,
             unitPrice : UnitPrices \cup {NoUnitPrice}, bills : SUBSET Bill,
             counted : SUBSET Keys, percent : Int]

TypeOK ==
  /\ billing \subseteq Bill /\ IsFiniteSet(billing)
  /\ usage \in [Keys -> 0..MaxUsage]
  /\ quarterly \subseteq Services
  /\ changes \in 0..MaxChanges
  /\ query.phase \in Phases
  /\ query.rows \subseteq Contents
  /\ extract \subseteq Contents /\ Cardinality(extract) <= MaxRows
  /\ overview.at \in Contracts \cup {NoContract} /\ overview.todo \in Seq(Contracts)
  /\ overview.torn => overview.at # NoContract

\* The pages that the list of a contract's invoices links to.
PagesOf(c) == {Page(extract, Link(c, p)) : p \in Periods(extract, c)}

\* Nothing of the results was cut off.
Whole == basis # None /\ Cardinality(extract) < MaxRows

\* Every line item and all events that the query read are in a row that the list of
\* invoices leads to: the months that the views give to rows by the quarter are those
\* that links by the quarter ask for, whichever of invoice and configuration says so.
NothingHidden ==
  Whole =>
    /\ \A k \in Keys : basis.usage[k] > 0 =>
         \E page \in PagesOf(ContractOf[k.service]) : \E r \in page : k \in r.counted
    /\ \A b \in basis.billing :
         \E page \in PagesOf(ContractOf[b.item.service]) : \E r \in page : b \in r.bills

MonthsOf(i) == IF i.quarterly THEN i.month..(i.month + 2) ELSE {i.month}
Due(i) ==
  Cost(basis.usage,
       {k \in Keys : k.service = i.service /\ k.year = i.year /\ k.month \in MonthsOf(i)})

\* A page says that an invoice can be paid only if all its events were invoiced, and what
\* was read of the prices at a unit price does not sum up to 1% more than the events of
\* these months cost (the views' sums, join and codes, getInvoiceStatus; codes are numbers
\* below every threshold).  Prices of several commas are not read and count as 0 in the sum,
\* whatever they ask for; and each unit price is held against the cost of all events.
PayableMeansMatched ==
  Whole =>
    \A c \in Contracts : \A page \in PagesOf(c) : InvoiceStatus(page) \in Payable =>
      \A r \in page :
        /\ \E b \in r.bills : b.item.price # Blank
        /\ \A b \in r.bills : Asked(r.bills) = 0 \/ 100 * Asked(r.bills) < 101 * Due(b.item)

\* The banner of a page is that of a payable invoice exactly if all labels beside its
\* line items are: both have their own thresholds and their own order of the codes.
BannerMatchesLabels ==
  \A c \in Contracts : \A page \in PagesOf(c) :
    InvoiceStatus(page) \in Payable <=> \A r \in page : LineItemStatus(r.percent) \in Payable

\* A row with an invoice counts exactly the events of the months invoiced: invoices by the
\* quarter are filed under the month at which the views look for the quarter's events,
\* whichever date a pdf was received at (getQuarterStartString, the views' join).
EveryMonthCounted ==
  \A r \in extract : \A b \in r.bills :
    r.counted = {k \in Keys : /\ basis.usage[k] > 0
                              /\ k.service = b.item.service /\ k.year = b.item.year
                              /\ k.month \in MonthsOf(b.item)}

\* However many line items of a month and event are there together, before the older ones
\* are archived or since they are siblings, none is summed in two rows; and an event is
\* counted in two only where it was invoiced at two unit prices, or by the month and by the
\* quarter, never among the events not invoiced as well (the views' GROUP BY and FULL JOIN).
CountedOnce ==
  \A r \in extract, n \in extract : r # n =>
    /\ r.bills \cap n.bills = {}
    /\ r.counted \cap n.counted # {} =>
         /\ r.bills # {} /\ n.bills # {}
         /\ r.quarterly # n.quarterly \/ r.unitPrice # n.unitPrice

\* As long as the extract is the same, the overview shows of each contract the latest
\* invoice, its link leads to that one, and the status is the one shown there.
OverviewTrue ==
  \A shown \in overview.rows :
    LET page == Page(extract, shown.link) IN
    /\ page # {}
    /\ shown.status = InvoiceStatus(page)
    /\ \A r \in extract : ContractOf[r.service] = shown.contract =>
         \A n \in page : ~Earlier(n, r)
================================================================================
