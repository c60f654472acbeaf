----------------------------- MODULE SyntheticEvents -----------------------------
(***************************************************************************)
(* synthetic-events tops up what was billed in a month or quarter to a     *)
(* configured quantity.  How much is missing it reads from the dashboard   *)
(* extract, which is a copy of the stored events made once a day by a      *)
(* slow query (dashboard-extract).  The events it sends are stored later.  *)
(* Months are numbered: month i is month i % 12 + 1 of year i \div 12.     *)
(***************************************************************************)
EXTENDS Integers, FiniteSets

CONSTANTS
  Definitions,        \* the rows of the syntheticEvents config
  Config,             \* their contents
  Names,              \* event names, each of one vendor
  Quarterly,          \* names whose vendor invoices by the quarter
  Genuine,            \* names of events that services really emit
  Services,           \* who emits them, no definition
  Invoices,           \* what vendors may invoice: event, month or quarter, unit price
  NotInvoiced,        \* instead of a unit price
  FirstMonth, LastMonth,  \* bounds: the months in which something happens
  MaxCalls,           \* bound: invocations
  MaxTraffic,         \* bound: genuine events of a name
  NoTable,            \* no query under way, or no extract yet
  MaxRows             \* rows of one page of query results, header excluded (999)

Months == FirstMonth..LastMonth
Period == [year : Nat, month : 1..12, isQuarterly : BOOLEAN]

ASSUME SyntheticAssumption ==
  /\ Config \in [Definitions -> [event : Names, shortfallEvent : Names, shortfall : BOOLEAN,
                                 isQuarterly : BOOLEAN, quantity : Nat, start : Months, end : Nat]]
  /\ IsFiniteSet(Definitions) /\ Services \notin Definitions
  /\ Quarterly \subseteq Names /\ Genuine \subseteq Names
  /\ IsFiniteSet(Invoices) /\ \A i \in Invoices : i.period \in Period /\ i.unitPrice # NotInvoiced
  /\ FirstMonth \in Nat /\ LastMonth \in Nat /\ FirstMonth <= LastMonth
  /\ MaxCalls \in Nat /\ MaxTraffic \in Nat

VARIABLES
  prompt,     \* the extract is always complete and renewed before the next call
  now,        \* the month it is
  genuine,    \* genuine events stored
  invoiced,   \* what is invoiced, by one line item at least that is not archived
  sent,       \* events this lambda has sent
  queued,     \* those of them that are not stored yet
  query,      \* what the query under way has read, if one is
  extract,    \* rows of the dashboard extract, if there is one
  call,       \* number of this or the last invocation
  since,      \* the month in which it computed what to send
  repeated,   \* definitions and periods for which it counted an event in two rows
  outbox,     \* events it has still to send
  ok          \* nothing it sent was rejected

jobVars == <<call, since, repeated, outbox, ok>>
vars == <<prompt, now, genuine, invoiced, sent, queued, query, extract, jobVars>>

\* The id stands for the random event_id: by definition, month and number of the call it
\* is unique. Genuine events count one each (COALESCE of credits in the views).
Event == [by : Definitions \cup {Services}, id : Nat, name : Names, month : Nat, credits : Nat \ {0}]

\* The credits of some events, as single ones: sums are cardinalities.
Units(events)   == UNION {{e} \X (1..e.credits) : e \in events}
Credits(events) == Cardinality(Units(events))

\* period.ts
getPeriodStart(i, q) ==
  [year |-> i \div 12, month |-> IF q THEN ((i % 12) \div 3) * 3 + 1 ELSE (i % 12) + 1, isQuarterly |-> q]

periodIsBefore(p, r) == p.year < r.year \/ (p.year = r.year /\ p.month < r.month)

nextPeriod(p) ==
  LET month == p.month + (IF p.isQuarterly THEN 3 ELSE 1) IN
  [year |-> IF month > 12 THEN p.year + 1 ELSE p.year,
   month |-> IF month > 12 THEN month - 12 ELSE month,
   isQuarterly |-> p.isQuarterly]

periodContains(p, r) ==
  \/ p = r
  \/ /\ p.isQuarterly /\ ~r.isQuarterly /\ p.year = r.year
     /\ r.month \in p.month..(p.month + 2)

\* The values of currentPeriod
PeriodsFrom(c) ==
  LET Nth[n \in Nat] == IF n = 0 THEN getPeriodStart(c.start, c.isQuarterly) ELSE nextPeriod(Nth[n - 1])
  IN Nth

\* The condition of the loop. A definition without an end date ends after LastMonth.
Continues(c, at, p) ==
  LET nowPeriod == getPeriodStart(at, c.isQuarterly)
      endPeriod == getPeriodStart(c.end, c.isQuarterly)
  IN /\ ~periodIsBefore(nowPeriod, p)
     /\ c.shortfall => p # nowPeriod
     /\ periodIsBefore(p, endPeriod) \/ p = endPeriod

\* getActivePeriods: the loop stops at the first period that is not active.
MutActivePeriods(c, at) ==
  {getPeriodStart(i, c.isQuarterly) : i \in c.start..at}
ActivePeriods(c, at) ==
  {PeriodsFrom(c)[n] : n \in {m \in 0..(LastMonth - FirstMonth + 1) :
                               \A k \in 0..m : Continues(c, at, PeriodsFrom(c)[k])}}

\* A definition without a shortfall_event_name has its event_name there.
EmittedName(d) == IF Config[d].shortfall THEN Config[d].shortfallEvent ELSE Config[d].event
CountedNames(d) == {Config[d].event} \cup IF Config[d].shortfall THEN {Config[d].shortfallEvent} ELSE {}

\* The rows of the curated view.  What is stored is in the row of each month or quarter, and
\* unit price, at which it was invoiced; if at none, in that of the month or quarter in
\* which it would be.  The quantity of a row is the credits of its events.
stored == genuine \cup (sent \ queued)
Covers(i, e) == i.name = e.name /\ i.period = getPeriodStart(e.month, i.period.isQuarterly)
InvoiceRow(i) ==
  [name |-> i.name, period |-> i.period, unitPrice |-> i.unitPrice,
   events |-> {e \in stored : Covers(i, e)}]

MutUninvoiced == stored
Uninvoiced == {e \in stored : \A i \in invoiced : ~Covers(i, e)}
InvoicedIn(e) == getPeriodStart(e.month, e.name \in Quarterly)
UsageRow(e) ==
  [name |-> e.name, period |-> InvoicedIn(e), unitPrice |-> NotInvoiced,
   events |-> {x \in Uninvoiced : x.name = e.name /\ InvoicedIn(x) = InvoicedIn(e)}]
Rows == {InvoiceRow(i) : i \in invoiced} \cup {UsageRow(e) : e \in Uninvoiced}

\* countExistingEvents: the quantities of rows are added, an event in two of them twice.
CountedRows(d, p) == {row \in extract : row.name \in CountedNames(d) /\ periodContains(p, row.period)}
CreditsOfRows(rows) == Cardinality(UNION {{row} \X Units(row.events) : row \in rows})
MutCountOneName(d, p) ==
  CreditsOfRows({row \in extract : row.name = Config[d].event /\ periodContains(p, row.period)})
CountExisting(d, p) == CreditsOfRows(CountedRows(d, p))

\* createEvent
TopUp(d, p) ==
  [by |-> d, id |-> call + 1, name |-> EmittedName(d), month |-> p.year * 12 + p.month - 1,
   credits |-> Config[d].quantity - CountExisting(d, p)]

\* businessLogic: one event for each active period that is short of its quantity.
MutMissingIn(d) == {p \in ActivePeriods(Config[d], now) : Config[d].quantity >= CountExisting(d, p)}
MissingIn(d) == {p \in ActivePeriods(Config[d], now) : Config[d].quantity > CountExisting(d, p)}
Missing == UNION {{TopUp(d, p) : p \in MissingIn(d)} : d \in Definitions}

\* History: the periods of which an event is invoiced, and counted, more than once.
RepeatedIn(d) ==
  {p \in ActivePeriods(Config[d], now) :
     \E r, n \in CountedRows(d, p) :
       /\ r # n /\ r.events \cap n.events # {}
       /\ r.unitPrice # NotInvoiced /\ n.unitPrice # NotInvoiced}
Repeated == UNION {{d} \X RepeatedIn(d) : d \in Definitions}

Init ==
  /\ prompt \in BOOLEAN
  /\ now = FirstMonth
  /\ genuine = {} /\ invoiced = {}
  /\ sent = {} /\ queued = {}
  /\ query = NoTable /\ extract = NoTable
  /\ call = 0 /\ since = FirstMonth /\ repeated = {} /\ outbox = {} /\ ok = TRUE

MonthEnds ==
  /\ now < LastMonth
  /\ now' = now + 1
  /\ UNCHANGED <<prompt, genuine, invoiced, sent, queued, query, extract, jobVars>>

\* A genuine event of this month or, if imported late, of an earlier one is stored.
Occur(n, i) ==
  /\ i = now \/ (i < now /\ ~prompt)
  /\ LET number == Cardinality({e \in genuine : e.name = n}) IN
       /\ number < MaxTraffic
       /\ genuine' = genuine \cup {[by |-> Services, id |-> number, name |-> n, month |-> i, credits |-> 1]}
  /\ UNCHANGED <<prompt, now, invoiced, sent, queued, query, extract, jobVars>>

\* A line item is stored at a unit price that was not invoiced for this event, month or
\* quarter, and beside those at others until they are archived, if they ever are.
Invoice(i) ==
  /\ invoiced' = invoiced \cup {i}
  /\ UNCHANGED <<prompt, now, genuine, sent, queued, query, extract, jobVars>>

Archive(i) ==
  /\ \E other \in invoiced \ {i} : /\ other.name = i.name /\ other.period.year = i.period.year
                                   /\ other.period.month = i.period.month
  /\ invoiced' = invoiced \ {i}
  /\ UNCHANGED <<prompt, now, genuine, sent, queued, query, extract, jobVars>>

\* store-transactions stores an event from the queue
Store(e) ==
  /\ queued' = queued \ {e}
  /\ UNCHANGED <<prompt, now, genuine, invoiced, sent, query, extract, jobVars>>

\* dashboard-extract, one at a time: Athena reads the objects at some moment
QueryReads ==
  /\ query = NoTable
  /\ query' = Rows
  /\ UNCHANGED <<prompt, now, genuine, invoiced, sent, queued, extract, jobVars>>

\* The query has succeeded before the polling of AthenaQueryExecutor gave up. One page of
\* its results is fetched and put in place of the last extract.
PutExtract ==
  /\ query # NoTable
  /\ \E page \in SUBSET query :
       /\ IF prompt \/ Cardinality(query) <= MaxRows THEN page = query ELSE Cardinality(page) = MaxRows
       /\ extract' = page
  /\ query' = NoTable
  /\ UNCHANGED <<prompt, now, genuine, invoiced, sent, queued, jobVars>>

\* The query fails or is cancelled, or it is still running after the last attempt.
QueryFails ==
  /\ query # NoTable
  /\ query' = NoTable
  /\ UNCHANGED <<prompt, now, genuine, invoiced, sent, queued, extract, jobVars>>

UpToDate == queued = {} /\ extract = Rows

\* Invoked by its monthly schedule, by Lambda after a failure, or by hand. Without an
\* extract it throws before it has done anything.
Begin ==
  /\ outbox = {}
  /\ call < MaxCalls
  /\ extract # NoTable
  /\ prompt => UpToDate
  /\ outbox' = Missing
  /\ call' = call + 1
  /\ since' = now
  /\ repeated' = Repeated
  /\ ok' = TRUE
  /\ UNCHANGED <<prompt, now, genuine, invoiced, sent, queued, query, extract>>

Send(e) ==
  /\ sent' = sent \cup {e}
  /\ queued' = queued \cup {e}
  /\ outbox' = outbox \ {e}
  /\ UNCHANGED <<prompt, now, genuine, invoiced, query, extract, call, since, repeated, ok>>

\* Rejected, perhaps after it took effect. The others are sent all the same; then the
\* handler throws.
SendFails(e) ==
  /\ \/ UNCHANGED <<sent, queued>>
     \/ sent' = sent \cup {e} /\ queued' = queued \cup {e}
  /\ outbox' = outbox \ {e}
  /\ ok' = FALSE
  /\ UNCHANGED <<prompt, now, genuine, invoiced, query, extract, call, since, repeated>>

Next ==
  \/ MonthEnds
  \/ \E n \in Genuine, i \in Months : Occur(n, i)
  \/ \E i \in Invoices : Invoice(i)
  \/ \E i \in invoiced : Archive(i)
  \/ \E e \in queued : Store(e)
  \/ QueryReads \/ PutExtract \/ QueryFails
  \/ Begin
  \/ \E e \in outbox : Send(e) \/ SendFails(e)

Spec == Init /\ [][Next]_vars

--------------------------------------------------------------------------------
TypeOK ==
  /\ prompt \in BOOLEAN /\ now \in Months /\ since \in Months /\ since <= now
  /\ invoiced \subseteq Invoices
  /\ genuine \subseteq Event /\ sent \subseteq Event /\ outbox \subseteq Event
  /\ IsFiniteSet(genuine) /\ IsFiniteSet(sent) /\ IsFiniteSet(outbox)
  /\ queued \subseteq sent /\ outbox \cap (sent \cup genuine) = {}
  /\ call \in 0..MaxCalls /\ ok \in BOOLEAN /\ repeated \subseteq Definitions \X Period

\* What a definition is about, by arithmetic on months: blocks of one or three of them.
Block(d, i) == IF Config[d].isQuarterly THEN i \div 3 ELSE i

Blocks(d) == {Block(d, i) : i \in Months}

\* Of some events, those a definition has made for a block, and those that count for it.
MadeFor(events, d, b)  == {e \in events : e.by = d /\ Block(d, e.month) = b}
CountFor(events, d, b) == {e \in events : e.name \in CountedNames(d) /\ Block(d, e.month) = b}

\* However often the lambda is called, and even if some of what it sent was rejected, it
\* never bills a period beyond its quantity (the comment at business-logic.ts:25-31).
Idempotent ==
  \A d \in Definitions : \A b \in Blocks(d) :
    MadeFor(sent, d, b) # {} => Credits(CountFor(sent \cup genuine, d, b)) <= Config[d].quantity

\* A configuration as the comment at business-logic.ts:17-23 describes it: services do not
\* emit the events of fixed definitions, and no definition counts what another makes.
\* And a monthly definition is not about an event that is or would be invoiced by the quarter.
WellConfigured ==
  \A d \in Definitions :
    /\ Config[d].shortfall \/ Config[d].event \notin Genuine
    /\ \A x \in Definitions \ {d} : EmittedName(x) \notin CountedNames(d)
    /\ Config[d].isQuarterly \/ CountedNames(d) \cap Quarterly = {}
    /\ \A i \in Invoices : i.name \in CountedNames(d) /\ i.period.isQuarterly => Config[d].isQuarterly

\* It is so when every call is given an extract that is up to date.
IdempotentIfPrompt == prompt /\ WellConfigured => Idempotent

\* The periods that are due at month i: from the start to the end of the definition, up to
\* the present one, or for shortfall events up to the one before.
Due(d, i) ==
  {b \in Block(d, Config[d].start)..Block(d, Config[d].end) :
     IF Config[d].shortfall THEN b < Block(d, i) ELSE b <= Block(d, i)}

\* However stale the extract, a call that sent everything leaves no period short that was due
\* when it began, unless an event of it was invoiced at two unit prices, or by the month and by
\* the quarter: apart from that countExistingEvents counts only what was sent, and once.
NoneShort ==
  call > 0 /\ ok /\ outbox = {} =>
    \A d \in Definitions : \A b \in Due(d, since) :
      \/ Credits(CountFor(sent \cup genuine, d, b)) >= Config[d].quantity
      \/ \E x \in repeated : x[1] = d /\ Block(d, x[2].year * 12 + x[2].month - 1) = b

\* Nothing is sent for a period that is not due, shortfall events never before it has ended.
OnlyWhenDue == \A e \in sent : Block(e.by, e.month) \in Due(e.by, now)
================================================================================
