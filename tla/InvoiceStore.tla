------------------------------ MODULE InvoiceStore ------------------------------
(***************************************************************************)
(* store-standardised-invoices: one lambda at a time takes a batch of      *)
(* invoices from its queue, and for each in turn stores all line items at  *)
(* once, each superseding what was stored under its month, vendor and      *)
(* event; then it moves the raw invoice to the successful folder.  An S3   *)
(* move is a copy and a delete, and nothing is undone by a failure.        *)
(***************************************************************************)
EXTENDS Integers, FiniteSets

CONSTANTS
  Invoices,     \* messages of the queue, one per raw invoice
  Lines,        \* line items
  InvoiceOf,    \* the invoice of each line item
  Groups,       \* key prefixes: month, vendor and event
  Group,        \* the key prefix of each line item
  NoInvoice,
  Arrivals,     \* which invoices may arrive in one run
  BatchSize,    \* most records of one invocation (10, the default)
  MaxReceive    \* maxReceiveCount of the queue (3), for each message less the receives
                \* that found the one lambda busy

ASSUME InvoiceAssumption ==
  /\ InvoiceOf \in [Lines -> Invoices]
  /\ Group \in [Lines -> Groups]
  /\ NoInvoice \notin Invoices
  /\ Arrivals \subseteq SUBSET Invoices
  /\ BatchSize \in Nat \ {0}
  /\ MaxReceive \in [Invoices -> Nat \ {0}]

VARIABLES
  queue,       \* messages that can be received
  received,    \* how often each message was received
  acked, dead, \* messages deleted, and parked in the dead-letter queue
  phase,       \* where the handler is
  batch,       \* records of this invocation
  todo,        \* records the loop of the handler has not come to
  current,     \* the record it is at
  failing,     \* records with line items in batchItemFailures
  line,        \* how far storeLineItem has come, per line item
  stale,       \* staleItemKeys, per line item
  moves,       \* moves to the archive folder under way, or frozen with the lambda
  live,        \* objects under the destination folder
  archived,    \* objects under the archive folder
  written,     \* every object that was ever put
  newest,      \* history: of each prefix, the one that was put last
  raw          \* folders of the raw bucket each raw invoice is in

queueVars  == <<queue, received, acked, dead>>
recordVars == <<batch, todo, current, failing>>
lineVars   == <<line, stale>>
objectVars == <<live, archived, written, newest>>
vars == <<queueVars, phase, recordVars, lineVars, moves, objectVars, raw>>

Phases     == {"idle", "next record", "lines", "delete raw"}
LineStates == {"list", "put", "archive", "failed"}
Folders    == {"vendor", "successful"}

\* A key: its prefix is that of the line, its random part is new with every attempt.
Key  == [line : Lines, try : Nat]
Move == [by : Key, key : Key, copied : BOOLEAN]

LinesOf(i) == {l \in Lines : InvoiceOf[l] = i}
MutKeyOf(l) == [line |-> l, try |-> 0]
KeyOf(l)   == [line |-> l, try |-> received[InvoiceOf[l]]]
InGroup(keys, g) == {k \in keys : Group[k.line] = g}

\* putTextS3
PutKey(k) ==
  /\ live' = live \cup {k}
  /\ written' = written \cup {k}
  /\ newest' = {n \in newest : Group[n.line] # Group[k.line]} \cup {k}

\* The loop of the handler leaves a record, and its local variables with it.
MutLeaveRecord ==
  /\ line' = [l \in Lines |-> "list"]
  /\ stale' = [l \in Lines |-> {}]
  /\ UNCHANGED current
LeaveRecord ==
  /\ current' = NoInvoice
  /\ line' = [l \in Lines |-> "list"]
  /\ stale' = [l \in Lines |-> {}]

Init ==
  /\ queue \in Arrivals /\ acked = {} /\ dead = {}
  /\ received = [i \in Invoices |-> 0]
  /\ phase = "idle"
  /\ batch = {} /\ todo = {} /\ current = NoInvoice /\ failing = {}
  /\ line = [l \in Lines |-> "list"]
  /\ stale = [l \in Lines |-> {}]
  /\ moves = {}
  /\ live = {} /\ archived = {} /\ written = {} /\ newest = {}
  /\ raw = [i \in Invoices |-> {"vendor"}]

Receive ==
  /\ phase = "idle"
  /\ \E b \in SUBSET {i \in queue : received[i] < MaxReceive[i]} :
       /\ b # {} /\ Cardinality(b) <= BatchSize
       /\ batch' = b /\ todo' = b
       /\ queue' = queue \ b
       /\ received' = [i \in Invoices |-> received[i] + IF i \in b THEN 1 ELSE 0]
  /\ phase' = "next record"
  /\ UNCHANGED <<acked, dead, current, failing, lineVars, moves, objectVars, raw>>

StartRecord(i) ==
  /\ phase = "next record"
  /\ i \in todo
  /\ todo' = todo \ {i}
  /\ current' = i
  /\ phase' = "lines"
  /\ UNCHANGED <<queueVars, batch, failing, lineVars, moves, objectVars, raw>>

At(l, state) == phase = "lines" /\ l \in LinesOf(current) /\ line[l] = state

\* listS3Keys of the item's prefix
ListStale(l) ==
  /\ At(l, "list")
  /\ stale' = [stale EXCEPT ![l] = InGroup(live, Group[l])]
  /\ line' = [line EXCEPT ![l] = "put"]
  /\ UNCHANGED <<queueVars, phase, recordVars, moves, objectVars, raw>>

\* The line item is put, and all moves of stale items are started.
Put(l) ==
  /\ At(l, "put")
  /\ PutKey(KeyOf(l))
  /\ moves' = moves \cup [by : {KeyOf(l)}, key : stale[l], copied : {FALSE}]
  /\ line' = [line EXCEPT ![l] = "archive"]
  /\ stale' = [stale EXCEPT ![l] = {}]
  /\ UNCHANGED <<queueVars, phase, recordVars, archived, raw>>

\* A type guard or the listing fails, or the put is rejected, perhaps after it took effect.
LineFails(l) ==
  /\ At(l, "list") \/ At(l, "put")
  /\ line' = [line EXCEPT ![l] = "failed"]
  /\ stale' = [stale EXCEPT ![l] = {}]
  /\ \/ UNCHANGED <<live, written, newest>>
     \/ line[l] = "put" /\ PutKey(KeyOf(l))
  /\ UNCHANGED <<queueVars, phase, recordVars, moves, archived, raw>>

\* moveS3, first half: a key that is no longer there cannot be copied.
CopyStale(m) ==
  /\ phase # "idle"
  /\ m \in moves
  /\ ~m.copied /\ m.key \in live
  /\ archived' = archived \cup {m.key}
  /\ moves' = (moves \ {m}) \cup {[by |-> m.by, key |-> m.key, copied |-> TRUE]}
  /\ UNCHANGED <<queueVars, phase, recordVars, lineVars, live, written, newest, raw>>

MutMayDelete(m) == TRUE
MayDelete(m) == m.copied

\* moveS3, second half
DeleteStale(m) ==
  /\ phase # "idle"
  /\ m \in moves
  /\ MayDelete(m)
  /\ live' = live \ {m.key}
  /\ moves' = moves \ {m}
  /\ UNCHANGED <<queueVars, phase, recordVars, lineVars, archived, written, newest, raw>>

\* Copy or delete is rejected.  Promise.all fails the item at once; its other moves go on.
MoveFails(m) ==
  /\ phase # "idle"
  /\ m \in moves
  /\ moves' = moves \ {m}
  /\ line' = [l \in Lines |->
                IF m.by = KeyOf(l) /\ line[l] = "archive" THEN "failed" ELSE line[l]]
  /\ UNCHANGED <<queueVars, phase, recordVars, stale, objectVars, raw>>

MutStored(l) == line[l] = "archive"
Stored(l)  == line[l] = "archive" /\ \A m \in moves : m.by # KeyOf(l)
Settled(l) == line[l] = "failed" \/ Stored(l)

\* Some line item failed: the record is reported, its raw invoice stays.
RecordFails ==
  /\ phase = "lines"
  /\ \A l \in LinesOf(current) : Settled(l)
  /\ \E l \in LinesOf(current) : line[l] = "failed"
  /\ failing' = failing \cup {current}
  /\ LeaveRecord
  /\ phase' = "next record"
  /\ UNCHANGED <<queueVars, batch, todo, moves, objectVars, raw>>

\* moveSuccessful, first half.  It throws (see Crash) if the body has no line items
\* to take the name from, or if the raw invoice is no longer in its vendor's folder.
CopyRaw ==
  /\ phase = "lines"
  /\ LinesOf(current) # {}
  /\ \A l \in LinesOf(current) : Stored(l)
  /\ "vendor" \in raw[current]
  /\ raw' = [raw EXCEPT ![current] = @ \cup {"successful"}]
  /\ phase' = "delete raw"
  /\ UNCHANGED <<queueVars, recordVars, lineVars, moves, objectVars>>

DeleteRaw ==
  /\ phase = "delete raw"
  /\ raw' = [raw EXCEPT ![current] = @ \ {"vendor"}]
  /\ LeaveRecord
  /\ phase' = "next record"
  /\ UNCHANGED <<queueVars, batch, todo, failing, moves, objectVars>>

\* What Lambda leaves in the queue: the identifiers reported are line items and not
\* message IDs, so any failure is the failure of the whole batch; and a deletion may be lost.
MutKeeps(kept) == failing \subseteq kept \/ kept = {}
Keeps(kept) == failing = {} \/ kept = batch

EndBatch ==
  /\ phase = "next record"
  /\ todo = {}
  /\ \E kept \in SUBSET batch :
       /\ Keeps(kept)
       /\ queue' = queue \cup kept
       /\ acked' = acked \cup (batch \ kept)
  /\ batch' = {} /\ failing' = {}
  /\ phase' = "idle"
  /\ UNCHANGED <<received, dead, todo, current, lineVars, moves, objectVars, raw>>

\* The handler throws or the invocation dies.  Moves under way may stay frozen.
Crash ==
  /\ phase # "idle"
  /\ queue' = queue \cup batch
  /\ batch' = {} /\ todo' = {} /\ failing' = {}
  /\ LeaveRecord
  /\ phase' = "idle"
  /\ UNCHANGED <<received, acked, dead, moves, objectVars, raw>>

\* The container is replaced: what was frozen never happens.
Recycle ==
  /\ phase = "idle"
  /\ moves # {}
  /\ moves' = {}
  /\ UNCHANGED <<queueVars, phase, recordVars, lineVars, objectVars, raw>>

MutExhausted(i) == received[i] > MaxReceive[i]
Exhausted(i) == received[i] >= MaxReceive[i]

Park(i) ==
  /\ i \in queue
  /\ Exhausted(i)
  /\ queue' = queue \ {i}
  /\ dead' = dead \cup {i}
  /\ UNCHANGED <<received, acked, phase, recordVars, lineVars, moves, objectVars, raw>>

StoreLine ==
  \/ \E l \in Lines : ListStale(l) \/ Put(l) \/ LineFails(l)
  \/ \E m \in moves : CopyStale(m) \/ DeleteStale(m) \/ MoveFails(m)

Handle ==
  \/ \E i \in todo : StartRecord(i)
  \/ StoreLine
  \/ RecordFails \/ CopyRaw \/ DeleteRaw \/ EndBatch \/ Crash

Next ==
  \/ Receive \/ Handle \/ Recycle
  \/ \E i \in queue : Park(i)

\* SQS goes on delivering, and an invocation returns, throws or times out.
Spec == Init /\ [][Next]_vars /\ WF_vars(Next)

--------------------------------------------------------------------------------
TypeOK ==
  /\ queue \subseteq Invoices /\ acked \subseteq Invoices /\ dead \subseteq Invoices
  /\ received \in [Invoices -> Nat]
  /\ \A i \in Invoices : received[i] <= MaxReceive[i]
  /\ phase \in Phases
  /\ batch \subseteq Invoices /\ todo \subseteq batch /\ failing \subseteq batch
  /\ current \in batch \cup {NoInvoice}
  /\ line \in [Lines -> LineStates]
  /\ stale \in [Lines -> SUBSET Key]
  /\ moves \subseteq Move
  /\ live \subseteq Key /\ archived \subseteq Key /\ written \subseteq Key
  /\ newest \subseteq written
  /\ raw \in [Invoices -> SUBSET Folders]

\* Whatever crashes or is rejected half-way, no stored line item vanishes: it is in
\* the destination folder or in the archive (moveS3 copies before it deletes).
LineItemsKept == written \subseteq live \cup archived

\* However attempts, batch mates and left-over moves interleave, once some line item was
\* stored for a month, vendor and event there is always one that the invoice views
\* read: what supersedes is put before what it supersedes is moved (store-line-item.ts:31-38).
GroupsStayBilled ==
  \A k \in written : InGroup(live, Group[k.line]) # {}

\* A raw invoice is in the successful folder, and a message deleted, only if every line
\* item of the invoice has been stored and its month is billed (handler.ts:47-83).
SuccessfulMeansBilled ==
  \A i \in Invoices : "successful" \in raw[i] \/ i \in acked =>
    /\ "successful" \in raw[i]
    /\ \A l \in LinesOf(i) : /\ \E k \in written : k.line = l
                             /\ InGroup(live, Group[l]) # {}

\* When an invoice succeeds, nothing older than this attempt is left among what its
\* line items supersede, even if an earlier attempt or another invoice put it there.
SupersededArchived ==
  [][\A i \in Invoices : phase = "lines" /\ raw'[i] # raw[i] =>
       \A l \in LinesOf(i) : InGroup(live, Group[l]) \subseteq {KeyOf(s) : s \in LinesOf(i)}]_vars

\* From the outside, line items are billed, archived and retired one by one, and what is
\* billed for a month, vendor and event is never without the line item stored last,
\* whatever attempts, siblings and left-over moves are about (store-line-item.ts:31-38).
Versions == UNION {[line : {l}, try : 0..MaxReceive[InvoiceOf[l]]] : l \in Lines}
Ledger == INSTANCE BillingLedger WITH GroupOf <- [v \in Versions |-> Group[v.line]]
KeepsNewest == Ledger!Spec

\* Every message is deleted or parked in the end.
Settles == <>[](queue = {} /\ batch = {})

\* When an invoice succeeds each of its line items is live: what is archived is old
\* (the integration test "New invoice with same month, vendor, service as old line
\* item should archive old line item"; staleItemKeys in store-line-item.ts).
SiblingsKept ==
  [][\A i \in Invoices : phase = "lines" /\ raw'[i] # raw[i] =>
       {KeyOf(l) : l \in LinesOf(i)} \subseteq live]_vars
================================================================================
