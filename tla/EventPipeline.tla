----------------------------- MODULE EventPipeline -----------------------------
(***************************************************************************)
(* The event pipeline: filter -> clean -> store-transactions, three        *)
(* lambdas made by buildHandler with withBatchItemFailures, each fed by an *)
(* SQS queue with a dead-letter queue.  Events enter at the filter (TxMA), *)
(* at clean (transaction-csv-to-json-event) or at the store (synthetic     *)
(* events).  Delivery is at least once: a failed, crashed or undeleted     *)
(* message is received again, and what it sent before is not taken back.   *)
(***************************************************************************)
EXTENDS Integers, Sequences, FiniteSets

CONSTANTS
  Events,
  Entry,       \* the stage whose queue an event is submitted to
  Relevant,    \* events the filter lets through
  Sound,       \* per stage, events its type guard and business logic accept
  Lambdas,     \* concurrent invocations per stage (ReservedConcurrentExecutions)
  BatchSize,   \* most messages of one invocation (10 for the filter)
  MaxReceive   \* maxReceiveCount of each queue (3)

Stages == {"filter", "clean", "store"}

ASSUME PipelineAssumption ==
  /\ Entry \in [Events -> Stages]
  /\ Relevant \subseteq Events
  /\ Sound \in [Stages -> SUBSET Events]
  /\ BatchSize \in Nat \ {0}
  /\ MaxReceive \in [Stages -> Nat \ {0}]

VARIABLES
  submitted,   \* events a producer has sent
  queue,       \* per stage, messages that can be received
  job,         \* per stage and lambda, its batch and how far it has come
  dlq,         \* per stage, messages of its dead-letter queue
  filtered,    \* events the filter has let go
  stored       \* events with an object in the storage bucket

vars == <<submitted, queue, job, dlq, filtered, stored>>

\* trail tells the copies of an event apart: the receive counts at which each
\* stage handled the message that this one came of.
Message == [ev : Events, trail : Seq(Nat), count : Nat]

Job  == [batch : SUBSET Message, todo : SUBSET Message, failed : SUBSET Message]
Idle == [batch |-> {}, todo |-> {}, failed |-> {}]

NextStage == [filter |-> "clean", clean |-> "store"]

\* filter: what is sound but irrelevant resolves with no outgoing message.
Drops(s, e) == s = "filter" /\ e \in Sound[s] \ Relevant
MutEmitsAny(s, e) == e \in Sound[s]
Emits(s, e) == e \in Sound[s] /\ ~Drops(s, e)

Init ==
  /\ submitted = {} /\ filtered = {} /\ stored = {}
  /\ queue = [s \in Stages |-> {}]
  /\ dlq = [s \in Stages |-> {}]
  /\ job = [s \in Stages |-> [l \in Lambdas |-> Idle]]

Submit(e) ==
  /\ e \notin submitted
  /\ submitted' = submitted \cup {e}
  /\ queue' = [queue EXCEPT ![Entry[e]] = @ \cup {[ev |-> e, trail |-> <<>>, count |-> 0]}]
  /\ UNCHANGED <<job, dlq, filtered, stored>>

MutReceivableLess(s, m) == m.count + 1 < MaxReceive[s]
Receivable(s, m) == m.count < MaxReceive[s]

\* An idle lambda is invoked with some of the messages.
Receive(s, l) ==
  /\ job[s][l].batch = {}
  /\ \E batch \in SUBSET {m \in queue[s] : Receivable(s, m)} :
       LET received == {[m EXCEPT !.count = @ + 1] : m \in batch} IN
       /\ batch # {} /\ Cardinality(batch) <= BatchSize
       /\ queue' = [queue EXCEPT ![s] = @ \ batch]
       /\ job' = [job EXCEPT ![s][l] = [batch |-> received, todo |-> received, failed |-> {}]]
  /\ UNCHANGED <<submitted, dlq, filtered, stored>>

\* The output of m: sendRecord to the next queue, or store.ts, which puts the
\* object of the event under its date and event_id, over any earlier one.
Emit(s, m) ==
  IF s = "store"
  THEN stored' = stored \cup {m.ev} /\ UNCHANGED queue
  ELSE /\ queue' = [queue EXCEPT ![NextStage[s]] = @ \cup
                      {[ev |-> m.ev, trail |-> Append(m.trail, m.count), count |-> 0]}]
       /\ UNCHANGED stored

Handled(j, m) == [j EXCEPT !.todo = @ \ {m}]
MutFailedEvent(j, m) == [j EXCEPT !.todo = @ \ {m}, !.failed = @ \cup {m.ev}]
Failed(j, m)  == [j EXCEPT !.todo = @ \ {m}, !.failed = @ \cup {m}]

Drop(s, l, m) ==
  /\ m \in job[s][l].todo
  /\ Drops(s, m.ev)
  /\ filtered' = filtered \cup {m.ev}
  /\ job' = [job EXCEPT ![s][l] = Handled(@, m)]
  /\ UNCHANGED <<submitted, queue, dlq, stored>>

Resolve(s, l, m) ==
  /\ m \in job[s][l].todo
  /\ Emits(s, m.ev)
  /\ Emit(s, m)
  /\ job' = [job EXCEPT ![s][l] = Handled(@, m)]
  /\ UNCHANGED <<submitted, dlq, filtered>>

\* The body is refused, the business logic throws, or the output is rejected,
\* perhaps only after it took effect.
Fail(s, l, m) ==
  /\ m \in job[s][l].todo
  /\ ~Drops(s, m.ev)
  /\ \/ UNCHANGED <<queue, stored>>
     \/ Emits(s, m.ev) /\ Emit(s, m)
  /\ job' = [job EXCEPT ![s][l] = Failed(@, m)]
  /\ UNCHANGED <<submitted, dlq, filtered>>

\* The handler returns and Lambda deletes what it takes as dealt with.  The failed
\* messages stay; the others may stay too, because the failures are returned as bare
\* IDs rather than as itemIdentifier records, or because a deletion was lost.
MutKeepsAny(j, kept) == kept \subseteq j.batch
Keeps(j, kept) == j.failed \subseteq kept /\ kept \subseteq j.batch

EndBatch(s, l) ==
  LET j == job[s][l] IN
  /\ j.batch # {} /\ j.todo = {}
  /\ \E kept \in SUBSET j.batch :
       /\ Keeps(j, kept)
       /\ queue' = [queue EXCEPT ![s] = @ \cup kept]
  /\ job' = [job EXCEPT ![s][l] = Idle]
  /\ UNCHANGED <<submitted, dlq, filtered, stored>>

\* The handler throws or the invocation dies: the whole batch becomes visible again.
Crash(s, l) ==
  /\ job[s][l].batch # {}
  /\ queue' = [queue EXCEPT ![s] = @ \cup job[s][l].batch]
  /\ job' = [job EXCEPT ![s][l] = Idle]
  /\ UNCHANGED <<submitted, dlq, filtered, stored>>

\* The redrive policy: a message received maxReceiveCount times is parked.
Park(s, m) ==
  /\ m \in queue[s]
  /\ m.count >= MaxReceive[s]
  /\ queue' = [queue EXCEPT ![s] = @ \ {m}]
  /\ dlq' = [dlq EXCEPT ![s] = @ \cup {m}]
  /\ UNCHANGED <<submitted, job, filtered, stored>>

Deliver ==
  \E s \in Stages :
    \/ \E m \in queue[s] : Park(s, m)
    \/ \E l \in Lambdas :
         \/ Receive(s, l) \/ EndBatch(s, l) \/ Crash(s, l)
         \/ \E m \in job[s][l].todo : Drop(s, l, m) \/ Resolve(s, l, m) \/ Fail(s, l, m)

Next == Deliver \/ \E e \in Events : Submit(e)

\* SQS goes on delivering, and an invocation returns or times out.
Spec == Init /\ [][Next]_vars /\ WF_vars(Deliver)

--------------------------------------------------------------------------------
TypeOK ==
  /\ submitted \subseteq Events /\ filtered \subseteq Events /\ stored \subseteq Events
  /\ queue \in [Stages -> SUBSET Message]
  /\ dlq \in [Stages -> SUBSET Message]
  /\ job \in [Stages -> [Lambdas -> Job]]

\* Messages of a stage that are still on their way.
Moving(s) == queue[s] \cup UNION {job[s][l].batch : l \in Lambdas}

InFlight == {m.ev : m \in UNION {Moving(s) : s \in Stages}}
Parked   == {m.ev : m \in UNION {dlq[s] : s \in Stages}}

\* Whatever fails, crashes or is delivered twice, an event that was submitted is
\* stored, was filtered out, is still on its way, or is in a dead-letter queue.
NoEventLost == submitted \subseteq stored \cup filtered \cup InFlight \cup Parked

\* Stages an event passes from where it is submitted.
Ahead(s) == CASE s = "filter" -> Stages [] s = "clean" -> {"clean", "store"} [] OTHER -> {"store"}

Ignored  == {e \in Events : Entry[e] = "filter" /\ e \in Sound["filter"] \ Relevant}
Billable == {e \in Events \ Ignored : \A s \in Ahead(Entry[e]) : e \in Sound[s]}

\* No order of retries stores an event that any stage ahead of it refuses, nor one the
\* filter lets go; and a billable event is never let go (filter and clean business logic).
RightFate == stored \subseteq Billable /\ filtered \subseteq Ignored

\* All copies of all events stop moving for good: retries end in deletion or in a
\* dead-letter queue (maxReceiveCount), and no stage feeds an earlier one.
Settles == <>[](InFlight = {})

Ledger == INSTANCE EventLedger WITH parked <- Parked

\* The pipeline keeps the promise of EventLedger: from the outside, each event is
\* submitted, and then stored, filtered out or parked.
KeepsLedger == Ledger!Spec
================================================================================
