-------------------------- MODULE EventPipelineProofs --------------------------
(***************************************************************************)
(* Proofs about EventPipeline for any events, batches and receive counts.  *)
(***************************************************************************)
EXTENDS EventPipeline, TLAPS

Rank == [filter |-> 1, clean |-> 2, store |-> 3]

\* A message at stage s, to be handled or parked.
At(s, m) == m \in queue[s] \cup dlq[s] \/ \E l \in Lambdas : m \in job[s][l].batch

\* The event is settled, or has a message beyond the first n stages.
Covered(e, n) ==
  \/ e \in stored \cup filtered
  \/ \E s \in Stages, m \in Message : Rank[s] > n /\ At(s, m) /\ m.ev = e

\* What a batch has handled without a failure can be deleted: it is covered further on.
HandledCovered ==
  \A s \in Stages, l \in Lambdas :
    \A m \in job[s][l].batch \ (job[s][l].todo \cup job[s][l].failed) : Covered(m.ev, Rank[s])

SubmittedCovered == \A e \in submitted : Covered(e, 0)

\* Every stage an event has been through let it pass.
Reached(e, s) ==
  /\ s \in Ahead(Entry[e])
  /\ \A t \in Ahead(Entry[e]) : Rank[t] < Rank[s] => Emits(t, e)

MessagesReached ==
  /\ \A s \in Stages, m \in Message : At(s, m) => m.ev \in submitted /\ Reached(m.ev, s)
  /\ \A s \in Stages, l \in Lambdas : job[s][l].todo \subseteq job[s][l].batch

Fates == stored \subseteq submitted /\ filtered \subseteq submitted /\ RightFate

IInv == TypeOK /\ HandledCovered /\ SubmittedCovered /\ MessagesReached /\ Fates

USE PipelineAssumption DEF Stages

LEMMA TypeInit == Init => TypeOK
  BY DEF Init, TypeOK, Idle, Job

\* What m turns into when it is handled.
LEMMA EmittedTyped ==
  ASSUME NEW m \in Message
  PROVE  [ev |-> m.ev, trail |-> Append(m.trail, m.count), count |-> 0] \in Message
  BY DEF Message

LEMMA EmitTyped ==
  ASSUME TypeOK, NEW s \in Stages, NEW m \in Message, Emit(s, m)
  PROVE  stored' \subseteq Events /\ queue' \in [Stages -> SUBSET Message]
<1>1. m.ev \in Events
  BY DEF Message
<1>2. CASE s = "store"
  BY <1>1, <1>2 DEF Emit, TypeOK
<1>3. CASE s # "store"
  <2>1. NextStage[s] \in Stages
    BY <1>3 DEF NextStage
  <2> QED
    BY <1>3, <2>1, EmittedTyped DEF Emit, TypeOK
<1> QED
  BY <1>2, <1>3

\* The bookkeeping of one message or of one batch leaves job a family of jobs.
LEMMA JobTyped ==
  ASSUME TypeOK, NEW s \in Stages, NEW l \in Lambdas, NEW j \in Job
  PROVE  [job EXCEPT ![s][l] = j] \in [Stages -> [Lambdas -> Job]]
  BY DEF TypeOK

LEMMA TypeStep == TypeOK /\ [Next]_vars => TypeOK'
<1> SUFFICES ASSUME TypeOK, [Next]_vars PROVE TypeOK'
  OBVIOUS
<1>1. ASSUME NEW e \in Events, Submit(e) PROVE TypeOK'
  <2>1. [ev |-> e, trail |-> <<>>, count |-> 0] \in Message
    BY DEF Message
  <2> QED
    BY <1>1, <2>1 DEF Submit, TypeOK
<1>2. ASSUME NEW s \in Stages, NEW m \in queue[s], Park(s, m) PROVE TypeOK'
  BY <1>2 DEF Park, TypeOK
<1>3. ASSUME NEW s \in Stages, NEW l \in Lambdas, Receive(s, l) PROVE TypeOK'
  <2>1. PICK batch \in SUBSET queue[s] :
          LET received == {[m EXCEPT !.count = @ + 1] : m \in batch} IN
          /\ queue' = [queue EXCEPT ![s] = @ \ batch]
          /\ job' = [job EXCEPT ![s][l] = [batch |-> received, todo |-> received, failed |-> {}]]
    BY <1>3 DEF Receive
  <2> DEFINE received == {[m EXCEPT !.count = @ + 1] : m \in batch}
  <2>2. batch \subseteq Message
    BY DEF TypeOK
  <2>3. received \subseteq Message
    BY <2>2 DEF Message
  <2>4. [batch |-> received, todo |-> received, failed |-> {}] \in Job
    BY <2>3 DEF Job
  <2>5. job' \in [Stages -> [Lambdas -> Job]]
    BY <2>1, <2>4, JobTyped
  <2> QED
    BY <1>3, <2>1, <2>5 DEF Receive, TypeOK
<1>4. ASSUME NEW s \in Stages, NEW l \in Lambdas, NEW m \in job[s][l].todo,
             Drop(s, l, m) \/ Resolve(s, l, m) \/ Fail(s, l, m)
      PROVE  TypeOK'
  <2>1. m \in Message /\ m.ev \in Events
    BY DEF TypeOK, Job, Message
  <2>2. stored' \subseteq Events /\ queue' \in [Stages -> SUBSET Message]
    BY <1>4, <2>1, EmitTyped DEF Drop, Resolve, Fail, TypeOK
  <2>3. job[s][l] \in Job
    BY DEF TypeOK
  <2>4. Handled(job[s][l], m) \in Job /\ Failed(job[s][l], m) \in Job
    BY <2>1, <2>3 DEF Handled, Failed, Job
  <2>5. job' = [job EXCEPT ![s][l] = Handled(job[s][l], m)] \/ job' = [job EXCEPT ![s][l] = Failed(job[s][l], m)]
    BY <1>4 DEF Drop, Resolve, Fail
  <2>6. job' \in [Stages -> [Lambdas -> Job]]
    BY <2>4, <2>5, JobTyped
  <2> QED
    BY <1>4, <2>1, <2>2, <2>6 DEF Drop, Resolve, Fail, TypeOK
<1>5. ASSUME NEW s \in Stages, NEW l \in Lambdas, EndBatch(s, l) \/ Crash(s, l) PROVE TypeOK'
  <2>1. job[s][l].batch \subseteq Message
    BY DEF TypeOK, Job
  <2>2. Idle \in Job
    BY DEF Idle, Job
  <2>3. job' \in [Stages -> [Lambdas -> Job]]
    BY <1>5, <2>2, JobTyped DEF EndBatch, Crash
  <2> QED
    BY <1>5, <2>1, <2>3 DEF EndBatch, Crash, TypeOK
<1>6. CASE UNCHANGED vars
  BY <1>6 DEF vars, TypeOK
<1> QED
  BY <1>1, <1>2, <1>3, <1>4, <1>5, <1>6 DEF Next, Deliver

\* In every step but EndBatch, a message at a stage has an heir there, of the same event.
Persists ==
  \A s \in Stages, m \in Message : At(s, m) => \E h \in Message : At(s, h)' /\ h.ev = m.ev

LEMMA ReceivePersists ==
  ASSUME TypeOK, NEW s \in Stages, NEW l \in Lambdas, Receive(s, l)
  PROVE  Persists
<1>1. PICK batch \in SUBSET queue[s] :
        LET received == {[m EXCEPT !.count = @ + 1] : m \in batch} IN
        /\ queue' = [queue EXCEPT ![s] = @ \ batch]
        /\ job' = [job EXCEPT ![s][l] = [batch |-> received, todo |-> received, failed |-> {}]]
  BY DEF Receive
<1>2. job[s][l].batch = {} /\ dlq' = dlq
  BY DEF Receive
<1>3. SUFFICES ASSUME NEW t \in Stages, NEW m \in Message, At(t, m)
               PROVE  \E h \in Message : At(t, h)' /\ h.ev = m.ev
  BY DEF Persists
<1>4. CASE t = s /\ m \in batch
  <2> DEFINE h == [m EXCEPT !.count = @ + 1]
  <2>1. h \in Message /\ h.ev = m.ev
    BY DEF Message
  <2>2. h \in job'[s][l].batch
    BY <1>1, <1>4 DEF TypeOK
  <2> QED
    BY <1>4, <2>1, <2>2 DEF At
<1>5. CASE ~(t = s /\ m \in batch)
  <2>1. m \in queue[t] \cup dlq[t] => m \in queue'[t] \cup dlq'[t]
    BY <1>1, <1>2, <1>5 DEF TypeOK
  <2>2. \A k \in Lambdas : m \in job[t][k].batch => job'[t][k] = job[t][k]
    BY <1>1, <1>2 DEF TypeOK
  <2>3. At(t, m)'
    BY <1>3, <2>1, <2>2 DEF At
  <2> QED
    BY <2>3
<1> QED
  BY <1>4, <1>5

LEMMA HandlePersists ==
  ASSUME TypeOK, NEW s \in Stages, NEW l \in Lambdas, NEW m \in job[s][l].todo,
         Drop(s, l, m) \/ Resolve(s, l, m) \/ Fail(s, l, m)
  PROVE  Persists
<1>1. \A t \in Stages : queue[t] \subseteq queue'[t] /\ dlq'[t] = dlq[t]
  BY DEF Drop, Resolve, Fail, Emit, TypeOK
<1>2. \A t \in Stages, k \in Lambdas : job'[t][k].batch = job[t][k].batch
  <2>1. PICK j \in {Handled(job[s][l], m), Failed(job[s][l], m)} : job' = [job EXCEPT ![s][l] = j]
    BY DEF Drop, Resolve, Fail
  <2>2. job[s][l] \in Job
    BY DEF TypeOK
  <2>3. j.batch = job[s][l].batch
    BY <2>1, <2>2 DEF Handled, Failed, Job
  <2> QED
    BY <2>1, <2>3 DEF TypeOK
<1> QED
  BY <1>1, <1>2 DEF At, Persists

LEMMA OthersPersist ==
  ASSUME TypeOK,
         \/ \E e \in Events : Submit(e)
         \/ \E s \in Stages : \E m \in queue[s] : Park(s, m)
         \/ \E s \in Stages, l \in Lambdas : Crash(s, l)
         \/ UNCHANGED vars
  PROVE  Persists
<1>1. ASSUME NEW e \in Events, Submit(e) PROVE Persists
  <2>1. \A t \in Stages : queue[t] \subseteq queue'[t]
    BY <1>1 DEF Submit, TypeOK
  <2> QED
    BY <1>1, <2>1 DEF Submit, At, Persists
<1>2. ASSUME NEW s \in Stages, NEW m \in queue[s], Park(s, m) PROVE Persists
  <2>1. \A t \in Stages : queue'[t] \cup dlq'[t] = queue[t] \cup dlq[t]
    BY <1>2 DEF Park, TypeOK
  <2> QED
    BY <1>2, <2>1 DEF Park, At, Persists
<1>3. ASSUME NEW s \in Stages, NEW l \in Lambdas, Crash(s, l) PROVE Persists
  <2>1. \A t \in Stages : queue[t] \subseteq queue'[t] /\ dlq'[t] = dlq[t]
    BY <1>3 DEF Crash, TypeOK
  <2>2. job[s][l].batch \subseteq queue'[s]
    BY <1>3 DEF Crash, TypeOK
  <2>3. \A t \in Stages, k \in Lambdas : job'[t][k] = job[t][k] \/ (t = s /\ k = l)
    BY <1>3 DEF Crash, TypeOK
  <2> QED
    BY <2>1, <2>2, <2>3 DEF At, Persists
<1>4. CASE UNCHANGED vars
  BY <1>4 DEF vars, At, Persists
<1> QED
  BY <1>1, <1>2, <1>3, <1>4

LEMMA OnlySubmitSubmits ==
  ASSUME [Next]_vars, ~\E e \in Events : Submit(e)
  PROVE  submitted' = submitted
<1>1. ASSUME NEW s, NEW m, Park(s, m) PROVE submitted' = submitted
  BY <1>1 DEF Park
<1>2. ASSUME NEW s, NEW l, Receive(s, l) \/ EndBatch(s, l) \/ Crash(s, l)
      PROVE  submitted' = submitted
  BY <1>2 DEF Receive, EndBatch, Crash
<1>3. ASSUME NEW s, NEW l, NEW m, Drop(s, l, m) \/ Resolve(s, l, m) \/ Fail(s, l, m)
      PROVE  submitted' = submitted
  BY <1>3 DEF Drop, Resolve, Fail
<1> QED
  BY <1>1, <1>2, <1>3 DEF Next, Deliver, vars

LEMMA SettledGrows ==
  ASSUME [Next]_vars
  PROVE  stored \subseteq stored' /\ filtered \subseteq filtered'
<1>1. ASSUME NEW e \in Events, Submit(e) PROVE UNCHANGED <<stored, filtered>>
  BY <1>1 DEF Submit
<1>2. ASSUME NEW s, NEW m, Park(s, m) PROVE UNCHANGED <<stored, filtered>>
  BY <1>2 DEF Park
<1>3. ASSUME NEW s, NEW l, Receive(s, l) \/ EndBatch(s, l) \/ Crash(s, l)
      PROVE  UNCHANGED <<stored, filtered>>
  BY <1>3 DEF Receive, EndBatch, Crash
<1>4. ASSUME NEW s, NEW l, NEW m, Drop(s, l, m) \/ Resolve(s, l, m) \/ Fail(s, l, m)
      PROVE  stored \subseteq stored' /\ filtered \subseteq filtered'
  BY <1>4 DEF Drop, Resolve, Fail, Emit
<1> QED
  BY <1>1, <1>2, <1>3, <1>4 DEF Next, Deliver, vars

\* Nothing covered is uncovered: when EndBatch deletes a message, its event is covered
\* further on, by a message of a stage whose queue EndBatch does not touch.
LEMMA CoveredStable ==
  ASSUME TypeOK, HandledCovered, [Next]_vars, NEW e, NEW n \in Nat, Covered(e, n)
  PROVE  Covered(e, n)'
<1>1. stored \subseteq stored' /\ filtered \subseteq filtered'
  BY SettledGrows
<1>2. CASE Persists
  BY <1>1, <1>2 DEF Covered, Persists
<1>3. ASSUME NEW s \in Stages, NEW l \in Lambdas, EndBatch(s, l) PROVE Covered(e, n)'
  <2>1. \A t \in Stages \ {s}, m \in Message : At(t, m) => At(t, m)'
    BY <1>3 DEF EndBatch, At, TypeOK
  <2>2. \A m \in Message : At(s, m) => At(s, m)' \/ Covered(m.ev, Rank[s])
    <3>1. PICK kept \in SUBSET job[s][l].batch :
            Keeps(job[s][l], kept) /\ queue' = [queue EXCEPT ![s] = @ \cup kept]
      BY <1>3 DEF EndBatch
    <3>2. job[s][l].todo = {} /\ dlq' = dlq /\ job' = [job EXCEPT ![s][l] = Idle]
      BY <1>3 DEF EndBatch
    <3>3. \A k \in Lambdas \ {l} : job'[s][k] = job[s][k]
      BY <3>2 DEF TypeOK
    <3>4. queue'[s] = queue[s] \cup kept
      BY <3>1 DEF TypeOK
    <3>5. \A m \in job[s][l].batch \ kept : Covered(m.ev, Rank[s])
      BY <3>1, <3>2 DEF Keeps, HandledCovered
    <3> QED
      BY <3>2, <3>3, <3>4, <3>5 DEF At
  <2>3. ASSUME Covered(e, Rank[s]) PROVE Covered(e, Rank[s])'
    <3>1. \A t \in Stages : Rank[t] > Rank[s] => t # s
      BY DEF Rank
    <3> QED
      BY <1>1, <2>1, <2>3, <3>1 DEF Covered
  <2>4. CASE e \in stored \cup filtered
    BY <1>1, <2>4 DEF Covered
  <2>5. ASSUME NEW t \in Stages, NEW m \in Message, Rank[t] > n, At(t, m), m.ev = e
        PROVE  Covered(e, n)'
    <3>1. CASE At(t, m)'
      BY <2>5, <3>1 DEF Covered
    <3>2. CASE ~At(t, m)'
      <4>1. t = s /\ Covered(e, Rank[s])'
        BY <2>1, <2>2, <2>3, <2>5, <3>2
      <4>2. \A u \in Stages : Rank[u] > Rank[s] => Rank[u] > n
        BY <2>5, <4>1 DEF Rank
      <4> QED
        BY <4>1, <4>2 DEF Covered
    <3> QED
      BY <3>1, <3>2
  <2> QED
    BY <2>4, <2>5 DEF Covered
<1> QED
  BY <1>2, <1>3, ReceivePersists, HandlePersists, OthersPersist DEF Next, Deliver

\* What a handled message came to covers its event beyond its stage.
LEMMA EmitCovers ==
  ASSUME TypeOK, NEW s \in Stages, NEW m \in Message, Emit(s, m)
  PROVE  Covered(m.ev, Rank[s])'
<1>1. CASE s = "store"
  BY <1>1 DEF Emit, Covered
<1>2. CASE s # "store"
  <2> DEFINE n == [ev |-> m.ev, trail |-> Append(m.trail, m.count), count |-> 0]
  <2>1. n \in Message
    BY EmittedTyped
  <2>2. NextStage[s] \in Stages /\ Rank[NextStage[s]] > Rank[s]
    BY <1>2 DEF NextStage, Rank
  <2>3. n \in queue'[NextStage[s]]
    BY <1>2, <2>2 DEF Emit, TypeOK
  <2>4. At(NextStage[s], n)' /\ n.ev = m.ev
    BY <2>3 DEF At
  <2> QED
    BY <2>1, <2>2, <2>4 DEF Covered
<1> QED
  BY <1>1, <1>2

\* What handling x does to the bookkeeping of its batch.
LEMMA HandleJob ==
  ASSUME TypeOK, NEW s \in Stages, NEW l \in Lambdas, NEW x \in job[s][l].todo,
         Drop(s, l, x) \/ Resolve(s, l, x) \/ Fail(s, l, x)
  PROVE  /\ \A t \in Stages, k \in Lambdas : ~(t = s /\ k = l) => job'[t][k] = job[t][k]
         /\ job'[s][l].batch = job[s][l].batch
         /\ job'[s][l].todo = job[s][l].todo \ {x}
         /\ job[s][l].failed \subseteq job'[s][l].failed
         /\ x \in job'[s][l].failed \/ Drop(s, l, x) \/ Resolve(s, l, x)
<1>1. job[s][l] \in Job
  BY DEF TypeOK
<1>2. CASE Drop(s, l, x) \/ Resolve(s, l, x)
  <2>1. job' = [job EXCEPT ![s][l] = Handled(job[s][l], x)]
    BY <1>2 DEF Drop, Resolve
  <2>2. /\ Handled(job[s][l], x).batch = job[s][l].batch
        /\ Handled(job[s][l], x).todo = job[s][l].todo \ {x}
        /\ Handled(job[s][l], x).failed = job[s][l].failed
    BY <1>1 DEF Handled, Job
  <2> QED
    BY <1>2, <2>1, <2>2 DEF TypeOK
<1>3. CASE Fail(s, l, x)
  <2>1. job' = [job EXCEPT ![s][l] = Failed(job[s][l], x)]
    BY <1>3 DEF Fail
  <2>2. /\ Failed(job[s][l], x).batch = job[s][l].batch
        /\ Failed(job[s][l], x).todo = job[s][l].todo \ {x}
        /\ Failed(job[s][l], x).failed = job[s][l].failed \cup {x}
    BY <1>1 DEF Failed, Job
  <2> QED
    BY <2>1, <2>2 DEF TypeOK
<1> QED
  BY <1>2, <1>3

LEMMA HandledCoveredStep == TypeOK /\ HandledCovered /\ [Next]_vars => HandledCovered'
<1> SUFFICES ASSUME TypeOK, HandledCovered, [Next]_vars,
                    NEW t \in Stages, NEW k \in Lambdas,
                    NEW m \in (job[t][k].batch \ (job[t][k].todo \cup job[t][k].failed))'
             PROVE  Covered(m.ev, Rank[t])'
  BY DEF HandledCovered
<1>1. CASE job'[t][k] = job[t][k]
  <2>1. Covered(m.ev, Rank[t]) /\ Rank[t] \in Nat
    BY <1>1 DEF HandledCovered, Rank
  <2> QED
    BY <2>1, CoveredStable
<1>2. ASSUME NEW s \in Stages, NEW l \in Lambdas, Receive(s, l), ~(t = s /\ k = l)
      PROVE  job'[t][k] = job[t][k]
  BY <1>2 DEF Receive, TypeOK
<1>3. ASSUME NEW s \in Stages, NEW l \in Lambdas, Receive(s, l), t = s, k = l PROVE FALSE
  BY <1>3 DEF Receive, TypeOK
<1>4. ASSUME NEW s \in Stages, NEW l \in Lambdas, EndBatch(s, l) \/ Crash(s, l)
      PROVE  job'[t][k] = job[t][k]
  BY <1>4 DEF EndBatch, Crash, Idle, TypeOK
<1>5. ASSUME NEW s \in Stages, NEW l \in Lambdas, NEW x \in job[s][l].todo,
             Drop(s, l, x) \/ Resolve(s, l, x) \/ Fail(s, l, x)
      PROVE  Covered(m.ev, Rank[t])'
  <2>1. x \in Message
    BY DEF TypeOK, Job
  <2>2. CASE ~(t = s /\ k = l)
    BY <1>1, <1>5, <2>2, HandleJob
  <2>3. CASE t = s /\ k = l /\ m # x
    <3>1. m \in job[t][k].batch \ (job[t][k].todo \cup job[t][k].failed)
      BY <1>5, <2>3, HandleJob
    <3>2. Covered(m.ev, Rank[t]) /\ Rank[t] \in Nat
      BY <3>1 DEF HandledCovered, Rank
    <3> QED
      BY <3>2, CoveredStable
  <2>4. CASE t = s /\ k = l /\ m = x
    <3>1. Drop(s, l, x) \/ Resolve(s, l, x)
      BY <1>5, <2>4, HandleJob
    <3>2. CASE Drop(s, l, x)
      BY <2>4, <3>2 DEF Drop, Covered
    <3>3. CASE Resolve(s, l, x)
      BY <2>1, <2>4, <3>3, EmitCovers DEF Resolve
    <3> QED
      BY <3>1, <3>2, <3>3
  <2> QED
    BY <2>2, <2>3, <2>4
<1>6. CASE (\E e \in Events : Submit(e)) \/ (\E s \in Stages : \E x \in queue[s] : Park(s, x)) \/ UNCHANGED vars
  BY <1>1, <1>6 DEF Submit, Park, vars
<1> QED
  BY <1>1, <1>2, <1>3, <1>4, <1>5, <1>6 DEF Next, Deliver

LEMMA SubmittedCoveredStep ==
  TypeOK /\ HandledCovered /\ SubmittedCovered /\ [Next]_vars => SubmittedCovered'
<1> SUFFICES ASSUME TypeOK, HandledCovered, SubmittedCovered, [Next]_vars, NEW e \in submitted'
             PROVE  Covered(e, 0)'
  BY DEF SubmittedCovered
<1>1. CASE e \in submitted
  BY <1>1, CoveredStable DEF SubmittedCovered
<1>2. CASE e \notin submitted
  <2> DEFINE m == [ev |-> e, trail |-> <<>>, count |-> 0]
  <2>1. e \in Events /\ Submit(e)
    <3>1. PICK f \in Events : Submit(f)
      BY <1>2, OnlySubmitSubmits
    <3> QED
      BY <1>2, <3>1 DEF Submit
  <2>2. m \in Message /\ Entry[e] \in Stages
    BY <2>1 DEF Message
  <2>3. At(Entry[e], m)'
    BY <2>1, <2>2 DEF Submit, At, TypeOK
  <2> QED
    BY <2>2, <2>3 DEF Covered, Rank
<1> QED
  BY <1>1, <1>2

\* Where the messages of the next state come from: an earlier message of the same event
\* there, a submission, or a message that the stage before let pass.
Descends(s, m) ==
  \/ \E h \in Message : At(s, h) /\ h.ev = m.ev
  \/ m.ev \in submitted' /\ s = Entry[m.ev]
  \/ \E t \in Stages \ {"store"}, h \in Message :
       At(t, h) /\ h.ev = m.ev /\ Emits(t, h.ev) /\ s = NextStage[t]

LEMMA ReachedNext ==
  ASSUME NEW e \in Events, NEW t \in Stages \ {"store"}, Reached(e, t), Emits(t, e)
  PROVE  Reached(e, NextStage[t])
  BY DEF Reached, NextStage, Rank, Ahead

LEMMA DescendsReached ==
  ASSUME TypeOK, MessagesReached, [Next]_vars,
         \A s \in Stages, m \in Message : At(s, m)' => Descends(s, m),
         NEW s \in Stages, NEW m \in Message, At(s, m)'
  PROVE  m.ev \in submitted' /\ Reached(m.ev, s)
<1>1. m.ev \in Events
  BY DEF Message
<1>2. submitted \subseteq submitted'
  BY OnlySubmitSubmits DEF Submit
<1>3. CASE \E h \in Message : At(s, h) /\ h.ev = m.ev
  BY <1>2, <1>3 DEF MessagesReached
<1>4. CASE m.ev \in submitted' /\ s = Entry[m.ev]
  BY <1>1, <1>4 DEF Reached, Ahead, Rank
<1>5. CASE \E t \in Stages \ {"store"}, h \in Message :
             At(t, h) /\ h.ev = m.ev /\ Emits(t, h.ev) /\ s = NextStage[t]
  BY <1>1, <1>2, <1>5, ReachedNext DEF MessagesReached
<1> QED
  BY <1>3, <1>4, <1>5 DEF Descends

LEMMA StepDescends ==
  ASSUME TypeOK, MessagesReached, [Next]_vars, NEW t \in Stages, NEW m \in Message, At(t, m)'
  PROVE  Descends(t, m)
<1>1. CASE At(t, m)
  BY <1>1 DEF Descends
<1>2. ASSUME NEW e \in Events, Submit(e), ~At(t, m) PROVE Descends(t, m)
  <2>1. t = Entry[e] /\ m.ev = e
    BY <1>2 DEF Submit, At, TypeOK
  <2> QED
    BY <1>2, <2>1 DEF Descends, Submit
<1>3. ASSUME NEW s \in Stages, NEW x \in queue[s], Park(s, x) PROVE At(t, m)
  BY <1>3 DEF Park, At, TypeOK
<1>4. ASSUME NEW s \in Stages, NEW l \in Lambdas, EndBatch(s, l) \/ Crash(s, l) PROVE At(t, m)
  <2>1. \A u \in Stages : queue'[u] \subseteq queue[u] \cup IF u = s THEN job[s][l].batch ELSE {}
    BY <1>4 DEF EndBatch, Crash, TypeOK
  <2>2. \A u \in Stages, k \in Lambdas : job'[u][k].batch \subseteq job[u][k].batch
    BY <1>4 DEF EndBatch, Crash, Idle, TypeOK
  <2>3. dlq' = dlq
    BY <1>4 DEF EndBatch, Crash
  <2> QED
    BY <2>1, <2>2, <2>3 DEF At
<1>5. ASSUME NEW s \in Stages, NEW l \in Lambdas, Receive(s, l), ~At(t, m) PROVE Descends(t, m)
  <2>1. PICK batch \in SUBSET queue[s] :
          LET received == {[h EXCEPT !.count = @ + 1] : h \in batch} IN
          /\ queue' = [queue EXCEPT ![s] = @ \ batch]
          /\ job' = [job EXCEPT ![s][l] = [batch |-> received, todo |-> received, failed |-> {}]]
    BY <1>5 DEF Receive
  <2>2. dlq' = dlq /\ \A u \in Stages : queue'[u] \subseteq queue[u]
    BY <1>5, <2>1 DEF Receive, TypeOK
  <2>3. PICK k \in Lambdas : m \in job'[t][k].batch
    BY <1>5, <2>2 DEF At
  <2>4. t = s /\ k = l
    BY <1>5, <2>1, <2>3 DEF At, TypeOK
  <2>5. PICK h \in batch : m = [h EXCEPT !.count = @ + 1]
    BY <2>1, <2>3, <2>4 DEF TypeOK
  <2>6. h \in Message /\ h.ev = m.ev /\ At(s, h)
    BY <2>5 DEF TypeOK, Message, At
  <2> QED
    BY <2>4, <2>6 DEF Descends
<1>6. ASSUME NEW s \in Stages, NEW l \in Lambdas, NEW x \in job[s][l].todo,
             Drop(s, l, x) \/ Resolve(s, l, x) \/ Fail(s, l, x), ~At(t, m)
      PROVE  Descends(t, m)
  <2>1. x \in Message /\ At(s, x)
    BY DEF TypeOK, Job, MessagesReached, At
  <2>2. dlq' = dlq /\ \A u \in Stages, k \in Lambdas : job'[u][k].batch = job[u][k].batch
    BY <1>6, HandleJob DEF Drop, Resolve, Fail
  <2>3. m \in queue'[t] \ queue[t]
    BY <1>6, <2>2 DEF At
  <2>4. Emits(s, x.ev) /\ Emit(s, x)
    BY <1>6, <2>3 DEF Drop, Resolve, Fail
  <2>5. s # "store" /\ t = NextStage[s] /\ m.ev = x.ev
    BY <2>3, <2>4 DEF Emit, NextStage, TypeOK
  <2> QED
    BY <2>1, <2>4, <2>5 DEF Descends
<1>7. CASE UNCHANGED vars
  BY <1>1, <1>7 DEF vars, At
<1> QED
  BY <1>1, <1>2, <1>3, <1>4, <1>5, <1>6, <1>7 DEF Next, Deliver

LEMMA MessagesReachedStep == TypeOK /\ MessagesReached /\ [Next]_vars => MessagesReached'
<1> SUFFICES ASSUME TypeOK, MessagesReached, [Next]_vars PROVE MessagesReached'
  OBVIOUS
<1>1. \A s \in Stages, m \in Message : At(s, m)' => m.ev \in submitted' /\ Reached(m.ev, s)
  BY StepDescends, DescendsReached
<1>2. ASSUME NEW t \in Stages, NEW k \in Lambdas PROVE job'[t][k].todo \subseteq job'[t][k].batch
  <2>1. CASE job'[t][k] = job[t][k]
    BY <2>1 DEF MessagesReached
  <2>2. ASSUME NEW s \in Stages, NEW l \in Lambdas,
               Receive(s, l) \/ EndBatch(s, l) \/ Crash(s, l)
        PROVE  job'[t][k] = job[t][k] \/ job'[t][k].todo \subseteq job'[t][k].batch
    BY <2>2 DEF Receive, EndBatch, Crash, Idle, TypeOK
  <2>3. ASSUME NEW s \in Stages, NEW l \in Lambdas, NEW x \in job[s][l].todo,
               Drop(s, l, x) \/ Resolve(s, l, x) \/ Fail(s, l, x)
        PROVE  job'[t][k] = job[t][k] \/ job'[t][k].todo \subseteq job'[t][k].batch
    BY <2>3, HandleJob DEF MessagesReached
  <2>4. CASE (\E e \in Events : Submit(e)) \/ (\E s \in Stages : \E x \in queue[s] : Park(s, x))
             \/ UNCHANGED vars
    BY <2>1, <2>4 DEF Submit, Park, vars
  <2> QED
    BY <2>1, <2>2, <2>3, <2>4 DEF Next, Deliver
<1> QED
  BY <1>1, <1>2 DEF MessagesReached, Reached

\* What a step does to one event is an action of the ledger.
LEMMA LedgerStep ==
  ASSUME TypeOK, MessagesReached, [Next]_vars
  PROVE  [Ledger!Next]_<<submitted, stored, filtered, Parked>>
<1> USE DEF Ledger!Next, Ledger!Submit, Ledger!Store, Ledger!Filter, Ledger!Park
<1>1. ASSUME UNCHANGED dlq PROVE Parked' = Parked
  BY <1>1 DEF Parked
<1>2. ASSUME NEW e \in Events, Submit(e) PROVE Ledger!Submit(e)
  BY <1>1, <1>2 DEF Submit
<1>3. ASSUME NEW s \in Stages, NEW m \in queue[s], Park(s, m) PROVE Ledger!Park(m.ev)
  <2>1. m \in Message /\ m.ev \in submitted
    BY DEF TypeOK, At, MessagesReached
  <2>2. Parked' = Parked \cup {m.ev}
    BY <1>3 DEF Park, Parked, TypeOK
  <2> QED
    BY <1>3, <2>1, <2>2 DEF Park
<1>4. ASSUME NEW s \in Stages, NEW l \in Lambdas, Receive(s, l) \/ EndBatch(s, l) \/ Crash(s, l)
      PROVE  UNCHANGED <<submitted, stored, filtered, Parked>>
  BY <1>1, <1>4 DEF Receive, EndBatch, Crash
<1>5. ASSUME NEW s \in Stages, NEW l \in Lambdas, NEW m \in job[s][l].todo,
             Drop(s, l, m) \/ Resolve(s, l, m) \/ Fail(s, l, m)
      PROVE  \/ UNCHANGED <<submitted, stored, filtered, Parked>>
             \/ \E e \in Events : Ledger!Store(e) \/ Ledger!Filter(e)
  <2>1. m \in Message /\ m.ev \in Events /\ m.ev \in submitted /\ Reached(m.ev, s)
    BY DEF TypeOK, Job, Message, At, MessagesReached
  <2>2. submitted' = submitted /\ Parked' = Parked
    BY <1>1, <1>5 DEF Drop, Resolve, Fail
  <2>3. CASE Drop(s, l, m)
    <3>1. m.ev \in Ignored
      BY <2>1, <2>3 DEF Drop, Drops, Ignored, Reached, Ahead
    <3>2. filtered' = filtered \cup {m.ev} /\ stored' = stored
      BY <2>3 DEF Drop
    <3> QED
      BY <2>1, <2>2, <3>1, <3>2
  <2>4. CASE Emits(s, m.ev) /\ Emit(s, m) /\ filtered' = filtered /\ s = "store"
    <3>1. m.ev \in Billable
      BY <2>1, <2>4 DEF Emits, Drops, Billable, Ignored, Reached, Ahead, Rank
    <3>2. stored' = stored \cup {m.ev}
      BY <2>4 DEF Emit
    <3> QED
      BY <2>1, <2>2, <2>4, <3>1, <3>2
  <2>5. CASE UNCHANGED <<stored, filtered>>
    BY <2>2, <2>5
  <2> QED
    BY <1>5, <2>3, <2>4, <2>5 DEF Resolve, Fail, Emit
<1>6. CASE UNCHANGED vars
  BY <1>1, <1>6 DEF vars
<1>7. \A s \in Stages : \A m \in queue[s] : m.ev \in Events
  BY DEF TypeOK, Message
<1> QED
  BY <1>2, <1>3, <1>4, <1>5, <1>6, <1>7 DEF Next, Deliver

LEMMA FatesStep == TypeOK /\ MessagesReached /\ Fates /\ [Next]_vars => Fates'
<1> SUFFICES ASSUME TypeOK, MessagesReached, Fates, [Next]_vars PROVE Fates'
  OBVIOUS
<1>1. [Ledger!Next]_<<submitted, stored, filtered, Parked>>
  BY LedgerStep
<1> QED
  BY <1>1 DEF Fates, RightFate, Ledger!Next, Ledger!Submit, Ledger!Store, Ledger!Filter, Ledger!Park

LEMMA Inductive == Spec => []IInv
<1>1. Init => IInv
  <2> SUFFICES ASSUME Init PROVE IInv
    OBVIOUS
  <2>1. \A s \in Stages, m \in Message : ~At(s, m)
    BY DEF Init, At, Idle
  <2>2. \A s \in Stages, l \in Lambdas : job[s][l].todo = {} /\ job[s][l].batch = {}
    BY DEF Init, Idle
  <2> QED
    BY <2>1, <2>2, TypeInit
    DEF Init, IInv, HandledCovered, SubmittedCovered, MessagesReached, Fates, RightFate
<1>2. IInv /\ [Next]_vars => IInv'
  BY TypeStep, HandledCoveredStep, SubmittedCoveredStep, MessagesReachedStep, FatesStep DEF IInv
<1> QED
  BY <1>1, <1>2, PTL DEF Spec

--------------------------------------------------------------------------------
\* Every variable keeps its type.
THEOREM Typed == Spec => []TypeOK
<1> QED
  BY Inductive, PTL DEF IInv

\* Failures, crashes, duplicates and lost deletions in any number, at any stage: every
\* submitted event is stored, filtered out, on its way or in a dead-letter queue.
THEOREM NothingLost == Spec => []NoEventLost
<1>1. IInv => NoEventLost
  <2> SUFFICES ASSUME IInv, NEW e \in submitted, e \notin stored \cup filtered
               PROVE  e \in InFlight \cup Parked
    BY DEF NoEventLost
  <2>1. PICK s \in Stages, m \in Message : At(s, m) /\ m.ev = e
    BY DEF IInv, SubmittedCovered, Covered
  <2>2. CASE m \in dlq[s]
    BY <2>1, <2>2 DEF Parked
  <2>3. CASE m \in Moving(s)
    BY <2>1, <2>3 DEF InFlight
  <2> QED
    BY <2>1, <2>2, <2>3 DEF At, Moving
<1> QED
  BY <1>1, Inductive, PTL

\* Only events that every stage from their entry on accepts are ever stored, and only
\* those the filter should drop are dropped.
THEOREM FateIsRight == Spec => []RightFate
<1>1. IInv => RightFate
  BY DEF IInv, Fates
<1> QED
  BY <1>1, Inductive, PTL

\* The pipeline implements the ledger: each of its steps submits, stores, filters or
\* parks one event, or changes nothing a producer can see (safety part of KeepsLedger).
THEOREM ImplementsLedger == Spec => Ledger!Init /\ [][Ledger!Next]_<<submitted, stored, filtered, Parked>>
<1>1. Init => Ledger!Init
  BY DEF Init, Ledger!Init, Parked
<1>2. IInv /\ [Next]_vars => [Ledger!Next]_<<submitted, stored, filtered, Parked>>
  BY LedgerStep DEF IInv
<1> QED
  BY <1>1, <1>2, Inductive, PTL DEF Spec
================================================================================
