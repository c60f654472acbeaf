------------------------------ MODULE EventLedger ------------------------------
(***************************************************************************)
(* What the event pipeline promises its producers, with no queues, batches *)
(* or retries: every event submitted is stored as billable data, filtered  *)
(* out, or parked in a dead-letter queue for somebody to look at.          *)
(***************************************************************************)
CONSTANTS
  Events,
  Billable,   \* events that should end up in the store
  Ignored     \* events that are none of the billing system's business

VARIABLES submitted, stored, filtered, parked

ledgerVars == <<submitted, stored, filtered, parked>>

Init == submitted = {} /\ stored = {} /\ filtered = {} /\ parked = {}

Settled == stored \cup filtered \cup parked

Submit(e) ==
  /\ submitted' = submitted \cup {e}
  /\ UNCHANGED <<stored, filtered, parked>>

Store(e) ==
  /\ e \in submitted \cap Billable
  /\ stored' = stored \cup {e}
  /\ UNCHANGED <<submitted, filtered, parked>>

Filter(e) ==
  /\ e \in submitted \cap Ignored
  /\ filtered' = filtered \cup {e}
  /\ UNCHANGED <<submitted, stored, parked>>

\* A copy of any event may be parked, even of one already stored or filtered.
Park(e) ==
  /\ e \in submitted
  /\ parked' = parked \cup {e}
  /\ UNCHANGED <<submitted, stored, filtered>>

Settle(e) == e \notin Settled /\ (Store(e) \/ Filter(e) \/ Park(e))

Next == \E e \in Events : Submit(e) \/ Store(e) \/ Filter(e) \/ Park(e)

Spec == Init /\ [][Next]_ledgerVars /\ WF_ledgerVars(\E e \in Events : Settle(e))
================================================================================
