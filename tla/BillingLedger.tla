----------------------------- MODULE BillingLedger -----------------------------
(***************************************************************************)
(* What store-standardised-invoices promises the invoice views, with no    *)
(* queues, retries or requests: of each month, vendor and event the line   *)
(* item stored last is billed and stays billed until a newer one is; what  *)
(* it supersedes is kept in the archive, and never billed again.           *)
(***************************************************************************)
CONSTANTS
  Versions,   \* line items, one for each time one is stored
  GroupOf     \* month, vendor and event of each

VARIABLES
  live,       \* what the views read
  archived,
  newest      \* of each month, vendor and event, the one stored last

ledgerVars == <<live, archived, newest>>

Init == live = {} /\ archived = {} /\ newest = {}

Bill(v) ==
  /\ v \notin live \cup archived
  /\ live' = live \cup {v}
  /\ newest' = {n \in newest : GroupOf[n] # GroupOf[v]} \cup {v}
  /\ UNCHANGED archived

\* For a while a superseded line item may be in both places, or be billed with the newest.
Archive(v) ==
  /\ v \in live \ newest
  /\ archived' = archived \cup {v}
  /\ UNCHANGED <<live, newest>>

Retire(v) ==
  /\ v \in archived \ newest
  /\ live' = live \ {v}
  /\ UNCHANGED <<archived, newest>>

Next == \E v \in Versions : Bill(v) \/ Archive(v) \/ Retire(v)

Spec == Init /\ [][Next]_ledgerVars
================================================================================
