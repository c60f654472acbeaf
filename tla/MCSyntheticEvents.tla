--------------------------- MODULE MCSyntheticEvents ---------------------------
(***************************************************************************)
(* Two definitions from the November of one year to the January of the     *)
(* next: a fixed monthly fee in December only, and the shortfall of a      *)
(* quarterly minimum, from within a quarter on, whose genuine events are   *)
(* invoiced by the quarter, at one or two unit prices, and whose shortfall *)
(* events by the month.                                                    *)
(***************************************************************************)
EXTENDS SyntheticEvents, TLC

CONSTANTS fee, minimum, feeEvent, checkEvent, shortfallEvent,
          low, high \* unit prices

November == 12 + 10

MCConfig ==
  (fee :> [event |-> feeEvent, shortfallEvent |-> feeEvent, shortfall |-> FALSE,
           isQuarterly |-> FALSE, quantity |-> 2, start |-> November + 1, end |-> November + 1])
  @@ (minimum :> [event |-> checkEvent, shortfallEvent |-> shortfallEvent, shortfall |-> TRUE,
                  isQuarterly |-> TRUE, quantity |-> 2, start |-> November, end |-> November + 12])

\* Unit prices differ in nothing but being different.
MCSymmetry == Permutations({low, high})

MCInvoices ==
  {[name |-> checkEvent, unitPrice |-> u,
    period |-> [isQuarterly |-> TRUE, year |-> 1, month |-> 10]] : u \in {low, high}}
================================================================================
