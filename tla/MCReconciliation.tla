--------------------------- MODULE MCReconciliation ---------------------------
(***************************************************************************)
(* Two services of one contract, one of which turns from monthly to        *)
(* quarterly or back, and a quarterly one of another contract, used in two *)
(* quarters of different years.                                            *)
(***************************************************************************)
EXTENDS Reconciliation, TLC

CONSTANTS turning, monthly, byQuarter, \* services
          c1, c2,                     \* contracts
          low, high                   \* unit prices

\* uuids differ in nothing but being different
MCSymmetry == Permutations(Ids)

MCContractList == <<c1, c2>>
MCContractOf == [s \in Services |-> IF s = byQuarter THEN c2 ELSE c1]

At(s, y, m) == [service |-> s, year |-> y, month |-> m]

MCKeys == {At(turning, 2005, 3), At(monthly, 2005, 1),
           At(byQuarter, 2004, 12), At(byQuarter, 2005, 2)}
MCRates == [k \in Keys |->
  IF k.year = 2004 THEN NoRate ELSE IF k.service = monthly THEN 0 ELSE 100]
\* Prices in units of 10,000 pounds, written without commas or with as many as are due
On(y, m, d) == [year |-> y, month |-> m, day |-> d]
For(s, u, n) ==
  [matches |-> {s}, unitPrice |-> u, amount |-> [value |-> n, commas |-> 0], quantified |-> TRUE]
WithCommas(s, n) == [For(s, low, n) EXCEPT !.amount.commas = 2]
Empty(s) == [For(s, low, 0) EXCEPT !.amount = Illegible, !.quantified = FALSE]

MCRowsOf == [csv |-> <<turning>>, pdf |-> <<byQuarter, monthly>>]
MCCsvInvoices ==
  {[vendor |-> "csv", start |-> On(2005, 3, 1), end |-> On(2005, 3, 31),
    lines |-> {For(turning, low, 51), For(turning, high, 101)}],
   [vendor |-> "csv", start |-> On(2005, 1, 1), end |-> On(2005, 3, 31),
    lines |-> {For(turning, low, 100)}]}
MCPdfInvoices ==
  {[vendor |-> "pdf", received |-> On(2004, 12, 15), lines |-> {For(byQuarter, low, 99)}],
   [vendor |-> "pdf", received |-> On(2005, 2, 20),
    lines |-> {For(monthly, low, 0), WithCommas(byQuarter, 101)}],
   [vendor |-> "pdf", received |-> On(2005, 3, 1), lines |-> {For(monthly, low, 1), Empty(byQuarter)}]}
===============================================================================
