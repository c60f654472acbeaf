---------------------------- MODULE MCInvoiceStore ----------------------------
(***************************************************************************)
(* Line items that all have the same month, vendor and event: the two of   *)
(* one invoice (pair), and those of two that supersede each other.         *)
(***************************************************************************)
EXTENDS InvoiceStore

CONSTANTS pair, first, second, line1, line2, early, late, month

MCInvoiceOf == [l \in Lines |-> CASE l \in {line1, line2} -> pair
                                 [] l = early -> first
                                 [] l = late  -> second]
MCMaxReceive == [i \in Invoices |-> IF i = second THEN 1 ELSE 2]
MCSingleReceive == [i \in Invoices |-> 1]
MCGroup == [l \in Lines |-> month]
===============================================================================
