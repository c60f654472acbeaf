---------------------------- MODULE MCRawInvoices ----------------------------
(***************************************************************************)
(* A pdf; a csv with an attachment whose name ends otherwise (.PDF, say);  *)
(* two csvs of the same name, of which the later replaces the earlier.     *)
(***************************************************************************)
EXTENDS RawInvoices

CONSTANTS
  pdfMail, csvMail, twinMail,          \* e-mails
  pdf, csv, odd, wrong, right,         \* attachments
  pdfFile, csvFile, oddFile, sharedFile

MCEmailOf == [d \in Docs |-> CASE d = pdf            -> pdfMail
                              [] d \in {csv, odd}     -> csvMail
                              [] d \in {wrong, right} -> twinMail]
MCFileOf == [d \in Docs |-> CASE d = pdf -> pdfFile
                             [] d = csv -> csvFile
                             [] d = odd -> oddFile
                             [] OTHER   -> sharedFile]
MCSent == {{pdfMail}, {csvMail}, {twinMail}}
MCMaxReceive == [queue \in {"process-email"} \cup Queues |->
  IF queue \in {"process-email", "csv-extract"} THEN 2 ELSE 1]
===============================================================================
