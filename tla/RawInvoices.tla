------------------------------ MODULE RawInvoices ------------------------------
(***************************************************************************)
(* From the e-mail of a vendor to a stored invoice: process-email puts the *)
(* attachments into the raw bucket, whose notifications start csv-extract, *)
(* or pdf-extract, Textract, store-raw-invoice-textract-data and           *)
(* pdf-standardisation; store-standardised-invoices (in detail in          *)
(* InvoiceStore) stores the line items and moves the raw invoice away.     *)
(* Every move of an object is a put of another, and notifies again.        *)
(***************************************************************************)
EXTENDS Integers, FiniteSets

CONSTANTS
  Emails,
  Docs,        \* attachments of type pdf or csv
  NoDoc,
  EmailOf,     \* the e-mail of each
  Files,       \* vendor and name, the key without its first folder
  FileOf,      \* where process-email puts each attachment
  Pdfs, Csvs,  \* the files that end with .pdf and with .csv
  Parses,      \* attachments in which the standardisation finds what it needs
  Matches,     \* attachments with a line item of a configured service
  Sent,        \* which e-mails may arrive in one run
  MaxReceive   \* maxReceiveCount of process-email's queue and of the five others (3)

Queues == {"csv-extract", "pdf-extract", "textract-data", "pdf-standardisation",
           "invoice-storage"}

ASSUME RawInvoicesAssumption ==
  /\ EmailOf \in [Docs -> Emails]
  /\ FileOf \in [Docs -> Files]
  /\ Pdfs \subseteq Files /\ Csvs \subseteq Files
  /\ Parses \subseteq Docs /\ Matches \subseteq Docs /\ NoDoc \notin Docs
  /\ Sent \subseteq SUBSET Emails
  /\ MaxReceive \in [{"process-email"} \cup Queues -> Nat \ {0}]

VARIABLES
  mail,      \* what has become of each e-mail
  delivered, \* how often process-email failed on it
  stored,    \* attachments its present delivery has put
  raw,       \* what the raw bucket holds, by folder and file
  results,   \* what the textract data bucket holds, by file
  jobs,      \* Textract jobs under way
  messages,  \* messages of the five queues
  billed,    \* attachments whose line items were stored
  ignored,   \* files whose failures store-raw-invoice-textract-data returned in vain
  dead       \* files in vendors' folders that dead letters are about

mailVars   == <<mail, delivered, stored>>
bucketVars == <<raw, results>>
vars == <<mailVars, bucketVars, jobs, messages, billed, ignored, dead>>

MailStates == {"unsent", "waiting", "accepted", "dead"}
Folders == {"vendor", "failed", "successful"}
Steps   == {"queued", "copy", "delete"}

\* Messages of the same content and count that are under way at once are one.
\* doc: what Textract found (NoDoc if its job failed), or what was standardised.
Message == [to : Queues, folder : Folders, file : Files, doc : Docs \cup {NoDoc},
            tries : Nat, step : Steps]
Job     == [folder : Folders, file : Files, doc : Docs]

DocsOf(e) == {d \in Docs : EmailOf[d] = e}

Send(to, folder, file, doc) ==
  {[to |-> to, folder |-> folder, file |-> file, doc |-> doc, tries |-> 0, step |-> "queued"]}

\* The notification of an object put into the raw bucket: by suffix, whatever its folder.
MutCreated(folder, file) ==
  IF file \in Pdfs THEN Send("pdf-extract", folder, file, NoDoc) ELSE {}
Created(folder, file) ==
  CASE file \in Pdfs -> Send("pdf-extract", folder, file, NoDoc)
    [] file \in Csvs -> Send("csv-extract", folder, file, NoDoc)
    [] OTHER -> {}

Init ==
  /\ \E sent \in Sent : mail = [e \in Emails |-> IF e \in sent THEN "waiting" ELSE "unsent"]
  /\ delivered = [e \in Emails |-> 0]
  /\ stored = [e \in Emails |-> {}]
  /\ raw = [folder \in Folders |-> [file \in Files |-> NoDoc]]
  /\ results = [file \in Files |-> NoDoc]
  /\ jobs = {} /\ messages = {} /\ billed = {} /\ ignored = {} /\ dead = {}

--------------------------------------------------------------------------------
\* process-email starts all puts at once; each replaces what had that name before.
StoreAttachment(d) ==
  /\ mail[EmailOf[d]] = "waiting"
  /\ d \notin stored[EmailOf[d]]
  /\ stored' = [stored EXCEPT ![EmailOf[d]] = @ \cup {d}]
  /\ raw' = [raw EXCEPT !["vendor"][FileOf[d]] = d]
  /\ messages' = messages \cup Created("vendor", FileOf[d])
  /\ UNCHANGED <<mail, delivered, results, jobs, billed, ignored, dead>>

AllStored(e) == stored[e] = DocsOf(e)

AcceptEmail(e) ==
  /\ mail[e] = "waiting"
  /\ AllStored(e)
  /\ mail' = [mail EXCEPT ![e] = "accepted"]
  /\ UNCHANGED <<delivered, stored, bucketVars, jobs, messages, billed, ignored, dead>>

MutUndeliverable(e) == delivered[e] + 1 > MaxReceive["process-email"]
Undeliverable(e) == delivered[e] + 1 >= MaxReceive["process-email"]

\* A put is rejected, perhaps after it took effect, or the invocation dies.
FailEmail(e) ==
  /\ mail[e] = "waiting"
  /\ stored' = [stored EXCEPT ![e] = {}]
  /\ delivered' = [delivered EXCEPT ![e] = @ + 1]
  /\ mail' = IF Undeliverable(e) THEN [mail EXCEPT ![e] = "dead"] ELSE mail
  /\ UNCHANGED <<bucketVars, jobs, messages, billed, ignored, dead>>

--------------------------------------------------------------------------------
At(m, queue, step) == m \in messages /\ m.to = queue /\ m.step = step

AtStep(m, step) == [m EXCEPT !.step = step]

\* The handler of m comes to its next step, and has sent new messages meanwhile.
Proceed(m, step, sent) ==
  messages' = (messages \ {m}) \cup {AtStep(m, step)} \cup sent

Exhausted(m) == m.tries + 1 >= MaxReceive[m.to]

\* Dead letters about moved objects are not told apart.
Letter(m) == IF m.folder = "vendor" THEN {m.file} ELSE {}

\* The queue gets m back, or parks it.
Return(m, sent) ==
  IF Exhausted(m)
    THEN /\ messages' = (messages \ {m}) \cup sent
         /\ dead' = dead \cup Letter(m)
    ELSE /\ messages' = (messages \ {m})
                          \cup {[AtStep(m, "queued") EXCEPT !.tries = @ + 1]} \cup sent
         /\ UNCHANGED dead

\* The handler is through with m, which is deleted; or the deletion is lost.
Finish(m, sent) ==
  \/ messages' = (messages \ {m}) \cup sent /\ UNCHANGED dead
  \/ Return(m, sent)

\* The handler reports m, throws or dies.
Fail(m) ==
  /\ m \in messages
  /\ Return(m, {})
  /\ UNCHANGED <<mailVars, bucketVars, jobs, billed, ignored>>

\* No vendor is called like a folder of moved invoices: no configuration, no line items.
ExtractCsv(m) ==
  /\ At(m, "csv-extract", "queued")
  /\ m.folder = "vendor"
  /\ raw["vendor"][m.file] \in Parses \cap Matches
  /\ Finish(m, Send("invoice-storage", "vendor", m.file, raw["vendor"][m.file]))
  /\ UNCHANGED <<mailVars, bucketVars, jobs, billed, ignored>>

StartAnalysis(m) ==
  /\ At(m, "pdf-extract", "queued")
  /\ raw[m.folder][m.file] # NoDoc
  /\ jobs' = jobs \cup {[folder |-> m.folder, file |-> m.file, doc |-> raw[m.folder][m.file]]}
  /\ Finish(m, {})
  /\ UNCHANGED <<mailVars, bucketVars, billed, ignored>>

\* Textract notifies the topic that the queue subscribes to.
FinishJob(j) ==
  /\ j \in jobs
  /\ jobs' = jobs \ {j}
  /\ \E found \in {j.doc, NoDoc} :
       messages' = messages \cup Send("textract-data", j.folder, j.file, found)
  /\ UNCHANGED <<mailVars, bucketVars, billed, ignored, dead>>

\* Do not reprocess documents moved to the failure or success folders.
MutMoved(m) == m.folder = "successful"
Moved(m) == m.folder \in {"failed", "successful"}

SkipMoved(m) ==
  /\ At(m, "textract-data", "queued")
  /\ Moved(m)
  /\ Finish(m, {})
  /\ UNCHANGED <<mailVars, bucketVars, jobs, billed, ignored>>

PutResults(m) == results' = [results EXCEPT ![m.file] = m.doc]

StoreResults(m) ==
  /\ At(m, "textract-data", "queued")
  /\ ~Moved(m)
  /\ m.doc # NoDoc
  /\ PutResults(m)
  /\ Finish(m, Send("pdf-standardisation", m.folder, m.file, NoDoc))
  /\ UNCHANGED <<mailVars, raw, jobs, billed, ignored>>

\* The job failed, its result cannot be fetched, or the put of it is rejected, perhaps
\* after it took effect: handleTextractFailure moves the raw invoice.
GiveUp(m) ==
  /\ At(m, "textract-data", "queued")
  /\ ~Moved(m)
  /\ \/ Proceed(m, "copy", {}) /\ UNCHANGED results
     \/ /\ m.doc # NoDoc
        /\ PutResults(m)
        /\ Proceed(m, "copy", Send("pdf-standardisation", m.folder, m.file, NoDoc))
  /\ UNCHANGED <<mailVars, raw, jobs, billed, ignored, dead>>

\* The move is rejected, or there is nothing to move.  The failure is returned, but the
\* event source does not report batch item failures: the message is deleted.
Ignore(m) ==
  /\ At(m, "textract-data", "copy") \/ At(m, "textract-data", "delete")
  /\ ignored' = ignored \cup {m.file}
  /\ Finish(m, {})
  /\ UNCHANGED <<mailVars, bucketVars, jobs, billed>>

StandardisePdf(m) ==
  /\ At(m, "pdf-standardisation", "queued")
  /\ results[m.file] \in Parses
  /\ Finish(m, Send("invoice-storage", m.folder, m.file, results[m.file]))
  /\ UNCHANGED <<mailVars, bucketVars, jobs, billed, ignored>>

\* store-standardised-invoices.  A body of no line items throws (see Fail).
StoreInvoice(m) ==
  /\ At(m, "invoice-storage", "queued")
  /\ m.doc \in Matches
  /\ billed' = billed \cup {m.doc}
  /\ Proceed(m, "copy", {})
  /\ UNCHANGED <<mailVars, bucketVars, jobs, ignored, dead>>

\* moveS3, first half, to failed/ or to successful/; it throws if the object is not there.
MutTarget(m) == "successful"
Target(m) == IF m.to = "invoice-storage" THEN "successful" ELSE "failed"

CopyRaw(m) ==
  /\ m \in messages
  /\ m.step = "copy"
  /\ raw[m.folder][m.file] # NoDoc
  /\ raw' = [raw EXCEPT ![Target(m)][m.file] = raw[m.folder][m.file]]
  /\ Proceed(m, "delete", Created(Target(m), m.file))
  /\ UNCHANGED <<mailVars, results, jobs, billed, ignored, dead>>

MutMayDelete(m) == m.step \in {"copy", "delete"}
MayDelete(m) == m.step = "delete"

DeleteRaw(m) ==
  /\ m \in messages
  /\ MayDelete(m)
  /\ raw' = [raw EXCEPT ![m.folder][m.file] = NoDoc]
  /\ Finish(m, {})
  /\ UNCHANGED <<mailVars, results, jobs, billed, ignored>>

Next ==
  \/ \E d \in Docs : StoreAttachment(d)
  \/ \E e \in Emails : AcceptEmail(e) \/ FailEmail(e)
  \/ \E j \in jobs : FinishJob(j)
  \/ \E m \in messages :
       \/ Fail(m) \/ ExtractCsv(m) \/ StartAnalysis(m)
       \/ SkipMoved(m) \/ StoreResults(m) \/ GiveUp(m) \/ Ignore(m)
       \/ StandardisePdf(m)
       \/ StoreInvoice(m) \/ CopyRaw(m) \/ DeleteRaw(m)

\* SQS and Textract go on delivering, and an invocation returns, throws or times out.
Spec == Init /\ [][Next]_vars /\ WF_vars(Next)

--------------------------------------------------------------------------------
TypeOK ==
  /\ mail \in [Emails -> MailStates]
  /\ delivered \in [Emails -> 0..MaxReceive["process-email"]]
  /\ stored \in [Emails -> SUBSET Docs]
  /\ raw \in [Folders -> [Files -> Docs \cup {NoDoc}]]
  /\ results \in [Files -> Docs \cup {NoDoc}]
  /\ jobs \subseteq Job
  /\ messages \subseteq Message
  /\ billed \subseteq Docs
  /\ ignored \subseteq Files
  /\ dead \subseteq Files

\* No other attachment is stored under its name.
Unshared == {d \in Docs : \A other \in Docs : FileOf[other] = FileOf[d] => other = d}

Holds(folder, d) == raw[folder][FileOf[d]] = d
InRaw(d) == \E folder \in Folders : Holds(folder, d)

\* However redeliveries, the move to failed/ and the move to successful/ of the same
\* invoice interleave and break off, an accepted attachment stays in the raw bucket
\* (moveS3 copies before it deletes, and what is moved again is the same).
RawKept ==
  \A e \in Emails : mail[e] = "accepted" =>
    \A d \in Unshared \cap DocsOf(e) : InRaw(d)

\* A raw invoice lies in successful/ only if its line items have been stored.
SuccessfulMeansBilled ==
  \A d \in Unshared : Holds("successful", d) => d \in billed

UnderWay(file) ==
  \/ \E m \in messages : m.folder = "vendor" /\ m.file = file
  \/ \E j \in jobs : j.folder = "vendor" /\ j.file = file

\* What lies in a vendor's folder and notifies at all is being worked on, or was given
\* up where somebody can see it: in a dead-letter queue, or, by the failure handling of
\* store-raw-invoice-textract-data, only in the log.  This is so even if attachments of
\* one name replace each other half-way.
NothingForgotten ==
  \A file \in Pdfs \cup Csvs :
    raw["vendor"][file] # NoDoc => UnderWay(file) \/ file \in dead \cup ignored

\* Moved invoices notify again, but this does not go on: everything comes to rest.
Quiet ==
  /\ messages = {} /\ jobs = {}
  /\ \A e \in Emails : mail[e] # "waiting"
Settles == <>[]Quiet
================================================================================
