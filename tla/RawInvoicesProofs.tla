--------------------------- MODULE RawInvoicesProofs ---------------------------
(***************************************************************************)
(* Proofs about RawInvoices for any e-mails, attachments and names.        *)
(***************************************************************************)
EXTENDS RawInvoices, TLAPS

\* What lies, is analysed, found or standardised under a name was sent under that name.
Own ==
  /\ \A folder \in Folders, file \in Files :
       raw[folder][file] # NoDoc => FileOf[raw[folder][file]] = file
  /\ \A file \in Files : results[file] # NoDoc => FileOf[results[file]] = file
  /\ \A j \in jobs : FileOf[j.doc] = j.file
  /\ \A m \in messages : m.doc # NoDoc => FileOf[m.doc] = m.file
  /\ \A m \in messages : m.to = "invoice-storage" => m.doc # NoDoc

\* Only objects in vendors' folders are standardised, stored and moved.
Course ==
  \A m \in messages :
    /\ m.to \in {"pdf-standardisation", "invoice-storage"} => m.folder = "vendor"
    /\ m.step # "queued" => m.folder = "vendor"

\* A move that is left to delete has copied, and that of a stored invoice has stored.
Moving ==
  \A m \in messages :
    /\ m.step = "delete" => raw[Target(m)][m.file] # NoDoc
    /\ m.step # "queued" /\ m.to = "invoice-storage" => m.doc \in billed

Mailed ==
  \A e \in Emails :
    /\ mail[e] = "waiting" => delivered[e] < MaxReceive["process-email"]
    /\ mail[e] = "accepted" => stored[e] = DocsOf(e)
    /\ \A d \in Unshared \cap stored[e] : InRaw(d)

IInv == TypeOK /\ Own /\ Course /\ Moving /\ Mailed /\ SuccessfulMeansBilled /\ NothingForgotten

USE DEF MailStates, Folders, Queues, Steps, mailVars, bucketVars

LEMMA SendType ==
  ASSUME NEW to \in Queues, NEW folder \in Folders, NEW file \in Files,
         NEW doc \in Docs \cup {NoDoc}
  PROVE  Send(to, folder, file, doc) \subseteq Message
  BY DEF Send, Message

LEMMA CreatedType ==
  ASSUME NEW folder \in Folders, NEW file \in Files
  PROVE  Created(folder, file) \subseteq Message
  BY SendType DEF Created

LEMMA CreatedFacts ==
  ASSUME NEW folder, NEW file, NEW x \in Created(folder, file)
  PROVE  /\ x.to \in {"pdf-extract", "csv-extract"} /\ x.folder = folder /\ x.file = file
         /\ x.doc = NoDoc /\ x.step = "queued"
  BY DEF Created, Send

LEMMA CreatedSome ==
  ASSUME NEW folder, NEW file \in Pdfs \cup Csvs
  PROVE  \E x \in Created(folder, file) : x.folder = folder /\ x.file = file
  BY DEF Created, Send

\* x is m at some step and count
Again(x, m) == x.to = m.to /\ x.folder = m.folder /\ x.file = m.file /\ x.doc = m.doc

LEMMA ReturnFacts ==
  ASSUME TypeOK, NEW m \in messages, NEW sent \in SUBSET Message, Return(m, sent)
  PROVE  /\ messages' \subseteq Message /\ dead' \subseteq Files /\ dead \subseteq dead'
         /\ \A x \in messages' : x \in messages \/ x \in sent \/ (Again(x, m) /\ x.step = "queued")
         /\ \A x \in messages : x = m \/ x \in messages'
         /\ sent \subseteq messages'
         /\ \/ \E x \in messages' : x.folder = m.folder /\ x.file = m.file
            \/ m.folder = "vendor" => m.file \in dead'
<1>1. m \in Message /\ dead \subseteq Files /\ messages \subseteq Message
  BY DEF TypeOK
<1>2. CASE Exhausted(m)
  BY <1>1, <1>2 DEF Return, Letter, Message
<1>3. CASE ~Exhausted(m)
  <2> DEFINE q == AtStep(m, "queued")
             n == [q EXCEPT !.tries = @ + 1]
  <2>1. q \in Message /\ Again(q, m) /\ q.step = "queued"
    BY <1>1 DEF Message, Again, AtStep
  <2>2. messages' = (messages \ {m}) \cup {n} \cup sent /\ dead' = dead
    BY <1>3 DEF Return
  <2> HIDE DEF q
  <2>3. n \in Message /\ Again(n, m) /\ n.step = "queued"
    BY <2>1 DEF Message, Again
  <2> HIDE DEF n
  <2> QED
    BY <1>1, <2>2, <2>3 DEF Again
<1> QED
  BY <1>2, <1>3

LEMMA FinishFacts ==
  ASSUME TypeOK, NEW m \in messages, NEW sent \in SUBSET Message, Finish(m, sent)
  PROVE  /\ messages' \subseteq Message /\ dead' \subseteq Files /\ dead \subseteq dead'
         /\ \A x \in messages' : x \in messages \/ x \in sent \/ (Again(x, m) /\ x.step = "queued")
         /\ \A x \in messages : x = m \/ x \in messages'
         /\ sent \subseteq messages'
<1>1. CASE messages' = (messages \ {m}) \cup sent /\ UNCHANGED dead
  BY <1>1 DEF TypeOK
<1>2. CASE Return(m, sent)
  BY <1>2, ReturnFacts
<1> QED
  BY <1>1, <1>2 DEF Finish

LEMMA ProceedFacts ==
  ASSUME TypeOK, NEW m \in messages, NEW step \in Steps, NEW sent \in SUBSET Message,
         Proceed(m, step, sent)
  PROVE  /\ messages' \subseteq Message
         /\ \A x \in messages' : x \in messages \/ x \in sent \/ (Again(x, m) /\ x.step = step)
         /\ \A x \in messages : x = m \/ x \in messages'
         /\ sent \subseteq messages'
         /\ \E x \in messages' : x.folder = m.folder /\ x.file = m.file
<1> DEFINE n == AtStep(m, step)
<1>1. m \in Message /\ messages \subseteq Message
  BY DEF TypeOK
<1>2. n \in Message /\ Again(n, m) /\ n.step = step
  BY <1>1 DEF Message, Again, AtStep
<1>3. messages' = (messages \ {m}) \cup {n} \cup sent
  BY DEF Proceed
<1> HIDE DEF n
<1> QED
  BY <1>1, <1>2, <1>3 DEF Again

--------------------------------------------------------------------------------
LEMMA TypeInit == Init => TypeOK
  BY RawInvoicesAssumption DEF Init, TypeOK

LEMMA TypeStep == TypeOK /\ Own /\ Mailed /\ [Next]_vars => TypeOK'
<1> SUFFICES ASSUME TypeOK, Own, Mailed, [Next]_vars PROVE TypeOK'
  OBVIOUS
<1> USE RawInvoicesAssumption
<1>0. /\ messages \subseteq Message
      /\ raw \in [Folders -> [Files -> Docs \cup {NoDoc}]]
      /\ results \in [Files -> Docs \cup {NoDoc}]
  BY DEF TypeOK
<1>1. ASSUME NEW d \in Docs, StoreAttachment(d) PROVE TypeOK'
  <2>1. messages' \subseteq Message
    BY <1>0, <1>1, CreatedType DEF StoreAttachment
  <2> QED
    BY <1>1, <2>1 DEF StoreAttachment, TypeOK
<1>2. ASSUME NEW e \in Emails, AcceptEmail(e) PROVE TypeOK'
  BY <1>2 DEF AcceptEmail, TypeOK
<1>3. ASSUME NEW e \in Emails, FailEmail(e) PROVE TypeOK'
  <2>1. delivered[e] \in Nat /\ delivered[e] < MaxReceive["process-email"]
        /\ MaxReceive["process-email"] \in Nat
    BY <1>3 DEF FailEmail, Mailed, TypeOK
  <2>2. delivered' \in [Emails -> 0..MaxReceive["process-email"]]
    BY <1>3, <2>1 DEF FailEmail, TypeOK
  <2> QED
    BY <1>3, <2>2 DEF FailEmail, TypeOK
<1>4. ASSUME NEW j \in jobs, FinishJob(j) PROVE TypeOK'
  <2>1. j \in Job
    BY DEF TypeOK
  <2>2. messages' \subseteq Message
    BY <1>0, <1>4, <2>1, SendType DEF FinishJob, Job
  <2> QED
    BY <1>4, <2>2 DEF FinishJob, TypeOK
<1>5. ASSUME NEW m \in messages, Fail(m) PROVE TypeOK'
  BY <1>5, ReturnFacts DEF Fail, TypeOK
<1>6. ASSUME NEW m \in messages, ExtractCsv(m) PROVE TypeOK'
  <2>1. Send("invoice-storage", "vendor", m.file, raw["vendor"][m.file]) \subseteq Message
    BY <1>0, <1>6, SendType DEF ExtractCsv, Message
  <2> QED
    BY <1>6, <2>1, FinishFacts DEF ExtractCsv, TypeOK
<1>7. ASSUME NEW m \in messages, StartAnalysis(m) PROVE TypeOK'
  <2>1. [folder |-> m.folder, file |-> m.file, doc |-> raw[m.folder][m.file]] \in Job
    BY <1>0, <1>7 DEF StartAnalysis, Message, Job
  <2> QED
    BY <1>7, <2>1, FinishFacts DEF StartAnalysis, TypeOK
<1>8. ASSUME NEW m \in messages, SkipMoved(m) PROVE TypeOK'
  BY <1>8, FinishFacts DEF SkipMoved, TypeOK
<1>9. ASSUME NEW m \in messages, PutResults(m) PROVE results' \in [Files -> Docs \cup {NoDoc}]
  BY <1>0, <1>9 DEF PutResults, Message
<1>10. ASSUME NEW m \in messages
       PROVE  Send("pdf-standardisation", m.folder, m.file, NoDoc) \subseteq Message
  BY <1>0, SendType DEF Message
<1>11. ASSUME NEW m \in messages, StoreResults(m) PROVE TypeOK'
  BY <1>9, <1>10, <1>11, FinishFacts DEF StoreResults, TypeOK
<1>12. ASSUME NEW m \in messages, GiveUp(m) PROVE TypeOK'
  <2>1. messages' \subseteq Message
    BY <1>10, <1>12, ProceedFacts DEF GiveUp
  <2> QED
    BY <1>9, <1>12, <2>1 DEF GiveUp, TypeOK
<1>13. ASSUME NEW m \in messages, Ignore(m) PROVE TypeOK'
  BY <1>0, <1>13, FinishFacts DEF Ignore, TypeOK, Message
<1>14. ASSUME NEW m \in messages, StandardisePdf(m) PROVE TypeOK'
  <2>1. Send("invoice-storage", m.folder, m.file, results[m.file]) \subseteq Message
    BY <1>0, <1>14, SendType DEF StandardisePdf, Message
  <2> QED
    BY <1>14, <2>1, FinishFacts DEF StandardisePdf, TypeOK
<1>15. ASSUME NEW m \in messages, StoreInvoice(m) PROVE TypeOK'
  BY <1>15, ProceedFacts DEF StoreInvoice, TypeOK
<1>16. ASSUME NEW m \in messages, CopyRaw(m) PROVE TypeOK'
  <2>1. m.folder \in Folders /\ m.file \in Files /\ Target(m) \in Folders
    BY <1>0 DEF Message, Target
  <2>2. Created(Target(m), m.file) \subseteq Message
    BY <2>1, CreatedType
  <2>3. messages' \subseteq Message
    BY <1>16, <2>2, ProceedFacts DEF CopyRaw
  <2>4. raw' \in [Folders -> [Files -> Docs \cup {NoDoc}]]
    BY <1>0, <1>16, <2>1 DEF CopyRaw
  <2> QED
    BY <1>16, <2>3, <2>4 DEF CopyRaw, TypeOK
<1>17. ASSUME NEW m \in messages, DeleteRaw(m) PROVE TypeOK'
  <2>1. raw' \in [Folders -> [Files -> Docs \cup {NoDoc}]]
    BY <1>0, <1>17 DEF DeleteRaw, Message
  <2> QED
    BY <1>17, <2>1, FinishFacts DEF DeleteRaw, TypeOK
<1>18. CASE UNCHANGED vars
  BY <1>18 DEF vars, TypeOK
<1> QED
  BY <1>1, <1>2, <1>3, <1>4, <1>5, <1>6, <1>7, <1>8, <1>11, <1>12, <1>13, <1>14, <1>15,
     <1>16, <1>17, <1>18 DEF Next

--------------------------------------------------------------------------------
\* What a step does to the messages: it keeps all but one, of which it may keep another
\* count or step, and adds messages.  One lemma per way of adding.
LEMMA RawTyped ==
  ASSUME TypeOK
  PROVE  /\ \A folder \in Folders, file \in Files : raw[folder][file] \in Docs \cup {NoDoc}
         /\ \A file \in Files : results[file] \in Docs \cup {NoDoc}
         /\ \A m \in messages : m \in Message /\ m.folder \in Folders /\ m.file \in Files
         /\ \A j \in jobs : j.folder \in Folders /\ j.file \in Files /\ j.doc \in Docs
  BY DEF TypeOK, Message, Job

LEMMA CourseStep == TypeOK /\ Course /\ [Next]_vars => Course'
<1> SUFFICES ASSUME TypeOK, Course, [Next]_vars PROVE Course'
  OBVIOUS
<1> DEFINE P(x) == /\ x.to \in {"pdf-standardisation", "invoice-storage"} => x.folder = "vendor"
                   /\ x.step # "queued" => x.folder = "vendor"
<1>0. /\ \A x \in messages : P(x)
      /\ \A m \in messages : m \in Message /\ m.folder \in Folders /\ m.file \in Files
  BY RawTyped DEF Course
<1>1. ASSUME NEW d \in Docs, StoreAttachment(d) PROVE Course'
  BY <1>0, <1>1, CreatedFacts DEF StoreAttachment, Course
<1>2. ASSUME NEW e \in Emails, AcceptEmail(e) \/ FailEmail(e) PROVE Course'
  BY <1>2 DEF AcceptEmail, FailEmail, Course
<1>3. ASSUME NEW j \in jobs, FinishJob(j) PROVE Course'
  BY <1>0, <1>3 DEF FinishJob, Course, Send
<1>4. ASSUME NEW m \in messages, NEW sent \in SUBSET Message, Finish(m, sent) \/ Return(m, sent),
             \A x \in sent : P(x)
      PROVE  Course'
  <2>1. \A x \in messages' : x \in messages \/ x \in sent \/ (Again(x, m) /\ x.step = "queued")
    BY <1>4, FinishFacts, ReturnFacts
  <2> QED
    BY <1>0, <1>4, <2>1 DEF Again, Course
<1>5. ASSUME NEW m \in messages, NEW step \in Steps, NEW sent \in SUBSET Message,
             Proceed(m, step, sent), \A x \in sent : P(x), m.folder = "vendor"
      PROVE  Course'
  <2>1. \A x \in messages' : x \in messages \/ x \in sent \/ (Again(x, m) /\ x.step = step)
    BY <1>5, ProceedFacts
  <2> QED
    BY <1>0, <1>5, <2>1 DEF Again, Course
<1>6. ASSUME NEW m \in messages, Fail(m) \/ StartAnalysis(m) \/ SkipMoved(m) \/ Ignore(m) \/ DeleteRaw(m)
      PROVE  Course'
  <2>1. Finish(m, {}) \/ Return(m, {})
    BY <1>6 DEF Fail, StartAnalysis, SkipMoved, Ignore, DeleteRaw
  <2> QED
    BY <1>4, <2>1
<1>7. ASSUME NEW m \in messages, NEW to \in Queues, NEW folder, NEW doc,
             folder = "vendor", Send(to, folder, m.file, doc) \subseteq Message,
             Finish(m, Send(to, folder, m.file, doc))
      PROVE  Course'
  BY <1>4, <1>7 DEF Send
<1>8. ASSUME NEW m \in messages, ExtractCsv(m) PROVE Course'
  <2>1. raw["vendor"][m.file] \in Docs \cup {NoDoc}
    BY <1>0, RawTyped
  <2> QED
    BY <1>0, <1>7, <1>8, <2>1, SendType DEF ExtractCsv
<1>9. ASSUME NEW m \in messages, StoreResults(m) PROVE Course'
  BY <1>0, <1>7, <1>9, SendType DEF StoreResults, Moved
<1>10. ASSUME NEW m \in messages, StandardisePdf(m) PROVE Course'
  <2>1. results[m.file] \in Docs \cup {NoDoc}
    BY <1>0, RawTyped
  <2> QED
    BY <1>0, <1>7, <1>10, <2>1, SendType DEF StandardisePdf, At
<1>11. ASSUME NEW m \in messages, GiveUp(m) PROVE Course'
  <2>1. m.folder = "vendor"
    BY <1>0, <1>11 DEF GiveUp, Moved
  <2>2. /\ Send("pdf-standardisation", m.folder, m.file, NoDoc) \subseteq Message
        /\ \A x \in Send("pdf-standardisation", m.folder, m.file, NoDoc) : P(x)
    BY <1>0, <2>1, SendType DEF Send
  <2> QED
    BY <1>5, <1>11, <2>1, <2>2 DEF GiveUp
<1>12. ASSUME NEW m \in messages, StoreInvoice(m) PROVE Course'
  BY <1>0, <1>5, <1>12 DEF StoreInvoice, At
<1>13. ASSUME NEW m \in messages, CopyRaw(m) PROVE Course'
  <2>1. Created(Target(m), m.file) \subseteq Message
    BY <1>0, CreatedType DEF Target
  <2>2. \A x \in Created(Target(m), m.file) : P(x)
    BY CreatedFacts
  <2> QED
    BY <1>0, <1>5, <1>13, <2>1, <2>2 DEF CopyRaw
<1>14. CASE UNCHANGED vars
  BY <1>14 DEF vars, Course
<1> QED
  BY <1>1, <1>2, <1>3, <1>6, <1>8, <1>9, <1>10, <1>11, <1>12, <1>13, <1>14 DEF Next

LEMMA OwnStep == TypeOK /\ Own /\ [Next]_vars => Own'
<1> SUFFICES ASSUME TypeOK, Own, [Next]_vars PROVE Own'
  OBVIOUS
<1> USE RawInvoicesAssumption
<1> DEFINE Q(x) == /\ x.doc # NoDoc => FileOf[x.doc] = x.file
                   /\ x.to = "invoice-storage" => x.doc # NoDoc
           Placed == \A folder \in Folders, file \in Files :
                       raw[folder][file] # NoDoc => FileOf[raw[folder][file]] = file
           Found == \A file \in Files : results[file] # NoDoc => FileOf[results[file]] = file
           Analysed == \A j \in jobs : FileOf[j.doc] = j.file
           Sound == \A x \in messages : Q(x)
<1>0. /\ Placed /\ Found /\ Analysed /\ Sound
      /\ raw \in [Folders -> [Files -> Docs \cup {NoDoc}]]
      /\ results \in [Files -> Docs \cup {NoDoc}]
      /\ \A m \in messages : m \in Message /\ m.folder \in Folders /\ m.file \in Files
  BY RawTyped DEF Own, TypeOK
<1>own. ASSUME Placed', Found', Analysed', Sound' PROVE Own'
  BY <1>own DEF Own
<1>1. ASSUME NEW d \in Docs, StoreAttachment(d) PROVE Own'
  <2>1. Placed'
    BY <1>0, <1>1 DEF StoreAttachment
  <2>2. Sound'
    BY <1>0, <1>1, CreatedFacts DEF StoreAttachment
  <2> QED
    BY <1>0, <1>1, <1>own, <2>1, <2>2 DEF StoreAttachment
<1>2. ASSUME NEW e \in Emails, AcceptEmail(e) \/ FailEmail(e) PROVE Own'
  BY <1>0, <1>2, <1>own DEF AcceptEmail, FailEmail
<1>3. ASSUME NEW j \in jobs, FinishJob(j) PROVE Own'
  <2>1. Sound'
    BY <1>0, <1>3 DEF FinishJob, Send
  <2> QED
    BY <1>0, <1>3, <1>own, <2>1 DEF FinishJob
<1>4. ASSUME NEW m \in messages, NEW sent \in SUBSET Message, \A x \in sent : Q(x),
             \/ Finish(m, sent) \/ Return(m, sent)
             \/ \E step \in Steps : Proceed(m, step, sent)
      PROVE  Sound'
  <2>1. \A x \in messages' : x \in messages \/ x \in sent \/ Again(x, m)
    BY <1>4, FinishFacts, ReturnFacts, ProceedFacts
  <2> QED
    BY <1>0, <1>4, <2>1 DEF Again
<1>5. ASSUME NEW m \in messages,
             Fail(m) \/ SkipMoved(m) \/ Ignore(m) \/ StoreInvoice(m)
      PROVE  Own'
  <2>1. \/ Finish(m, {}) \/ Return(m, {}) \/ \E step \in Steps : Proceed(m, step, {})
    BY <1>5 DEF Fail, SkipMoved, Ignore, StoreInvoice
  <2> QED
    BY <1>0, <1>4, <1>5, <1>own, <2>1 DEF Fail, SkipMoved, Ignore, StoreInvoice
<1>6. ASSUME NEW m \in messages, StartAnalysis(m) PROVE Own'
  <2>1. Analysed'
    BY <1>0, <1>6 DEF StartAnalysis
  <2>2. Sound'
    BY <1>4, <1>6 DEF StartAnalysis
  <2> QED
    BY <1>0, <1>6, <1>own, <2>1, <2>2 DEF StartAnalysis
<1>7. ASSUME NEW m \in messages, DeleteRaw(m) PROVE Own'
  <2>1. Placed'
    BY <1>0, <1>7 DEF DeleteRaw
  <2>2. Sound'
    BY <1>4, <1>7 DEF DeleteRaw
  <2> QED
    BY <1>0, <1>7, <1>own, <2>1, <2>2 DEF DeleteRaw
<1>8. ASSUME NEW m \in messages, ExtractCsv(m) PROVE Own'
  <2> DEFINE sent == Send("invoice-storage", "vendor", m.file, raw["vendor"][m.file])
  <2>1. raw["vendor"][m.file] \in Docs
    BY <1>8 DEF ExtractCsv
  <2>2. sent \subseteq Message /\ \A x \in sent : Q(x)
    BY <1>0, <2>1, SendType DEF Send
  <2> QED
    BY <1>0, <1>4, <1>8, <1>own, <2>2 DEF ExtractCsv
<1>9. ASSUME NEW m \in messages, StandardisePdf(m) PROVE Own'
  <2> DEFINE sent == Send("invoice-storage", m.folder, m.file, results[m.file])
  <2>1. results[m.file] \in Docs
    BY <1>9 DEF StandardisePdf
  <2>2. sent \subseteq Message /\ \A x \in sent : Q(x)
    BY <1>0, <2>1, SendType DEF Send
  <2> QED
    BY <1>0, <1>4, <1>9, <1>own, <2>2 DEF StandardisePdf
<1>10. ASSUME NEW m \in messages
       PROVE  LET sent == Send("pdf-standardisation", m.folder, m.file, NoDoc) IN
              sent \subseteq Message /\ \A x \in sent : Q(x)
  BY <1>0, SendType DEF Send
<1>11. ASSUME NEW m \in messages, PutResults(m) \/ UNCHANGED results PROVE Found'
  BY <1>0, <1>11 DEF PutResults
<1>12. ASSUME NEW m \in messages, StoreResults(m) \/ GiveUp(m) PROVE Own'
  <2>1. Sound'
    BY <1>4, <1>10, <1>12 DEF StoreResults, GiveUp
  <2>2. Found'
    BY <1>11, <1>12 DEF StoreResults, GiveUp
  <2> QED
    BY <1>0, <1>12, <1>own, <2>1, <2>2 DEF StoreResults, GiveUp
<1>13. ASSUME NEW m \in messages, CopyRaw(m) PROVE Own'
  <2>1. Target(m) \in Folders
    BY DEF Target
  <2>2. Placed'
    BY <1>0, <1>13, <2>1 DEF CopyRaw
  <2>3. Created(Target(m), m.file) \subseteq Message
    BY <1>0, <2>1, CreatedType
  <2>4. \A x \in Created(Target(m), m.file) : Q(x)
    BY CreatedFacts
  <2>5. Sound'
    BY <1>4, <1>13, <2>3, <2>4 DEF CopyRaw
  <2> QED
    BY <1>0, <1>13, <1>own, <2>2, <2>5 DEF CopyRaw
<1>14. CASE UNCHANGED vars
  BY <1>0, <1>14, <1>own DEF vars
<1> QED
  BY <1>1, <1>2, <1>3, <1>5, <1>6, <1>7, <1>8, <1>9, <1>12, <1>13, <1>14 DEF Next

--------------------------------------------------------------------------------
\* What was moved stays where it was moved to.
LEMMA Shelved ==
  ASSUME TypeOK, Course, [Next]_vars, NEW folder \in {"failed", "successful"}, NEW file \in Files,
         raw[folder][file] # NoDoc
  PROVE  raw'[folder][file] # NoDoc
<1>0. /\ raw \in [Folders -> [Files -> Docs \cup {NoDoc}]]
      /\ \A m \in messages : m.folder \in Folders /\ m.file \in Files
  BY RawTyped DEF TypeOK
<1>1. ASSUME NEW d \in Docs, StoreAttachment(d) PROVE raw'[folder][file] # NoDoc
  BY <1>0, <1>1 DEF StoreAttachment
<1>2. ASSUME NEW m \in messages, CopyRaw(m) PROVE raw'[folder][file] # NoDoc
  <2>1. Target(m) \in Folders
    BY DEF Target
  <2> QED
    BY <1>0, <1>2, <2>1 DEF CopyRaw
<1>3. ASSUME NEW m \in messages, DeleteRaw(m) PROVE raw'[folder][file] # NoDoc
  <2>1. m.folder = "vendor"
    BY <1>3 DEF DeleteRaw, MayDelete, Course
  <2> QED
    BY <1>0, <1>3, <2>1 DEF DeleteRaw
<1>4. ASSUME UNCHANGED raw PROVE raw'[folder][file] # NoDoc
  BY <1>4
<1> QED
  BY <1>1, <1>2, <1>3, <1>4 DEF Next, vars, AcceptEmail, FailEmail, FinishJob, Fail, ExtractCsv,
     StartAnalysis, SkipMoved, StoreResults, GiveUp, Ignore, StandardisePdf, StoreInvoice

LEMMA MovingStep == TypeOK /\ Course /\ Moving /\ [Next]_vars => Moving'
<1> SUFFICES ASSUME TypeOK, Course, Moving, [Next]_vars, NEW x \in messages'
             PROVE  /\ x.step = "delete" => raw'[Target(x)][x.file] # NoDoc
                    /\ x.step # "queued" /\ x.to = "invoice-storage" => x.doc \in billed'
  BY DEF Moving, Target
<1>0. \A m \in messages : m \in Message /\ m.folder \in Folders /\ m.file \in Files
  BY RawTyped
<1>1. billed \subseteq billed'
  BY DEF Next, vars, StoreAttachment, AcceptEmail, FailEmail, FinishJob, Fail, ExtractCsv, StartAnalysis,
     SkipMoved, StoreResults, GiveUp, Ignore, StandardisePdf, StoreInvoice, CopyRaw, DeleteRaw
<1>2. CASE x \in messages
  <2>1. Target(x) \in {"failed", "successful"}
    BY DEF Target
  <2>2. raw[Target(x)][x.file] # NoDoc => raw'[Target(x)][x.file] # NoDoc
    BY <1>0, <1>2, <2>1, Shelved
  <2> QED
    BY <1>1, <1>2, <2>2 DEF Moving
<1>3. CASE x.step = "queued"
  BY <1>3
<1>4. ASSUME x \notin messages, x.step # "queued"
      PROVE  \E m \in messages : \/ /\ StoreInvoice(m) \/ GiveUp(m)
                                   /\ Again(x, m) /\ x.step = "copy"
                                \/ /\ CopyRaw(m)
                                   /\ Again(x, m) /\ x.step = "delete"
  <2>1. ASSUME NEW m \in messages, NEW sent \in SUBSET Message, \A n \in sent : n.step = "queued",
               Finish(m, sent) \/ Return(m, sent)
        PROVE  FALSE
    BY <1>4, <2>1, FinishFacts, ReturnFacts
  <2>2. ASSUME NEW to \in Queues, NEW folder \in Folders, NEW file \in Files, NEW doc \in Docs \cup {NoDoc}
        PROVE  /\ Send(to, folder, file, doc) \subseteq Message
               /\ \A n \in Send(to, folder, file, doc) : n.step = "queued"
    BY SendType DEF Send
  <2>3. ASSUME NEW d \in Docs, StoreAttachment(d) PROVE FALSE
    BY <1>4, <2>3, CreatedFacts DEF StoreAttachment
  <2>4. ASSUME NEW e \in Emails, AcceptEmail(e) \/ FailEmail(e) PROVE FALSE
    BY <1>4, <2>4 DEF AcceptEmail, FailEmail
  <2>5. ASSUME NEW j \in jobs, FinishJob(j) PROVE FALSE
    BY <1>4, <2>5 DEF FinishJob, Send
  <2>6. ASSUME NEW m \in messages,
               Fail(m) \/ StartAnalysis(m) \/ SkipMoved(m) \/ Ignore(m) \/ DeleteRaw(m)
        PROVE  FALSE
    <3>1. Finish(m, {}) \/ Return(m, {})
      BY <2>6 DEF Fail, StartAnalysis, SkipMoved, Ignore, DeleteRaw
    <3> QED
      BY <2>1, <3>1
  <2>7. ASSUME NEW m \in messages, ExtractCsv(m) PROVE FALSE
    <3>1. raw["vendor"][m.file] \in Docs \cup {NoDoc}
      BY <1>0, RawTyped
    <3> QED
      BY <1>0, <2>1, <2>2, <2>7, <3>1 DEF ExtractCsv
  <2>8. ASSUME NEW m \in messages, StoreResults(m) PROVE FALSE
    BY <1>0, <2>1, <2>2, <2>8 DEF StoreResults
  <2>9. ASSUME NEW m \in messages, StandardisePdf(m) PROVE FALSE
    <3>1. results[m.file] \in Docs \cup {NoDoc}
      BY <1>0, RawTyped
    <3> QED
      BY <1>0, <2>1, <2>2, <2>9, <3>1 DEF StandardisePdf
  <2>10. ASSUME NEW m \in messages, NEW step \in Steps, NEW sent \in SUBSET Message,
                \A n \in sent : n.step = "queued", Proceed(m, step, sent)
         PROVE  Again(x, m) /\ x.step = step
    BY <1>4, <2>10, ProceedFacts
  <2>11. ASSUME NEW m \in messages, StoreInvoice(m) PROVE Again(x, m) /\ x.step = "copy"
    BY <2>10, <2>11 DEF StoreInvoice
  <2>12. ASSUME NEW m \in messages, GiveUp(m) PROVE Again(x, m) /\ x.step = "copy"
    <3>1. /\ Send("pdf-standardisation", m.folder, m.file, NoDoc) \subseteq Message
          /\ \A n \in Send("pdf-standardisation", m.folder, m.file, NoDoc) : n.step = "queued"
      BY <1>0, <2>2
    <3> QED
      BY <2>10, <2>12, <3>1 DEF GiveUp
  <2>13. ASSUME NEW m \in messages, CopyRaw(m) PROVE Again(x, m) /\ x.step = "delete"
    <3>1. Created(Target(m), m.file) \subseteq Message
      BY <1>0, CreatedType DEF Target
    <3>2. \A n \in Created(Target(m), m.file) : n.step = "queued"
      BY CreatedFacts
    <3> QED
      BY <2>10, <2>13, <3>1, <3>2 DEF CopyRaw
  <2>14. ~UNCHANGED vars
    BY <1>4 DEF vars
  <2> QED
    BY <2>3, <2>4, <2>5, <2>6, <2>7, <2>8, <2>9, <2>11, <2>12, <2>13, <2>14 DEF Next
<1>5. ASSUME NEW m \in messages, StoreInvoice(m), Again(x, m), x.step = "copy"
      PROVE  x.doc \in billed'
  BY <1>5 DEF StoreInvoice, Again
<1>6. ASSUME NEW m \in messages, GiveUp(m), Again(x, m) PROVE x.to # "invoice-storage"
  BY <1>6 DEF GiveUp, At, Again
<1>7. ASSUME NEW m \in messages, CopyRaw(m), Again(x, m)
      PROVE  /\ raw'[Target(x)][x.file] # NoDoc
             /\ x.to = "invoice-storage" => x.doc \in billed'
  <2>1. Target(x) = Target(m) /\ Target(m) \in Folders /\ x.file = m.file
    BY <1>7 DEF Target, Again
  <2>2. raw'[Target(m)][m.file] = raw[m.folder][m.file]
    BY <1>0, <1>7, <2>1 DEF CopyRaw, TypeOK
  <2>3. m.to = "invoice-storage" => m.doc \in billed
    BY <1>7 DEF CopyRaw, Moving
  <2> QED
    BY <1>1, <1>7, <2>1, <2>2, <2>3 DEF CopyRaw, Again
<1> QED
  BY <1>2, <1>3, <1>4, <1>5, <1>6, <1>7

--------------------------------------------------------------------------------
\* A name that is not shared is the name of its attachment only.
LEMMA UnsharedName ==
  ASSUME NEW d \in Unshared, NEW other \in Docs, FileOf[other] = FileOf[d]
  PROVE  other = d
  BY DEF Unshared

LEMMA InRawStep ==
  ASSUME TypeOK, Own, Course, Moving, [Next]_vars, NEW d \in Unshared, InRaw(d)
  PROVE  InRaw(d)'
<1> USE RawInvoicesAssumption
<1>0. /\ raw \in [Folders -> [Files -> Docs \cup {NoDoc}]]
      /\ \A m \in messages : m.folder \in Folders /\ m.file \in Files
      /\ d \in Docs /\ FileOf[d] \in Files
  BY RawTyped DEF TypeOK, Unshared
<1>1. ASSUME NEW folder \in Folders, raw[folder][FileOf[d]] # NoDoc PROVE Holds(folder, d)
  BY <1>0, <1>1, UnsharedName DEF Own, Holds
<1>2. ASSUME NEW n \in Docs, StoreAttachment(n) PROVE InRaw(d)'
  <2>1. CASE FileOf[n] = FileOf[d]
    <3>1. n = d
      BY <2>1, UnsharedName
    <3> QED
      BY <1>0, <1>2, <3>1 DEF StoreAttachment, InRaw, Holds
  <2>2. CASE FileOf[n] # FileOf[d]
    BY <1>0, <1>2, <2>2 DEF StoreAttachment, InRaw, Holds
  <2> QED
    BY <2>1, <2>2
<1>3. ASSUME NEW m \in messages, CopyRaw(m) PROVE InRaw(d)'
  <2>1. Target(m) \in Folders
    BY DEF Target
  <2>2. CASE m.file = FileOf[d]
    <3>1. Holds(m.folder, d)
      BY <1>0, <1>1, <1>3, <2>2 DEF CopyRaw
    <3>2. Holds(Target(m), d)'
      BY <1>0, <1>3, <2>1, <2>2, <3>1 DEF CopyRaw, Holds
    <3> QED
      BY <2>1, <3>2 DEF InRaw
  <2>3. CASE m.file # FileOf[d]
    BY <1>0, <1>3, <2>1, <2>3 DEF CopyRaw, InRaw, Holds
  <2> QED
    BY <2>2, <2>3
<1>4. ASSUME NEW m \in messages, DeleteRaw(m) PROVE InRaw(d)'
  <2>1. Target(m) \in Folders /\ Target(m) # "vendor" /\ m.folder = "vendor"
    BY <1>4 DEF Target, DeleteRaw, MayDelete, Course
  <2>2. CASE m.file = FileOf[d]
    <3>1. raw[Target(m)][m.file] # NoDoc
      BY <1>4 DEF DeleteRaw, MayDelete, Moving
    <3>2. Holds(Target(m), d)
      BY <1>1, <2>1, <2>2, <3>1
    <3>3. Holds(Target(m), d)'
      BY <1>0, <1>4, <2>1, <3>2 DEF DeleteRaw, Holds
    <3> QED
      BY <2>1, <3>3 DEF InRaw
  <2>3. CASE m.file # FileOf[d]
    BY <1>0, <1>4, <2>3 DEF DeleteRaw, InRaw, Holds
  <2> QED
    BY <2>2, <2>3
<1>5. ASSUME UNCHANGED raw PROVE InRaw(d)'
  BY <1>5 DEF InRaw, Holds
<1> QED
  BY <1>2, <1>3, <1>4, <1>5 DEF Next, vars, AcceptEmail, FailEmail, FinishJob, Fail, ExtractCsv,
     StartAnalysis, SkipMoved, StoreResults, GiveUp, Ignore, StandardisePdf, StoreInvoice

LEMMA MailedStep == TypeOK /\ Own /\ Course /\ Moving /\ Mailed /\ [Next]_vars => Mailed'
<1> SUFFICES ASSUME TypeOK, Own, Course, Moving, Mailed, [Next]_vars PROVE Mailed'
  OBVIOUS
<1> USE RawInvoicesAssumption
<1>0. /\ mail \in [Emails -> MailStates] /\ stored \in [Emails -> SUBSET Docs]
      /\ delivered \in [Emails -> 0..MaxReceive["process-email"]]
      /\ MaxReceive["process-email"] \in Nat \ {0}
  BY DEF TypeOK
<1>1. \A e \in Emails : \A d \in Unshared \cap stored[e] : InRaw(d)'
  BY InRawStep DEF Mailed
<1>2. ASSUME NEW d \in Docs, StoreAttachment(d) PROVE Mailed'
  <2>1. Holds("vendor", d)'
    <3>1. raw \in [Folders -> [Files -> Docs \cup {NoDoc}]]
      BY DEF TypeOK
    <3> QED
      BY <1>2, <3>1 DEF StoreAttachment, Holds
  <2>2. InRaw(d)'
    BY <2>1 DEF InRaw
  <2> QED
    BY <1>0, <1>1, <1>2, <2>2 DEF StoreAttachment, Mailed
<1>3. ASSUME NEW e \in Emails, AcceptEmail(e) PROVE Mailed'
  BY <1>0, <1>1, <1>3 DEF AcceptEmail, AllStored, Mailed
<1>4. ASSUME NEW e \in Emails, FailEmail(e) PROVE Mailed'
  <2>1. \A n \in Emails : mail'[n] = "waiting" => delivered'[n] < MaxReceive["process-email"]
    BY <1>0, <1>4 DEF FailEmail, Undeliverable, Mailed
  <2>2. \A n \in Emails : mail'[n] = "accepted" => stored'[n] = DocsOf(n)
    BY <1>0, <1>4 DEF FailEmail, Mailed
  <2>3. \A n \in Emails : \A d \in Unshared \cap stored'[n] : InRaw(d)'
    BY <1>0, <1>1, <1>4 DEF FailEmail
  <2> QED
    BY <2>1, <2>2, <2>3 DEF Mailed
<1>5. ASSUME UNCHANGED <<mail, delivered, stored>> PROVE Mailed'
  BY <1>1, <1>5 DEF Mailed
<1> QED
  BY <1>2, <1>3, <1>4, <1>5 DEF Next, vars, FinishJob, Fail, ExtractCsv, StartAnalysis,
     SkipMoved, StoreResults, GiveUp, Ignore, StandardisePdf, StoreInvoice, CopyRaw, DeleteRaw

LEMMA SuccessfulStep ==
  TypeOK /\ Own /\ Course /\ Moving /\ SuccessfulMeansBilled /\ [Next]_vars => SuccessfulMeansBilled'
<1> SUFFICES ASSUME TypeOK, Own, Course, Moving, SuccessfulMeansBilled, [Next]_vars,
                    NEW d \in Unshared, Holds("successful", d)'
             PROVE  d \in billed'
  BY DEF SuccessfulMeansBilled
<1> USE RawInvoicesAssumption
<1>0. /\ raw \in [Folders -> [Files -> Docs \cup {NoDoc}]]
      /\ \A m \in messages : /\ m.folder \in Folders /\ m.file \in Files
                             /\ m.doc \in Docs \cup {NoDoc}
      /\ d \in Docs /\ FileOf[d] \in Files
  BY RawTyped DEF TypeOK, Unshared, Message
<1>1. billed \subseteq billed'
  BY DEF Next, vars, StoreAttachment, AcceptEmail, FailEmail, FinishJob, Fail, ExtractCsv, StartAnalysis,
     SkipMoved, StoreResults, GiveUp, Ignore, StandardisePdf, StoreInvoice, CopyRaw, DeleteRaw
<1>2. CASE Holds("successful", d)
  BY <1>1, <1>2 DEF SuccessfulMeansBilled
<1>3. ASSUME ~Holds("successful", d), NEW n \in Docs, StoreAttachment(n) PROVE FALSE
  BY <1>0, <1>3 DEF StoreAttachment, Holds
<1>4. ASSUME ~Holds("successful", d), NEW m \in messages, DeleteRaw(m) PROVE FALSE
  BY <1>0, <1>4 DEF DeleteRaw, Holds
<1>5. ASSUME ~Holds("successful", d), NEW m \in messages, CopyRaw(m) PROVE d \in billed
  <2>1. m.to = "invoice-storage" /\ m.file = FileOf[d]
    BY <1>0, <1>5 DEF CopyRaw, Holds, Target
  <2>2. m.doc \in Docs /\ FileOf[m.doc] = m.file
    BY <1>0, <1>5, <2>1 DEF Own
  <2>3. m.doc = d
    BY <2>1, <2>2, UnsharedName
  <2> QED
    BY <1>5, <2>1, <2>3 DEF CopyRaw, Moving
<1>6. ASSUME ~Holds("successful", d), UNCHANGED raw PROVE FALSE
  BY <1>6 DEF Holds
<1> QED
  BY <1>1, <1>2, <1>3, <1>4, <1>5, <1>6 DEF Next, vars, AcceptEmail, FailEmail, FinishJob, Fail,
     ExtractCsv, StartAnalysis, SkipMoved, StoreResults, GiveUp, Ignore, StandardisePdf, StoreInvoice

--------------------------------------------------------------------------------
LEMMA ForgottenStep ==
  TypeOK /\ Course /\ NothingForgotten /\ [Next]_vars => NothingForgotten'
<1> SUFFICES ASSUME TypeOK, Course, NothingForgotten, [Next]_vars,
                    NEW file \in Pdfs \cup Csvs, raw'["vendor"][file] # NoDoc
             PROVE  UnderWay(file)' \/ file \in (dead \cup ignored)'
  BY DEF NothingForgotten
<1> USE RawInvoicesAssumption
<1> DEFINE About(x) == x.folder = "vendor" /\ x.file = file
           Safe == UnderWay(file) \/ file \in dead \cup ignored
<1>0. /\ raw \in [Folders -> [Files -> Docs \cup {NoDoc}]]
      /\ results \in [Files -> Docs \cup {NoDoc}]
      /\ \A m \in messages : m \in Message /\ m.folder \in Folders /\ m.file \in Files
      /\ \A j \in jobs : j \in Job
      /\ file \in Files
  BY RawTyped DEF TypeOK
<1>1. ASSUME raw["vendor"][file] # NoDoc PROVE Safe
  BY <1>1 DEF NothingForgotten
<1>2. ASSUME Safe, dead \subseteq dead', ignored \subseteq ignored', jobs \subseteq jobs',
             \A x \in messages : About(x) =>
                \/ x \in messages' \/ \E y \in messages' : About(y)
                \/ \E j \in jobs' : About(j)
                \/ file \in dead' \cup ignored'
      PROVE  Safe'
  BY <1>2 DEF UnderWay
<1>3. ASSUME NEW d \in Docs, StoreAttachment(d) PROVE Safe'
  <2>1. CASE FileOf[d] = file
    BY <1>3, <2>1, CreatedSome DEF StoreAttachment, UnderWay
  <2>2. CASE FileOf[d] # file
    <3>1. raw["vendor"][file] # NoDoc
      BY <1>0, <1>3, <2>2 DEF StoreAttachment
    <3> QED
      BY <1>1, <1>2, <1>3, <3>1 DEF StoreAttachment
  <2> QED
    BY <2>1, <2>2
<1>4. ASSUME NEW e \in Emails, AcceptEmail(e) \/ FailEmail(e) PROVE Safe'
  BY <1>1, <1>2, <1>4 DEF AcceptEmail, FailEmail
<1>5. ASSUME NEW j \in jobs, FinishJob(j) PROVE Safe'
  <2>1. /\ messages \subseteq messages' /\ dead' = dead /\ ignored' = ignored
        /\ raw' = raw /\ jobs' = jobs \ {j}
    BY <1>5 DEF FinishJob
  <2>2. \E x \in messages' : x.folder = j.folder /\ x.file = j.file
    <3>1. PICK found \in {j.doc, NoDoc} :
            messages' = messages \cup Send("textract-data", j.folder, j.file, found)
      BY <1>5 DEF FinishJob
    <3>2. \E x \in Send("textract-data", j.folder, j.file, found) :
            x.folder = j.folder /\ x.file = j.file
      BY DEF Send
    <3> QED
      BY <3>1, <3>2
  <2>3. Safe
    BY <1>1, <2>1
  <2> QED
    BY <2>1, <2>2, <2>3 DEF UnderWay
<1>6. ASSUME NEW m \in messages, Fail(m) PROVE Safe'
  <2>1. /\ \A x \in messages : x = m \/ x \in messages'
        /\ dead \subseteq dead'
        /\ \/ \E x \in messages' : x.folder = m.folder /\ x.file = m.file
           \/ m.folder = "vendor" => m.file \in dead'
    BY <1>6, ReturnFacts DEF Fail
  <2> QED
    BY <1>1, <1>2, <1>6, <2>1 DEF Fail
<1>7. ASSUME NEW m \in messages, NEW sent \in SUBSET Message, Finish(m, sent), Safe,
             ignored \subseteq ignored', jobs \subseteq jobs',
             About(m) => \/ \E x \in sent : About(x)
                         \/ \E j \in jobs' : About(j)
                         \/ file \in ignored'
      PROVE  Safe'
  <2>1. /\ \A x \in messages : x = m \/ x \in messages'
        /\ dead \subseteq dead' /\ sent \subseteq messages'
    BY <1>7, FinishFacts
  <2> QED
    BY <1>2, <1>7, <2>1
<1>8. ASSUME NEW m \in messages, NEW step \in Steps, NEW sent \in SUBSET Message,
             Proceed(m, step, sent), Safe, UNCHANGED <<dead, ignored, jobs>>
      PROVE  Safe'
  <2>1. /\ \A x \in messages : x = m \/ x \in messages'
        /\ \E x \in messages' : x.folder = m.folder /\ x.file = m.file
    BY <1>8, ProceedFacts
  <2> QED
    BY <1>2, <1>8, <2>1
<1>9. ASSUME NEW m \in messages, ExtractCsv(m) PROVE Safe'
  <2> DEFINE sent == Send("invoice-storage", "vendor", m.file, raw["vendor"][m.file])
  <2>1. raw["vendor"][m.file] \in Docs \cup {NoDoc}
    BY <1>0
  <2>2. sent \subseteq Message /\ (About(m) => \E x \in sent : About(x))
    BY <1>0, <2>1, SendType DEF Send
  <2> QED
    BY <1>1, <1>7, <1>9, <2>2 DEF ExtractCsv
<1>10. ASSUME NEW m \in messages, StartAnalysis(m) PROVE Safe'
  <2> DEFINE j == [folder |-> m.folder, file |-> m.file, doc |-> raw[m.folder][m.file]]
  <2>1. About(m) => \E x \in jobs' : About(x)
    <3>1. j \in jobs'
      BY <1>10 DEF StartAnalysis
    <3>2. j.folder = m.folder /\ j.file = m.file
      OBVIOUS
    <3> HIDE DEF j
    <3> QED
      BY <3>1, <3>2
  <2> QED
    BY <1>1, <1>7, <1>10, <2>1 DEF StartAnalysis
<1>11. ASSUME NEW m \in messages, SkipMoved(m) PROVE Safe'
  BY <1>1, <1>7, <1>11 DEF SkipMoved, Moved
<1>12. ASSUME NEW m \in messages
       PROVE  LET sent == Send("pdf-standardisation", m.folder, m.file, NoDoc) IN
              sent \subseteq Message /\ (About(m) => \E x \in sent : About(x))
  BY <1>0, SendType DEF Send
<1>13. ASSUME NEW m \in messages, StoreResults(m) PROVE Safe'
  BY <1>1, <1>7, <1>12, <1>13 DEF StoreResults
<1>14. ASSUME NEW m \in messages, GiveUp(m) PROVE Safe'
  BY <1>1, <1>8, <1>12, <1>14 DEF GiveUp
<1>15. ASSUME NEW m \in messages, Ignore(m) PROVE Safe'
  BY <1>1, <1>7, <1>15 DEF Ignore
<1>16. ASSUME NEW m \in messages, StandardisePdf(m) PROVE Safe'
  <2> DEFINE sent == Send("invoice-storage", m.folder, m.file, results[m.file])
  <2>1. sent \subseteq Message /\ (About(m) => \E x \in sent : About(x))
    BY <1>0, SendType DEF Send
  <2> QED
    BY <1>1, <1>7, <1>16, <2>1 DEF StandardisePdf
<1>17. ASSUME NEW m \in messages, StoreInvoice(m) PROVE Safe'
  BY <1>1, <1>8, <1>17 DEF StoreInvoice
<1>18. ASSUME NEW m \in messages, CopyRaw(m) PROVE Safe'
  <2>1. Target(m) \in Folders /\ Target(m) # "vendor"
    BY DEF Target
  <2>2. raw["vendor"][file] # NoDoc
    BY <1>0, <1>18, <2>1 DEF CopyRaw
  <2>3. Created(Target(m), m.file) \subseteq Message
    BY <1>0, <2>1, CreatedType
  <2> QED
    BY <1>1, <1>8, <1>18, <2>2, <2>3 DEF CopyRaw
<1>19. ASSUME NEW m \in messages, DeleteRaw(m) PROVE Safe'
  <2>1. m.folder = "vendor"
    BY <1>19 DEF DeleteRaw, MayDelete, Course
  <2>2. m.file # file /\ raw["vendor"][file] # NoDoc
    BY <1>0, <1>19, <2>1 DEF DeleteRaw
  <2> QED
    BY <1>1, <1>7, <1>19, <2>2 DEF DeleteRaw
<1>20. CASE UNCHANGED vars
  BY <1>1, <1>2, <1>20 DEF vars
<1> QED
  BY <1>3, <1>4, <1>5, <1>6, <1>9, <1>10, <1>11, <1>13, <1>14, <1>15, <1>16, <1>17, <1>18,
     <1>19, <1>20 DEF Next

--------------------------------------------------------------------------------
LEMMA InvInit == Init => IInv
<1> SUFFICES ASSUME Init PROVE IInv
  OBVIOUS
<1> USE RawInvoicesAssumption
<1>1. TypeOK
  BY TypeInit
<1>2. \A d \in Docs, folder \in Folders : ~Holds(folder, d)
  BY DEF Init, Holds
<1>3. Own /\ Course /\ Moving /\ NothingForgotten
  BY DEF Init, Own, Course, Moving, NothingForgotten
<1>4. Mailed
  BY DEF Init, Mailed
<1>5. SuccessfulMeansBilled
  BY <1>2 DEF SuccessfulMeansBilled, Unshared
<1> QED
  BY <1>1, <1>3, <1>4, <1>5 DEF IInv

LEMMA InvStep == IInv /\ [Next]_vars => IInv'
  BY TypeStep, OwnStep, CourseStep, MovingStep, MailedStep, SuccessfulStep, ForgottenStep DEF IInv

LEMMA Invariance == Spec => []IInv
  BY InvInit, InvStep, PTL DEF Spec

\* Every reachable state of the pipeline of raw invoices is well-typed.
THEOREM TypeCorrect == Spec => []TypeOK
<1>1. IInv => TypeOK
  BY DEF IInv
<1> QED
  BY <1>1, Invariance, PTL

\* An accepted attachment with a name of its own stays in the raw bucket (process-email
\* acknowledges after the puts, and moveS3 deletes after it copied).
THEOREM RawStays == Spec => []RawKept
<1>1. IInv => RawKept
  BY DEF IInv, Mailed, RawKept
<1> QED
  BY <1>1, Invariance, PTL

\* What lies in successful/ under a name of its own has had its line items stored.
THEOREM SuccessfulBilled == Spec => []SuccessfulMeansBilled
<1>1. IInv => SuccessfulMeansBilled
  BY DEF IInv
<1> QED
  BY <1>1, Invariance, PTL

\* What lies in a vendor's folder is being worked on, or was visibly given up.
THEOREM NeverForgotten == Spec => []NothingForgotten
<1>1. IInv => NothingForgotten
  BY DEF IInv
<1> QED
  BY <1>1, Invariance, PTL
================================================================================
