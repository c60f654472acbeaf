\* Each attachment alone, or with the one that replaces it.  E-mails and csv
\* notifications are delivered up to twice; a second job for a pdf comes from its e-mail.
SPECIFICATION Spec
CONSTANTS
  pdfMail = pdfMail
  csvMail = csvMail
  twinMail = twinMail
  pdf = pdf
  csv = csv
  odd = odd
  wrong = wrong
  right = right
  pdfFile = pdfFile
  csvFile = csvFile
  oddFile = oddFile
  sharedFile = sharedFile
  NoDoc = NoDoc
  Emails = {pdfMail, csvMail, twinMail}
  Docs = {pdf, csv, odd, wrong, right}
  EmailOf <- MCEmailOf
  Files = {pdfFile, csvFile, oddFile, sharedFile}
  FileOf <- MCFileOf
  Pdfs = {pdfFile}
  Csvs = {csvFile, sharedFile}
  Parses = {pdf, csv, wrong, right}
  Matches = {pdf, csv, wrong, right}
  Sent <- MCSent
  MaxReceive <- MCMaxReceive
INVARIANTS TypeOK RawKept SuccessfulMeansBilled NothingForgotten
PROPERTY Settles
CHECK_DEADLOCK FALSE
