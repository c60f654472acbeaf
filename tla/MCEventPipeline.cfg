\* Two events from TxMA and an imported one whose vendor clean cannot tell.  Only
\* the clean queue redelivers (each redelivery multiplies the copies downstream):
\* copies meet in the store stage, and batches mix sound and poisonous messages.
SPECIFICATION Spec
CONSTANTS
  billed = billed
  ignored = ignored
  unclean = unclean
  Events = {billed, ignored, unclean}
  Entry <- MCEntry
  Relevant <- MCRelevant
  Sound <- MCSound
  Lambdas = {l1}
  BatchSize = 2
  MaxReceive <- MCMaxReceive
  AtFilter = 1
  AtClean = 2
  AtStore = 1
INVARIANTS TypeOK NoEventLost RightFate
PROPERTIES Settles KeepsLedger
CHECK_DEADLOCK FALSE
