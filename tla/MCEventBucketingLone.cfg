\* A folder with one event, one run.
SPECIFICATION Spec
CONSTANTS
  Files = {f1}
  Legacy = {}
  ChunkSize = 2
  MaxKeys = 3
  MaxRuns = 1
  MaxMs = 0
PROPERTY LoneEventLeftAlone
CHECK_DEADLOCK FALSE
