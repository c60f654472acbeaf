\* Three events, two to a file, one run: both puts of it may start in the same millisecond.
SPECIFICATION Spec
CONSTANTS
  Files = {f1, f2, f3}
  Legacy = {}
  ChunkSize = 2
  MaxKeys = 3
  MaxRuns = 1
  MaxMs = 1
PROPERTY ChunksKept
CHECK_DEADLOCK FALSE
