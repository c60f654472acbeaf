\* Three events and a legacy file, more than one page lists; up to two consolidated files.
\* The second run meets what the first one left behind.
SPECIFICATION Spec
CONSTANTS
  Files = {f1, f2, f3, f4}
  Legacy = {f4}
  ChunkSize = 2
  MaxKeys = 3
  MaxRuns = 2
  MaxMs = 1
INVARIANTS TypeOK NothingVanishes ReadOnce
PROPERTY OneChunkKept
CHECK_DEADLOCK FALSE
