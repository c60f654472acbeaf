\* Two records of up to two objects, slices of two messages.
SPECIFICATION Spec
CONSTANTS
  Records = {r1, r2}
  Objects = {o1, o2}
  NoObject = NoObject
  Destinations = {d1}
  MaxOut = 2
  SliceSize = 2
INVARIANTS TypeOK EveryRecordAnswered SqsFailuresAreReported FailurePreventsOutput
PROPERTY Finishes
CHECK_DEADLOCK FALSE
