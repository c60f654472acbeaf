SPECIFICATION Spec
CONSTANTS
  Records = {r1, r2}
  Objects = {o1}
  NoObject = NoObject
  Destinations = {d1}
  MaxOut = 1
  SliceSize = 1
INVARIANT OwnFailuresOnly
CHECK_DEADLOCK FALSE
