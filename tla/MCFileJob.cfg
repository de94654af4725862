CONSTANTS
  Jobs = {j1}
  j1 = j1
  Kinds = {"copy", "move", "delete"}
  Parent <- TreeOfFour
  Dirs = {1}
  Links = {4}
  Taken = {1, 2, 3}
  Chunks = 2
  Faults = 2
SPECIFICATION Spec
CHECK_DEADLOCK FALSE
INVARIANTS NeverHalf MoveLosesNothing TheirsStays NothingLeftUnsaid
