CONSTANTS
  Jobs = {j1, j2}
  j1 = j1
  j2 = j2
  Kinds = {"copy"}
  Parent <- OneFile
  Dirs = {}
  Links = {}
  Taken = {}
  Chunks = 2
  Faults = 0
SPECIFICATION Spec
CHECK_DEADLOCK FALSE
INVARIANT NeverHalf
