SPECIFICATION FairSpec
CONSTANTS
  Watchers = {w1}
  Program = Program
  Window = Window
  NoOne = NoOne
  Cap = 2
  MaxSaid = 4
  MaxPaints = 1
  MaxRestarts = 1
INVARIANT TailIsRead
PROPERTIES CatchesUp EndIsRead
