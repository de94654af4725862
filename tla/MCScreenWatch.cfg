SPECIFICATION Spec
CONSTANTS
  Watchers = {w1, w2}
  Program = Program
  Window = Window
  NoOne = NoOne
  Cap = 2
  MaxSaid = 3
  MaxPaints = 1
  MaxRestarts = 0
SYMMETRY Exchange
INVARIANTS NeverBlocks NothingLostNorTwice HolesAreRepainted
