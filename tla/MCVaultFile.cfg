SPECIFICATION Spec
CONSTANTS
  Windows = {a, b, c}
  Entries = {e1, e2}
  Keys = {k1, k2}
  MaxWrites = 4
  MaxFaults = 2
SYMMETRY Exchange
CHECK_DEADLOCK FALSE
INVARIANTS TypeOK NothingSavedIsLost TheCountTells OneMaker
