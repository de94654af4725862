SPECIFICATION Spec
CONSTANTS
  Windows = {a, b}
  Entries = {e1, e2}
  Keys = {k1, k2}
  MaxWrites = 4
  MaxFaults = 0
SYMMETRY Exchange
CHECK_DEADLOCK FALSE
INVARIANT OnTopNotOver
