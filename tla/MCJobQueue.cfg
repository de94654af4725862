SPECIFICATION FairSpec
CONSTANTS
  Jobs = {j1, j2, j3}
  Limit = 1
  Senseless = {j1}
  Touched = {j1, j2}
INVARIANTS KeepsToLimit NoneLost
PROPERTIES StoppedEnd WaitIsTrue IsABoard
CHECK_DEADLOCK FALSE
