CONSTANTS
  Arrivals = 2
  MaxStreams = 1
  Kinds = {"local", "remote", "dynamic"}
  MaxTrouble = 2
SPECIFICATION FairSpec
CHECK_DEADLOCK FALSE
INVARIANTS NothingLeftOpen NoneOutlives AtMostItCarries
PROPERTIES ClosingEnds RowIsTrue
