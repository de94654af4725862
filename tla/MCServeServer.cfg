CONSTANTS
  Clients = {c1, c2}
  c1 = c1
  c2 = c2
  Listeners = {c1}
  Workers = {c2}
  App = App
  Accept = Accept
  AtOnce = 1
  MaxSnaps = 2
SPECIFICATION FairSpec
CHECK_DEADLOCK FALSE
INVARIANTS NobodyOutlivesClose GoneMeansOver NoWakeIsLost
PROPERTIES EverybodyGoes
