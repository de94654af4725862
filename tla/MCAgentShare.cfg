CONSTANTS
  Panes = {p1, p2}
  p1 = p1
  p2 = p2
  First = {p1}
  Agents = {a1, a2}
  a1 = a1
  a2 = a2
  MostAgents = 2
  MostOpened = 1
  Room = 2
  MaxDeeds = 3
  MaxAsks = 4
  MaxNumber = 5
  MaxErrors = 1
SPECIFICATION Spec
CHECK_DEADLOCK FALSE
INVARIANTS WorkingIsTrue AskStands ListensWhileShared NobodyWaitsInVain
SYMMETRY Alike
