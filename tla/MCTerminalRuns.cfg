CONSTANTS
  MaxRuns = 2
  MaxAsks = 2
  OutRoom = 1
  Room = 1
  Others = 1
  Stubborn = {1}
  Kinds = {"shell", "command", "far"}
  AskedIn = {"command"}
  ChosenIn = {"shell", "far"}
SPECIFICATION FairSpec
CHECK_DEADLOCK FALSE
INVARIANTS NothingIsLeftOver StatusIsItsOwn AskIsAnswered
PROPERTIES EndedIsAsked LivesInTurn
