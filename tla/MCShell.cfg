SPECIFICATION FairSpec
CONSTANTS
  Bits = {1, 4}
  Room = 2
  Menu <- MCMenu
  MaxCommands = 2
  MaxAnswers = 4
INVARIANTS TypeOK WaitAnswers
PROPERTIES EachAnswered
CHECK_DEADLOCK FALSE
