CONSTANTS
  Workers = {proc, recv}
  Main = main
  Signals = {"USR1", "USR2"}
  Targets = {main}
  MaxTicks = 3
SPECIFICATION SignalsFairSpec
PROPERTY ExitsSafely
CHECK_DEADLOCK FALSE
