CONSTANTS
  Workers = {proc, recv}
  Main = main
  Signals = {"USR1", "USR2"}
  Targets = {proc, recv, main}
  MaxTicks = 3
SPECIFICATION SignalsFairSpec
INVARIANT LockOrder
PROPERTY StopsUnlessStuck
CHECK_DEADLOCK FALSE
