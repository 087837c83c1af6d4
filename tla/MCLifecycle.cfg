CONSTANT Children <- ServerChildren
SPECIFICATION FairSpec
INVARIANTS
  WaitIsEnough
  OverSticks
PROPERTY ThreadsStop
CHECK_DEADLOCK FALSE
