CONSTANT Children <- DefaultChildren
SPECIFICATION Spec
CONSTRAINT StopWhenUp
INVARIANT WaitedForAll
CHECK_DEADLOCK FALSE
