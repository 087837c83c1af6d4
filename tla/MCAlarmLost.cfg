CONSTANTS
  ALRM_ARR_SIZE = 1
  MaxDelay = 1
  Msgs = {m1, m2}
  NULL = NULL
SPECIFICATION Spec
INVARIANT Transferred
CHECK_DEADLOCK FALSE
