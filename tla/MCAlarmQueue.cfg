CONSTANTS
  ALRM_ARR_SIZE = 2
  MaxDelay = 2
  Msgs = {m1, m2}
  NULL = NULL
SPECIFICATION FairSpec
INVARIANTS
  TypeOK
  OneOwner
PROPERTIES
  UnreplacedOnTime
  Executed
CHECK_DEADLOCK FALSE
