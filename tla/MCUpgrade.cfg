CONSTANTS
  Workers = {w1, w2}
  Urls = {f1, NoFile}
  Empty = NoFile
SPECIFICATION UpgradeFairSpec
INVARIANTS
  OneTransfer
  FlagAccounted
  SettledStatus
  ExitSafe
PROPERTIES
  Exits
  TransferEnds
CHECK_DEADLOCK FALSE
