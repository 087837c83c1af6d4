CONSTANTS
  Workers = {w1, w2}
  Urls = {f1, NoFile}
  Empty = NoFile
SPECIFICATION UpgradeFairSpec
PROPERTY ExitsAlways
CHECK_DEADLOCK FALSE
